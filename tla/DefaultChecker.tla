--------------------------- MODULE DefaultChecker ---------------------------
(* The job that finds overdue loans among the indexed events and submits      *)
(* check_defaults for them: a scheduler in every instance of the backend and  *)
(* an administrator's request, kept apart by a lock in Redis that expires.    *)
(* All batches are signed by one account, whose sequence number each reads    *)
(* for itself: a transaction that is applied makes every other that is built  *)
(* by then stale.                                                             *)
EXTENDS Integers, Sequences, FiniteSets, FiniteSetsExt, SequencesExt

CONSTANTS Runs,              \* the callers of checkOverdueLoans: <<instance, caller>>
          Book,              \* the loans: id -> [approved, term] (term: the contract's own)
          TERM_LEDGERS, BATCH_SIZE, CONCURRENCY, MAX_LOANS_PER_RUN,
          Named,             \* the lists of loans an administrator names
          MAX_LEDGER,        \* bound: the ledger at which the model stops the clock
          MAX_MISHAPS        \* bound: instances that die and submissions that outlive
                             \* their timeout

VARIABLES sweep,             \* run -> [at, batches]
          sweep_lock,        \* the Redis key: the run that set it, or NoRun
          currentLockValue,  \* instance -> the value of the lock it last took
          defaulted,         \* loans the contract has marked
          repaid_events,     \* loans with a LoanRepaid event, full or partial
          suspect,           \* an unresolved gap in the indexed ledgers
          stray,             \* submissions that outlived their batch's timeout
          ledger_now, mishaps

check_vars == <<sweep, sweep_lock, currentLockValue, defaulted, repaid_events, suspect,
                stray, ledger_now, mishaps>>

Loans == DOMAIN Book
Instances == {r[1] : r \in Runs}
Timers == {r \in Runs : r[2] = "timer"}
NoRun == <<0, "none">>
Resting == [at |-> "rest", batches |-> <<>>]

CheckInit ==
    /\ sweep = [r \in Runs |-> Resting]
    /\ sweep_lock = NoRun
    /\ currentLockValue = [i \in Instances |-> NoRun]
    /\ defaulted = {} /\ repaid_events = {}
    /\ suspect \in BOOLEAN
    /\ stray = {}
    /\ ledger_now = 1 /\ mishaps = 0

chain_kept == UNCHANGED <<defaulted, repaid_events, suspect, stray, ledger_now, mishaps>>

(* SET NX: a Redis that does not answer is a lock that was not had. *)
acquireLock(r) ==
    /\ sweep[r].at = "rest"
    /\ sweep_lock = NoRun
    /\ sweep_lock' = r
    /\ currentLockValue' = [currentLockValue EXCEPT ![r[1]] = r]
    /\ sweep' = [sweep EXCEPT ![r].at = "locked"]
    /\ chain_kept

lock_ttl_expires_never == FALSE

lock_ttl_expires == sweep_lock # NoRun

lock_runs_out ==
    /\ lock_ttl_expires
    /\ sweep_lock' = NoRun
    /\ UNCHANGED <<sweep, currentLockValue>> /\ chain_kept

releaseLock_any(r) ==
    /\ sweep[r].at = "release"
    /\ sweep_lock' = NoRun
    /\ currentLockValue' = [currentLockValue EXCEPT ![r[1]] = NoRun]
    /\ sweep' = [sweep EXCEPT ![r] = Resting]
    /\ chain_kept

(* The key is deleted if it still has the value this instance took last.      *)
releaseLock(r) ==
    LET value == currentLockValue[r[1]]
    IN  /\ sweep[r].at = "release"
        /\ sweep_lock' = IF value # NoRun /\ sweep_lock = value THEN NoRun ELSE sweep_lock
        /\ currentLockValue' = [currentLockValue EXCEPT ![r[1]] = NoRun]
        /\ sweep' = [sweep EXCEPT ![r] = Resting]
        /\ chain_kept

(* A gap in the ledgers, a missing configuration and an RPC server that does  *)
(* not answer all end the run, through the finally that releases the lock.    *)
hasSuspectLedgerRanges(r) ==
    /\ sweep[r].at = "locked"
    /\ suspect
    /\ sweep' = [sweep EXCEPT ![r].at = "release"]
    /\ UNCHANGED <<sweep_lock, currentLockValue>> /\ chain_kept

run_fails(r) ==
    /\ sweep[r].at = "locked"
    /\ sweep' = [sweep EXCEPT ![r].at = "release"]
    /\ UNCHANGED <<sweep_lock, currentLockValue>> /\ chain_kept

due_ledger(l) == Book[l].approved + TERM_LEDGERS

earlier(a, b) == due_ledger(a) < due_ledger(b) \/ (due_ledger(a) = due_ledger(b) /\ a < b)

(* Active is approved with no repayment or default indexed; the term is the   *)
(* configured one, whatever the loan's.                                       *)
fetchOverdueLoanIds ==
    LET rows == SetToSortSeq({l \in Loans \ (repaid_events \cup defaulted) :
                                  Book[l].approved <= ledger_now /\ due_ledger(l) < ledger_now}, earlier)
    IN  SubSeq(rows, 1, Min({Len(rows), MAX_LOANS_PER_RUN}))

chunks(ids) ==
    [i \in 1..((Len(ids) + BATCH_SIZE - 1) \div BATCH_SIZE) |->
        [ids |-> SubSeq(ids, (i - 1) * BATCH_SIZE + 1, Min({i * BATCH_SIZE, Len(ids)})),
         at |-> "todo"]]

(* An administrator may name the loans, which need not be overdue. *)
checkOverdueLoans(r) ==
    /\ sweep[r].at = "locked" /\ ~suspect
    /\ \/ sweep' = [sweep EXCEPT ![r] = [at |-> "submit", batches |-> chunks(fetchOverdueLoanIds)]]
       \/ /\ r[2] = "admin"
          /\ \E ids \in Named : sweep' = [sweep EXCEPT ![r] = [at |-> "submit", batches |-> chunks(ids)]]
    /\ UNCHANGED <<sweep_lock, currentLockValue>> /\ chain_kept

(* mapConcurrent: a worker takes the next batch and reads the account. *)
submitCheckDefaults(r, i) ==
    LET batches == sweep[r].batches
    IN  /\ sweep[r].at = "submit" /\ i \in DOMAIN batches /\ batches[i].at = "todo"
        /\ \A j \in 1..i-1 : batches[j].at # "todo"
        /\ Cardinality({j \in DOMAIN batches : batches[j].at \in {"built", "stale"}}) < CONCURRENCY
        /\ sweep' = [sweep EXCEPT ![r].batches[i].at = "built"]
        /\ UNCHANGED <<sweep_lock, currentLockValue>> /\ chain_kept

(* The contract marks those of the batch that are overdue by their own term. *)
check_defaults(ids) ==
    defaulted \cup {l \in ToSet(ids) : Book[l].approved + Book[l].term < ledger_now /\ Book[l].approved <= ledger_now}

(* The sequence number is used: what else was built on it is stale. *)
outdated(runs) ==
    [r \in Runs |-> [runs[r] EXCEPT !.batches =
        [i \in DOMAIN runs[r].batches |->
            [runs[r].batches[i] EXCEPT !.at = IF @ = "built" THEN "stale" ELSE @]]]]

(* The batch ends with its transaction in a ledger, whose status nobody looks *)
(* at, or with an error.                                                      *)
batch_sent(r, i) ==
    /\ sweep[r].at = "submit" /\ i \in DOMAIN sweep[r].batches /\ sweep[r].batches[i].at = "built"
    /\ defaulted' = check_defaults(sweep[r].batches[i].ids)
    /\ sweep' = outdated([sweep EXCEPT ![r].batches[i].at = "done"])
    /\ stray' = {}
    /\ UNCHANGED <<sweep_lock, currentLockValue, repaid_events, suspect, ledger_now, mishaps>>

batch_refused(r, i) ==
    /\ sweep[r].at = "submit" /\ i \in DOMAIN sweep[r].batches
    /\ sweep[r].batches[i].at \in {"built", "stale"}
    /\ sweep' = [sweep EXCEPT ![r].batches[i].at = "done"]
    /\ UNCHANGED <<sweep_lock, currentLockValue>> /\ chain_kept

(* The race is lost to the timer, and the submission goes on by itself. *)
submitCheckDefaultsWithTimeout(r, i) ==
    /\ sweep[r].at = "submit" /\ i \in DOMAIN sweep[r].batches /\ sweep[r].batches[i].at = "built"
    /\ mishaps < MAX_MISHAPS /\ mishaps' = mishaps + 1
    /\ stray' = stray \cup {sweep[r].batches[i].ids}
    /\ sweep' = [sweep EXCEPT ![r].batches[i].at = "done"]
    /\ UNCHANGED <<sweep_lock, currentLockValue, defaulted, repaid_events, suspect, ledger_now>>

stray_sent(ids) ==
    /\ defaulted' = check_defaults(ids)
    /\ sweep' = outdated(sweep)
    /\ stray' = {}
    /\ UNCHANGED <<sweep_lock, currentLockValue, repaid_events, suspect, ledger_now, mishaps>>

run_completes(r) ==
    /\ sweep[r].at = "submit"
    /\ \A i \in DOMAIN sweep[r].batches : sweep[r].batches[i].at = "done"
    /\ sweep' = [sweep EXCEPT ![r].at = "release"]
    /\ UNCHANGED <<sweep_lock, currentLockValue>> /\ chain_kept

instance_dies(n) ==
    /\ mishaps < MAX_MISHAPS /\ mishaps' = mishaps + 1
    /\ \E r \in Runs : r[1] = n /\ sweep[r] # Resting
    /\ sweep' = [r \in Runs |-> IF r[1] = n THEN Resting ELSE sweep[r]]
    /\ currentLockValue' = [currentLockValue EXCEPT ![n] = NoRun]
    /\ UNCHANGED <<sweep_lock, defaulted, repaid_events, suspect, stray, ledger_now>>

ledger_passes ==
    /\ ledger_now < MAX_LEDGER
    /\ ledger_now' = ledger_now + 1
    /\ UNCHANGED <<sweep, sweep_lock, currentLockValue, defaulted, repaid_events, suspect, stray, mishaps>>

gap_resolved ==
    /\ suspect /\ suspect' = FALSE
    /\ UNCHANGED <<sweep, sweep_lock, currentLockValue, defaulted, repaid_events, stray, ledger_now, mishaps>>

borrower_pays(l) ==
    /\ l \notin defaulted \cup repaid_events
    /\ repaid_events' = repaid_events \cup {l}
    /\ UNCHANGED <<sweep, sweep_lock, currentLockValue, defaulted, suspect, stray, ledger_now, mishaps>>

Indices == 1..Cardinality(Loans)

CheckNext ==
    \/ \E r \in Runs :
           \/ acquireLock(r) \/ releaseLock(r) \/ hasSuspectLedgerRanges(r) \/ run_fails(r)
           \/ checkOverdueLoans(r) \/ run_completes(r)
           \/ \E i \in Indices : \/ submitCheckDefaults(r, i) \/ batch_sent(r, i)
                                 \/ batch_refused(r, i) \/ submitCheckDefaultsWithTimeout(r, i)
    \/ \E ids \in stray : stray_sent(ids)
    \/ \E n \in Instances : instance_dies(n)
    \/ \E l \in Loans : borrower_pays(l)
    \/ lock_runs_out \/ ledger_passes \/ gap_resolved

goes_on(r) ==
    \/ releaseLock(r) \/ hasSuspectLedgerRanges(r) \/ run_completes(r)
    \/ \E i \in Indices : submitCheckDefaults(r, i) \/ batch_refused(r, i)

(* Every interval fires, what runs goes on, Redis expires its keys and the    *)
(* network takes a submission it is offered again and again.                  *)
CheckFairness ==
    /\ WF_check_vars(ledger_passes) /\ WF_check_vars(gap_resolved) /\ WF_check_vars(lock_runs_out)
    /\ \A r \in Runs : WF_check_vars(goes_on(r))
    /\ \A r \in Timers :
           /\ SF_check_vars(acquireLock(r)) /\ SF_check_vars(checkOverdueLoans(r))
           /\ SF_check_vars(\E i \in Indices : batch_sent(r, i))

-----------------------------------------------------------------------------
(* "A run that outlives the TTL cannot delete a lock that now belongs to a    *)
(* different instance."                                                       *)
ReleasesOwnLock ==
    [][ \A r \in Runs : releaseLock(r) /\ sweep_lock' # sweep_lock => sweep_lock[1] = r[1] ]_check_vars

(* A loan that is overdue by the configured term and by its own, and that has *)
(* no repayment indexed, is marked in the end: through collisions of the      *)
(* batches, crashes that leave the lock behind, timeouts and gaps.            *)
OverdueIsMarked ==
    \A l \in Loans :
        (due_ledger(l) < ledger_now /\ Book[l].approved + Book[l].term < ledger_now)
            ~> (l \in defaulted \cup repaid_events)
=============================================================================
