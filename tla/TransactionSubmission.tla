------------------------ MODULE TransactionSubmission ------------------------
(* POST /loans/submit and /pool/submit behind idempotencyMiddleware.  First   *)
(* the middleware: requests that carry an Idempotency-Key, the Redis entries  *)
(* that remember the first answer and the lock of the request being executed, *)
(* and the circuit breaker in front of Redis.  Then the handler: the signed   *)
(* transaction goes to the network, is polled for, and its success is         *)
(* recorded in the database transaction that was opened first.                *)
(*                                                                            *)
(* Every attempt is one HTTP request of one caller to one route, so the key   *)
(* alone tells the Redis entries apart, and all carry the same signed         *)
(* transaction, as a client that retries sends it.  A step ends where the     *)
(* code awaits.                                                               *)
EXTENDS Integers

CONSTANTS Attempts,     \* requests
          KeyOf,        \* attempt -> its Idempotency-Key, or NoKey
          NoKey,
          THRESHOLD,    \* failures that open the breaker
          FAULTS        \* bound: Redis operations that fail

VARIABLES attempt,      \* attempt -> [at, status, blind]
          cached,       \* key -> status of the stored answer, or None
          lock,         \* key -> the attempt whose token is stored, or Unlocked
          failures,     \* failureCount
          cooling,      \* the last failure is less than resetTimeoutMs ago
          faults

idemp_vars == <<attempt, cached, lock, failures, cooling, faults>>

None == 0
Unlocked == 0
Keys == { KeyOf[r] : r \in Attempts } \ {NoKey}

(* An attempt's token is told apart from a lock that is free. *)
TokenConstants == Unlocked \notin Attempts

IdempInit ==
    /\ attempt = [r \in Attempts |-> [at |-> "idle", status |-> None, blind |-> FALSE]]
    /\ cached = [k \in Keys |-> None]
    /\ lock = [k \in Keys |-> Unlocked]
    /\ failures = 0
    /\ cooling = FALSE
    /\ faults = 0

goes(r, at) == attempt' = [attempt EXCEPT ![r].at = at]
answered(r, status) ==
    attempt' = [attempt EXCEPT ![r] = [@ EXCEPT !.at = "answered", !.status = status]]

(* The cache had nothing to say, or could not be asked: then the request goes *)
(* on blind.                                                                  *)
goes_on(r, at, blind) == attempt' = [attempt EXCEPT ![r] = [@ EXCEPT !.at = at, !.blind = blind]]

redis_ok == UNCHANGED faults
redis_fails == faults < FAULTS /\ faults' = faults + 1

recordSuccess == failures' = 0 /\ UNCHANGED cooling
recordFailure == failures' = failures + 1 /\ cooling' = TRUE

isOpen == failures >= THRESHOLD /\ cooling

reset_timeout_passes ==
    /\ cooling
    /\ cooling' = FALSE
    /\ UNCHANGED <<attempt, cached, lock, failures, faults>>

-----------------------------------------------------------------------------
arrive(r) ==
    /\ attempt[r].at = "idle"
    /\ \/ KeyOf[r] = NoKey /\ goes(r, "handling")
       \/ KeyOf[r] # NoKey /\ isOpen /\ answered(r, 503)
       \/ KeyOf[r] # NoKey /\ ~isOpen /\ goes(r, "look")
    /\ UNCHANGED <<cached, lock, failures, cooling, faults>>

(* cacheService.get logs a failure and answers null. *)
get(r, miss) ==
    \/ /\ redis_ok
       /\ IF cached[KeyOf[r]] # None
          THEN answered(r, cached[KeyOf[r]])
          ELSE goes_on(r, miss, FALSE)
    \/ redis_fails /\ goes_on(r, miss, TRUE)

look(r) ==
    /\ attempt[r].at = "look"
    /\ get(r, "reserve")
    /\ recordSuccess
    /\ UNCHANGED <<cached, lock>>

(* cacheService.reserve: SET NX, or an exception. *)
reserve(r) ==
    /\ attempt[r].at = "reserve" /\ redis_ok
    /\ IF lock[KeyOf[r]] = Unlocked
       THEN lock' = [lock EXCEPT ![KeyOf[r]] = r] /\ goes(r, "check")
       ELSE goes(r, "reread") /\ UNCHANGED lock
    /\ UNCHANGED <<cached, failures, cooling>>

reserve_refused(r) == answered(r, 503) /\ recordFailure

(* A failure treated like the other failing cache calls: carry on. *)
reserve_ignored(r) == goes(r, "check") /\ recordFailure

reserve_fails_to(r) == reserve_refused(r)

reserve_fails(r) ==
    /\ attempt[r].at = "reserve" /\ redis_fails
    /\ reserve_fails_to(r)
    /\ UNCHANGED <<cached, lock>>

(* The lock is taken: the answer if it is there by now, else a conflict. *)
reread(r) ==
    /\ attempt[r].at = "reread"
    /\ get(r, "conflict")
    /\ UNCHANGED <<cached, lock, failures, cooling>>

conflict(r) ==
    /\ attempt[r].at = "conflict"
    /\ answered(r, 409)
    /\ UNCHANGED <<cached, lock, failures, cooling, faults>>

(* deleteIfMatch: only its own token, and a failure leaves it. *)
released(r) ==
    \/ /\ redis_ok
       /\ lock' = IF lock[KeyOf[r]] = r THEN [lock EXCEPT ![KeyOf[r]] = Unlocked] ELSE lock
    \/ redis_fails /\ UNCHANGED lock

second_read(r) ==
    \/ /\ cached[KeyOf[r]] = None /\ redis_ok
       /\ goes_on(r, "handling", FALSE)
    \/ /\ cached[KeyOf[r]] # None /\ redis_ok
       /\ goes(r, "redundant")
    \/ redis_fails /\ goes_on(r, "handling", TRUE)

check_again(r) == second_read(r)

check(r) ==
    /\ attempt[r].at = "check"
    /\ check_again(r)
    /\ UNCHANGED <<cached, lock, failures, cooling>>

(* Someone else finished in between: its answer, and the lock given back. *)
redundant(r) ==
    /\ attempt[r].at = "redundant"
    /\ cached[KeyOf[r]] # None
    /\ released(r)
    /\ answered(r, cached[KeyOf[r]])
    /\ UNCHANGED <<cached, failures, cooling>>

cacheable(status) == status >= 200 /\ status < 500

(* res.on('finish'): store a cacheable answer, then give the lock back, which *)
(* is kept when storing failed.                                               *)
finish(r) ==
    /\ attempt[r].at = "finish"
    /\ IF KeyOf[r] # NoKey /\ cacheable(attempt[r].status)
       THEN \/ /\ redis_ok
               /\ cached' = [cached EXCEPT ![KeyOf[r]] = attempt[r].status]
               /\ goes(r, "release") /\ recordSuccess
            \/ redis_fails /\ recordFailure /\ goes(r, "answered") /\ UNCHANGED cached
       ELSE /\ goes(r, IF KeyOf[r] = NoKey THEN "answered" ELSE "release")
            /\ UNCHANGED <<cached, failures, cooling, faults>>
    /\ UNCHANGED lock

release(r) ==
    /\ attempt[r].at = "release"
    /\ released(r)
    /\ goes(r, "answered")
    /\ UNCHANGED <<cached, failures, cooling>>

(* The client went away before the response was written: no 'finish'. *)
connection_lost(r) ==
    /\ attempt[r].at = "finish"
    /\ goes(r, "lost")
    /\ UNCHANGED <<cached, lock, failures, cooling, faults>>

(* 24 hours after it was set, which no handler outlives. *)
lock_expires(k) ==
    /\ lock[k] # Unlocked
    /\ attempt[lock[k]].at \in {"answered", "lost"}
    /\ lock' = [lock EXCEPT ![k] = Unlocked]
    /\ UNCHANGED <<attempt, cached, failures, cooling, faults>>

IdempStep(r) ==
    \/ arrive(r) \/ look(r) \/ reserve(r) \/ reserve_fails(r) \/ reread(r) \/ conflict(r)
    \/ check(r) \/ redundant(r) \/ finish(r) \/ release(r) \/ connection_lost(r)

Executing == {"handling", "finish"}

-----------------------------------------------------------------------------
(* Two requests with the same key are never executed at the same time,       *)
(* whatever Redis does: the handler runs only under the key's lock, and a    *)
(* Redis that cannot give the lock stops the request (503).                  *)
HandledApart ==
    \A r, s \in Attempts :
        r # s /\ KeyOf[r] = KeyOf[s] /\ KeyOf[r] # NoKey =>
            ~(attempt[r].at \in Executing /\ attempt[s].at \in Executing)

(* A request whose key already has a stored answer is executed again only if *)
(* the read after taking the lock failed: a request that finished between    *)
(* the first read and the lock is noticed.                                   *)
ReExecutedBlind ==
    \A r \in Attempts :
        attempt[r].at # "handling" /\ attempt'[r].at = "handling" /\ KeyOf[r] # NoKey =>
            cached[KeyOf[r]] = None \/ attempt'[r].blind

-----------------------------------------------------------------------------
(* The handler. *)

VARIABLES phase,     \* attempt -> where the handler is
          network,   \* what the network knows of the transaction
          recorded   \* transaction_submissions has a row for its hash

submit_vars == <<idemp_vars, phase, network, recorded>>

SubmitInit ==
    /\ IdempInit
    /\ phase = [r \in Attempts |-> "send"]
    /\ network = "unknown"
    /\ recorded = FALSE

kept == UNCHANGED <<cached, lock, failures, cooling, faults>>

(* The handler's answer, given to the client when the response finishes. *)
responds(r, status) ==
    /\ attempt' = [attempt EXCEPT ![r] = [@ EXCEPT !.at = "finish", !.status = status]]
    /\ UNCHANGED phase

transactionNotSuccessful(status) ==
    IF status \in {"NOT_FOUND", "TRY_AGAIN_LATER"} THEN 503 ELSE 400

(* sendTransaction as the RPC server answers it: a transaction that is       *)
(* queued already is a DUPLICATE, one that has been applied has used its     *)
(* sequence number and is an ERROR.  A lost answer throws.                   *)
sendTransaction(status) ==
    \/ network = "unknown" /\ status = "PENDING" /\ network' = "pending"
    \/ network = "unknown" /\ status = "ERROR" /\ UNCHANGED network
    \/ network = "unknown" /\ status = "throws" /\ network' = "pending"
    \/ network = "pending" /\ status = "DUPLICATE" /\ UNCHANGED network
    \/ network \in {"applied", "failed"} /\ status = "ERROR" /\ UNCHANGED network
    \/ status \in {"TRY_AGAIN_LATER", "throws"} /\ UNCHANGED network

(* submitSignedTx up to the poll; "throws" also stands for a database        *)
(* connection that could not be had.                                         *)
submitSignedTx(r) ==
    /\ attempt[r].at = "handling" /\ phase[r] = "send"
    /\ \E status \in {"PENDING", "DUPLICATE", "ERROR", "TRY_AGAIN_LATER", "throws"} :
           /\ sendTransaction(status)
           /\ \/ /\ status \in {"PENDING", "DUPLICATE"}
                 /\ phase' = [phase EXCEPT ![r] = "poll"]
                 /\ UNCHANGED attempt
              \/ /\ status \in {"ERROR", "TRY_AGAIN_LATER"}
                 /\ responds(r, transactionNotSuccessful(status))
              \/ status = "throws" /\ responds(r, 500)
    /\ UNCHANGED recorded /\ kept

poll_result ==
    CASE network = "applied" -> "SUCCESS"
      [] network = "failed"  -> "FAILED"
      [] OTHER               -> "NOT_FOUND"

(* A poll that takes a transaction it has not seen fail for a success. *)
poll_result_hopeful == IF network = "failed" THEN "FAILED" ELSE "SUCCESS"

polled_status == poll_result

pollTransaction(r) ==
    /\ attempt[r].at = "handling" /\ phase[r] = "poll"
    /\ \/ polled_status = "SUCCESS" /\ phase' = [phase EXCEPT ![r] = "record"] /\ UNCHANGED attempt
       \/ polled_status # "SUCCESS" /\ responds(r, transactionNotSuccessful(polled_status))
       \/ responds(r, 500)
    /\ UNCHANGED <<network, recorded>> /\ kept

(* The INSERT and COMMIT of withStellarAndDbTransaction, or the ROLLBACK. *)
withStellarAndDbTransaction(r) ==
    /\ attempt[r].at = "handling" /\ phase[r] = "record"
    /\ \/ recorded' = TRUE /\ responds(r, 200)
       \/ responds(r, 500) /\ UNCHANGED recorded
    /\ UNCHANGED network /\ kept

ledger_decides ==
    /\ network = "pending"
    /\ network' \in {"applied", "failed"}
    /\ UNCHANGED <<idemp_vars, phase, recorded>>

SubmitNext ==
    \/ \E r \in Attempts :
           \/ IdempStep(r) /\ UNCHANGED <<phase, network, recorded>>
           \/ submitSignedTx(r) \/ pollTransaction(r) \/ withStellarAndDbTransaction(r)
    \/ reset_timeout_passes /\ UNCHANGED <<phase, network, recorded>>
    \/ \E k \in Keys : lock_expires(k) /\ UNCHANGED <<phase, network, recorded>>
    \/ ledger_decides

SubmitSpec == SubmitInit /\ [][SubmitNext]_submit_vars

-----------------------------------------------------------------------------
(* A client that is told 200, by the handler or by a replay of what an       *)
(* earlier request stored, has a transaction that was applied and that the   *)
(* database knows of.                                                        *)
OkMeansSettled ==
    \A r \in Attempts : attempt[r].status = 200 => network = "applied" /\ recorded

(* Requests with one Idempotency-Key are never executed at the same time,     *)
(* whatever Redis does, and one with a stored answer is executed again only   *)
(* if the read after taking the lock failed (idempotencyMiddleware).          *)
OneAtATime == [][ReExecutedBlind /\ HandledApart']_submit_vars
=============================================================================
