---------------------------- MODULE Remittances ----------------------------
(* The remittances of the backend: a payment is screened, built against the   *)
(* sender's account and stored; the signed transaction comes back, is claimed *)
(* by one request, sent, polled for and its outcome written to the row.       *)
EXTENDS Integers, FiniteSets, FiniteSetsExt

CONSTANTS Clerks,            \* requests in flight at once
          Remitters,         \* senders
          MAX_REMITTANCES,   \* bound: rows of remittances
          Sums,              \* amounts that are sent
          REPORTING_THRESHOLD, DAILY_TX_LIMIT,
          MAX_SCREENINGS     \* bound: screenings of applicants

VARIABLES remittances,   \* remittances: id -> row
          onchain,       \* the network: id -> what became of its payment
          sequence,      \* the network: sender -> sequence number of the account
          profile,       \* compliance_profiles: sender -> profile
          alerts,        \* senders with a transaction_monitoring_alerts row
          filed,         \* senders whose sar_reports row was submitted
          clerk,         \* what each request in flight has read
          screenings     \* screenings so far

remit_vars == <<remittances, onchain, sequence, profile, alerts, filed, clerk, screenings>>

NoProfile == [status |-> "none", high_risk |-> FALSE]
Free == [at |-> "free"]

RemitInit ==
    /\ remittances = <<>>
    /\ onchain = <<>>
    /\ sequence = [s \in Remitters |-> 0]
    /\ profile = [s \in Remitters |-> NoProfile]
    /\ alerts = {} /\ filed = {}
    /\ clerk = [c \in Clerks |-> Free]
    /\ screenings = 0

(* What the provider's hits make of an applicant: a confirmed sanction        *)
(* rejects, any other hit asks for a review.                                  *)
screening_status(hits) ==
    IF "confirmed_sanction" \in hits THEN "rejected"
    ELSE IF hits # {} THEN "review" ELSE "approved"

screenApplicant(s, hits, high_risk) ==
    /\ screenings < MAX_SCREENINGS
    /\ screenings' = screenings + 1
    /\ profile' = [profile EXCEPT ![s] = [status |-> screening_status(hits), high_risk |-> high_risk]]
    /\ UNCHANGED <<remittances, onchain, sequence, alerts, filed, clerk>>

(* The rows of the last 24 hours, whatever became of them. *)
history(s) == {r \in DOMAIN remittances : remittances[r].sender = s}

amount_24h(s) == MapThenSumSet(LAMBDA r : remittances[r].amount, history(s))

near_threshold(amount) == 10 * amount >= 8 * REPORTING_THRESHOLD /\ amount < REPORTING_THRESHOLD

near_threshold_count(s) == Cardinality({r \in history(s) : near_threshold(remittances[r].amount)})

rules(s, amount) ==
    (IF Cardinality(history(s)) >= DAILY_TX_LIMIT THEN {"VELOCITY_24H"} ELSE {})
    \cup (IF amount_24h(s) + amount >= REPORTING_THRESHOLD THEN {"AGGREGATE_THRESHOLD"} ELSE {})
    \cup (IF amount >= REPORTING_THRESHOLD THEN {"LARGE_TRANSACTION"} ELSE {})
    \cup (IF near_threshold_count(s) >= 2 /\ near_threshold(amount) THEN {"STRUCTURING"} ELSE {})
    \cup (IF profile[s].high_risk THEN {"HIGH_RISK_JURISDICTION"} ELSE {})

(* The filing answers, or it does not and the report stays a draft. *)
submitSar(s) == filed' \in {filed, filed \cup {s}}

(* createRemittance up to the building of the transaction, where
   KYC_ENFORCEMENT_ENABLED is set; without it every payment is allowed. *)
monitorTransaction(c, s, amount) ==
    /\ clerk[c] = Free
    /\ \/ /\ profile[s].status # "approved"
          /\ UNCHANGED <<clerk, alerts, filed>>
       \/ /\ profile[s].status = "approved" /\ rules(s, amount) = {}
          /\ clerk' = [clerk EXCEPT ![c] = [at |-> "build", sender |-> s, amount |-> amount]]
          /\ UNCHANGED <<alerts, filed>>
       \/ /\ profile[s].status = "approved" /\ rules(s, amount) # {}
          /\ alerts' = alerts \cup {s}
          /\ submitSar(s)
          /\ UNCHANGED clerk
    /\ UNCHANGED <<remittances, onchain, sequence, profile, screenings>>

(* The payment is built on the sequence number the account has now; the row   *)
(* is inserted by a statement of its own.                                     *)
build_payment(c) ==
    /\ clerk[c].at = "build"
    /\ clerk' = [clerk EXCEPT ![c] = [at |-> "insert", sender |-> clerk[c].sender,
                                      amount |-> clerk[c].amount, seq |-> sequence[clerk[c].sender] + 1]]
    /\ UNCHANGED <<remittances, onchain, sequence, profile, alerts, filed, screenings>>

createRemittance(c) ==
    LET id == Cardinality(DOMAIN remittances) + 1
        new == [sender |-> clerk[c].sender, amount |-> clerk[c].amount, seq |-> clerk[c].seq,
                status |-> "pending", hash |-> FALSE]
    IN  /\ clerk[c].at = "insert" /\ id <= MAX_REMITTANCES
        /\ remittances' = [r \in 1..id |-> IF r = id THEN new ELSE remittances[r]]
        /\ onchain' = [r \in 1..id |-> IF r = id THEN "unsent" ELSE onchain[r]]
        /\ clerk' = [clerk EXCEPT ![c] = Free]
        /\ UNCHANGED <<sequence, profile, alerts, filed, screenings>>

(* The signed envelope is the payment the row describes.  A wallet may have   *)
(* built it anew, on the sequence number of the day.                          *)
validateSignedXdr(r, signed) ==
    signed.sender = remittances[r].sender /\ signed.amount = remittances[r].amount

(* The reads and checks of submitRemittanceTransaction. *)
submitRemittanceTransaction(c, r, user, signed) ==
    /\ clerk[c] = Free
    /\ r \in DOMAIN remittances
    /\ remittances[r].sender = user
    /\ remittances[r].status = "pending"
    /\ validateSignedXdr(r, signed)
    /\ clerk' = [clerk EXCEPT ![c] = [at |-> "claim", id |-> r, signed |-> signed]]
    /\ UNCHANGED <<remittances, onchain, sequence, profile, alerts, filed, screenings>>

(* UPDATE ... WHERE status = ANY(expected): the row is written only from one  *)
(* of the expected states, and a hash is never cleared.                       *)
updateRemittanceStatus(r, status, hash, expected) ==
    IF remittances[r].status \in expected
    THEN remittances' = [remittances EXCEPT ![r] = [@ EXCEPT !.status = status, !.hash = hash \/ @]]
    ELSE UNCHANGED remittances

(* A claim that takes the row from any request that has it already. *)
claimable_any == {"pending", "processing"}

claimable == {"pending"}

claim(c) ==
    LET r == clerk[c].id
        won == remittances[r].status \in claimable
    IN  /\ clerk[c].at = "claim"
        /\ updateRemittanceStatus(r, "processing", FALSE, claimable)
        /\ clerk' = [clerk EXCEPT ![c] = IF won THEN [@ EXCEPT !.at = "send"] ELSE Free]
        /\ UNCHANGED <<onchain, sequence, profile, alerts, filed, screenings>>

(* What the network says of a payment that reaches it: one whose sequence     *)
(* number is used is an error, one that is queued already a duplicate.        *)
accepted(r, signed) ==
    onchain[r] \in {"unsent", "queued"} /\ signed.seq = sequence[signed.sender] + 1

send(c) ==
    LET r == clerk[c].id
        signed == clerk[c].signed
    IN  /\ clerk[c].at = "send"
        /\ \/ /\ accepted(r, signed)
              /\ onchain' = [onchain EXCEPT ![r] = "queued"]
              /\ \E at \in {"poll", "fail"} : clerk' = [clerk EXCEPT ![c].at = at]
           \/ /\ clerk' = [clerk EXCEPT ![c].at = "fail"]
              /\ UNCHANGED onchain
        /\ UNCHANGED <<remittances, sequence, profile, alerts, filed, screenings>>

polled(r) ==
    CASE onchain[r] = "applied" -> "complete"
      [] onchain[r] = "queued"  -> "unconfirmed"
      [] OTHER                  -> "fail"

poll_outcome(r) == polled(r)

(* An unconfirmed payment may still land: the row stays processing.  The RPC  *)
(* server may also fail to answer.                                            *)
poll_payment(c) ==
    /\ clerk[c].at = "poll"
    /\ \/ /\ poll_outcome(clerk[c].id) \in {"complete", "fail"}
          /\ clerk' = [clerk EXCEPT ![c].at = poll_outcome(clerk[c].id)]
       \/ /\ poll_outcome(clerk[c].id) = "unconfirmed"
          /\ clerk' = [clerk EXCEPT ![c] = Free]
       \/ clerk' = [clerk EXCEPT ![c].at = "fail"]
    /\ UNCHANGED <<remittances, onchain, sequence, profile, alerts, filed, screenings>>

mark_failed(c) ==
    /\ clerk[c].at = "fail"
    /\ updateRemittanceStatus(clerk[c].id, "failed", FALSE, {"processing"})
    /\ clerk' = [clerk EXCEPT ![c] = Free]
    /\ UNCHANGED <<onchain, sequence, profile, alerts, filed, screenings>>

mark_completed(c) ==
    /\ clerk[c].at = "complete"
    /\ updateRemittanceStatus(clerk[c].id, "completed", TRUE, {"processing"})
    /\ clerk' = [clerk EXCEPT ![c] = Free]
    /\ UNCHANGED <<onchain, sequence, profile, alerts, filed, screenings>>

clerk_dies(c) ==
    /\ clerk[c] # Free
    /\ clerk' = [clerk EXCEPT ![c] = Free]
    /\ UNCHANGED <<remittances, onchain, sequence, profile, alerts, filed, screenings>>

(* The ledger applies a queued payment, which uses up the sequence number of  *)
(* every other that is queued for the sender, or drops it.                    *)
payment_closes(r) ==
    LET s == remittances[r].sender
        rivals == {x \in DOMAIN remittances : remittances[x].sender = s /\ onchain[x] = "queued"} \ {r}
    IN  /\ r \in DOMAIN remittances /\ onchain[r] = "queued"
        /\ \/ /\ onchain' = [x \in DOMAIN onchain |->
                               IF x = r THEN "applied" ELSE IF x \in rivals THEN "dropped" ELSE onchain[x]]
              /\ sequence' = [sequence EXCEPT ![s] = @ + 1]
           \/ onchain' = [onchain EXCEPT ![r] = "dropped"] /\ UNCHANGED sequence
        /\ UNCHANGED <<remittances, profile, alerts, filed, clerk, screenings>>

Signed == [sender : Remitters, amount : Sums, seq : 1..MAX_REMITTANCES + 1]

RemitNext ==
    \/ \E s \in Remitters, hits \in {{}, {"pep"}, {"confirmed_sanction"}}, high_risk \in BOOLEAN :
           screenApplicant(s, hits, high_risk)
    \/ \E c \in Clerks, s \in Remitters, amount \in Sums : monitorTransaction(c, s, amount)
    \/ \E c \in Clerks, r \in 1..MAX_REMITTANCES, user \in Remitters, signed \in Signed :
           submitRemittanceTransaction(c, r, user, signed)
    \/ \E c \in Clerks : \/ build_payment(c) \/ createRemittance(c) \/ claim(c) \/ send(c)
                         \/ poll_payment(c) \/ mark_failed(c) \/ mark_completed(c) \/ clerk_dies(c)
    \/ \E r \in 1..MAX_REMITTANCES : payment_closes(r)

RemitSpec == RemitInit /\ [][RemitNext]_remit_vars

-----------------------------------------------------------------------------
submitting(c, r) == clerk[c].at \in {"send", "poll", "fail", "complete"} /\ clerk[c].id = r

(* "A concurrent submission loses here with a 409": of the requests that      *)
(* submit one remittance, one at most has it, and it has it while the row     *)
(* says processing.                                                           *)
ClaimedOnce ==
    \A r \in DOMAIN remittances :
        LET holders == {c \in Clerks : submitting(c, r)}
        IN  Cardinality(holders) <= 1 /\ (holders # {} => remittances[r].status = "processing")

(* A remittance that is shown as completed was paid, and its row has the hash *)
(* of the payment.                                                            *)
CompletedIsPaid ==
    \A r \in DOMAIN remittances :
        remittances[r].status = "completed" => onchain[r] = "applied" /\ remittances[r].hash

(* Both, for a row through all its requests. *)
RemittancesSettle == ClaimedOnce /\ CompletedIsPaid
=============================================================================
