---------------------------- MODULE EventIndexer ----------------------------
(* The event indexer (backend/src/services/eventIndexer.ts with                *)
(* indexerManager.ts, and the operator calls of indexerController.ts).         *)
(*                                                                             *)
(* Several workers run the same chunk code against one database: the polling   *)
(* loop of every backend instance, and "ops", a reindex or a quarantine replay *)
(* an operator asks for.  Every await is a step, so the chain may grow or be   *)
(* reorganised, other workers may run, and the process may die in between.     *)
EXTENDS Integers, Sequences, FiniteSets, SequencesExt, ScoresService, TLC

CONSTANTS Pollers,         \* the backend instances that poll
          Event,           \* Event[id]: what the chain says of the event with that id
          Blocks,          \* Blocks[l]: the blocks ledger l can hold, sequences of ids
          BATCH_SIZE,      \* INDEXER_BATCH_SIZE, also the page size of getEvents
          FINALITY_DEPTH,  \* INDEXER_FINALITY_DEPTH
          FAULTS,          \* bound: failed or killed steps
          REORGS,          \* bound: reorganisations below the finality depth
          REPLAYS,         \* bound: operator calls
          TROUBLE,         \* bound: the three of them together
          Ranges,          \* bound: the ranges an operator asks to reindex
          START,           \* chain height, cursor and checkpoint rows at start
          Scored           \* the borrowers that have a row in scores at start

ASSUME IndexerAssumption ==
    /\ BATCH_SIZE \in Nat \ {0} /\ FINALITY_DEPTH \in Nat
    /\ FAULTS \in Nat /\ REORGS \in Nat /\ REPLAYS \in Nat /\ TROUBLE \in Nat
\* Ledger sequences are positive; the tables hold ranges of them.
ASSUME ChainAssumption ==
    /\ \A id \in DOMAIN Event : Event[id].ledger \in Nat \ {0}
    /\ Blocks \in Seq(SUBSET Seq(DOMAIN Event))
    /\ \A s \in START : s.cursor \in Nat /\ \A c \in s.rows :
          DOMAIN c = {"start", "end", "status", "digest"} /\ c.start \in Int /\ c.end \in Int
    /\ \A range \in Ranges : range[1] \in Int /\ range[2] \in Int

VARIABLES
    chain,               \* the blocks of ledgers 1..Len(chain)
    last_finalized,      \* indexer_state.last_finalized_ledger
    ledger_checkpoints,  \* rows [start, end, status, digest]
    contract_events,     \* the ids of its rows, see row
    quarantine_events,   \* the ids of events that failed to parse
    lost,                \* the ids of events whose quarantine insert failed too: only logged
    scores,              \* the scores table
    paused,              \* the pause state the events set
    announced,           \* rows given to webhooks, streams and notifications
    decoder_fixed,       \* a release that reads what the old decoder could not
    running,             \* EventIndexer.running of each instance
    job,                 \* what each worker is doing
    faults, reorgs, replays

store == <<last_finalized, ledger_checkpoints, contract_events, quarantine_events, lost, scores,
           paused, announced>>
budget == <<faults, reorgs, replays>>
vars == <<chain, store, decoder_fixed, running, job, budget>>

trouble == faults + reorgs + replays < TROUBLE
MAX_LEDGER == Len(Blocks)
Workers == Pollers \cup {"ops"}
Idle == [pc |-> "idle", goal |-> "none", tip |-> 0, cursor |-> 0, todo |-> {}, from |-> 0, to |-> 0,
         got |-> <<>>, fresh |-> <<>>]
finalized(tip) == Max({tip - FINALITY_DEPTH, 0})
Ledger(id) == Event[id].ledger

-----------------------------------------------------------------------------
(* Decoding (parseEvent and its helpers), as a table of layouts.  A raw event  *)
(* is a record: the symbol in topic 0, the kinds of the further topics and the *)
(* kind of the value.  Kinds are "addr", "num", "pair" (of numbers), "triple", *)
(* "numaddr" (a number and an address), "optaddr" (an optional and a plain     *)
(* address), "struct", "text" and "unit".                                      *)

EVENT_TYPE_ALIASES ==
    ("Mint" :> "NFTMinted") @@ ("AdmRemint" :> "NFTMinted") @@ ("ScoreUpd" :> "ScoreUpdated")
    @@ ("Seized" :> "NFTSeized") @@ ("NftBurned" :> "NFTBurned") @@ ("MinScore" :> "MinScoreUpdated")
    @@ ("GovProp" :> "ProposalCreated") @@ ("GovAppr" :> "ProposalApproved")
    @@ ("GovFin" :> "ProposalFinalized") @@ ("ColDep" :> "CollateralDeposited")
    @@ ("ColRel" :> "CollateralReleased")
    @@ [s \in {"GovCncl", "GovEmerg", "GovExp"} |-> "ProposalCancelled"]

AdminNamedConfig == {"MinScoreUpdated", "LateFeeRateUpdated", "GracePeriodUpdated",
    "DefaultWindowUpdated", "MaxLoanAmountUpdated", "MinRepaymentUpdated",
    "MaxLoansPerBorrower", "MinRateBpsUpdated", "MaxRateBpsUpdated"}

\* Where a field comes from: a topic number, "value", a place in the value's
\* tuple, or nowhere.  `needs` is the number of topics without which the event
\* is skipped.  "must" amounts and the two-number value of an approval throw
\* when the value is of another kind; the tuple readers give up quietly.
Row(needs, address, amount) == [needs |-> needs, address |-> address, amount |-> amount]

LoanLayouts ==
    ("LoanRequested" :> Row(2, "2", "must")) @@ ("LoanApproved" :> Row(2, "2", "terms"))
    @@ ("LoanRepaid" :> Row(2, "1", "must")) @@ ("LoanDefaulted" :> Row(1, "value", "no"))
    @@ ("CollateralLiquidated" :> Row(1, "no", "must"))
    @@ [t \in {"Deposit", "Withdraw", "EmergencyWithdraw"} |-> Row(1, "1", "tuple")]
    @@ [t \in {"NFTMinted", "ScoreUpdated"} |-> Row(1, "1", "must")]
    @@ [t \in {"NFTSeized", "NFTBurned", "ProposalCreated", "ProposalApproved",
               "ProposalFinalized", "ProposalCancelled"} |-> Row(1, "1", "no")]
    @@ ("Transfer" :> Row(0, "2?", "no")) @@ ("LoanRefinanced" :> Row(2, "2", "tuple"))
    @@ ("LoanExtended" :> Row(2, "2", "tuple")) @@ ("LoanCancelled" :> Row(1, "1", "no"))
    @@ ("LoanRejected" :> Row(1, "no", "no")) @@ ("LateFeeCharged" :> Row(1, "no", "must"))
    @@ ("CollateralReturned" :> Row(2, "1", "must"))

ConfigLayouts ==
    ("YieldDistributed" :> Row(1, "1", "must")) @@ ("DepositCapUpdated" :> Row(1, "1", "tuple"))
    @@ [t \in AdminNamedConfig |-> Row(0, "1?", "tuple")]
    @@ [t \in {"WithdrawalCooldownUpdated", "InterestRateUpdated", "DefaultTermUpdated",
               "TermLimitsUpdated"} |-> Row(0, "no", "tuple")]
    @@ ("RateOracleUpdated" :> Row(0, "second", "no"))
    @@ [t \in {"PoolPaused", "PoolUnpaused"} |-> Row(0, "no", "no")]
    @@ ("CollateralDeposited" :> Row(0, "1?", "must")) @@ ("CollateralReleased" :> Row(0, "1?", "no"))
    @@ ("ScoreDecr" :> Row(1, "1", "tuple")) @@ ("LoanApprv" :> Row(0, "second", "no"))
    @@ ("LoanLiquidated" :> Row(2, "2", "tuple"))

\* Every type a subscriber may ask for; the ones without a layout of their own
\* are stored with no decoded field.
SUPPORTED_WEBHOOK_EVENT_TYPES ==
    DOMAIN LoanLayouts \cup DOMAIN ConfigLayouts
    \cup (DOMAIN EVENT_TYPE_ALIASES \ {"MinScore"})
    \cup {"HashUpd", "MntAuth", "MntRev", "Paused", "Unpaused"}

Layouts == LoanLayouts @@ ConfigLayouts
           @@ [t \in SUPPORTED_WEBHOOK_EVENT_TYPES |-> Row(0, "no", "no")]

decodeEventType(sym) ==
    LET type == IF sym \in DOMAIN EVENT_TYPE_ALIASES THEN EVENT_TYPE_ALIASES[sym] ELSE sym
    IN  IF type \in SUPPORTED_WEBHOOK_EVENT_TYPES THEN type ELSE "null"

\* decodeAddress throws on anything but an address; the tuple readers do not.
address_topic(layout) == CASE layout.address \in {"1", "1?"} -> 1
                           [] layout.address \in {"2", "2?"} -> 2
                           [] OTHER -> 0

address_throws(layout, raw) ==
    \/ layout.address = "value" /\ raw.value # "addr"
    \/ address_topic(layout) \in 1..Len(raw.topics) /\ raw.topics[address_topic(layout)] # "addr"

amount_throws(layout, raw) ==
    \/ layout.amount = "must" /\ raw.value # "num"
    \/ layout.amount = "terms" /\ raw.value \notin {"pair", "triple"}

has_address(layout, raw) ==
    \/ layout.address = "value"
    \/ address_topic(layout) \in 1..Len(raw.topics)
    \/ layout.address = "second" /\ raw.value \in {"numaddr", "optaddr"}

\* parseEvent: "skip" is null, "throw" sends the event to quarantine.
parseEvent(raw) ==
    LET type == decodeEventType(raw.sym)
        layout == Layouts[type]
    IN  IF type = "null" THEN "skip"
        ELSE IF Len(raw.topics) < layout.needs THEN "skip"
        ELSE IF address_throws(layout, raw) \/ amount_throws(layout, raw) THEN "throw"
        ELSE "event"

parsed_address(raw) == has_address(Layouts[decodeEventType(raw.sym)], raw)

\* triggerNotification tells the event's own address, and only of these types.
NotifiedTypes == {"LoanApproved", "LoanRepaid", "LoanDefaulted", "CollateralLiquidated",
                  "LoanLiquidated"}

notified(type, raw) == parsed_address(raw) /\ type \in NotifiedTypes

-----------------------------------------------------------------------------
\* What the contracts publish: symbol, topics after it, value.
Raw(sym, topics, value) == [sym |-> sym, topics |-> topics, value |-> value]

LoanManagerEvents ==
    {Raw("LoanRequested", <<"num", "addr">>, "num"), Raw("LoanApproved", <<"num", "addr">>, "pair"),
     Raw("LoanRefinanced", <<"num", "addr">>, "pair"), Raw("LoanExtended", <<"num", "addr">>, "triple"),
     Raw("LoanRepaid", <<"addr", "num">>, "num"), Raw("LoanCancelled", <<"addr">>, "num"),
     Raw("LoanRejected", <<"num">>, "text"), Raw("LateFeeCharged", <<"num">>, "num"),
     Raw("Paused", <<>>, "num"), Raw("Unpaused", <<>>, "num"),
     Raw("LoanDefaulted", <<"num">>, "addr"), Raw("RateOracleUpdated", <<>>, "optaddr"),
     Raw("CollateralReturned", <<"addr", "num">>, "num"),
     Raw("CollateralDeposited", <<"addr", "num">>, "num"),
     Raw("CollateralReleased", <<"addr", "num">>, "unit"),
     Raw("LoanApprv", <<"addr">>, "numaddr"), Raw("CollateralLiquidated", <<"num">>, "num"),
     Raw("LoanLiquidated", <<"num", "addr", "addr">>, "triple")}
    \cup {Raw(t, <<>>, "pair") : t \in {"InterestRateUpdated", "DefaultTermUpdated", "TermLimitsUpdated"}}
    \cup {Raw(t, <<"addr">>, "pair") : t \in AdminNamedConfig}

PoolEvents ==
    {Raw("Deposit", <<"addr", "addr">>, "pair"), Raw("Withdraw", <<"addr", "addr">>, "pair"),
     Raw("YieldDistributed", <<"addr">>, "num"), Raw("DepositCapUpdated", <<"addr">>, "pair"),
     Raw("PoolPaused", <<>>, "unit"), Raw("PoolUnpaused", <<>>, "unit"),
     Raw("WithdrawalCooldownUpdated", <<>>, "pair")}

NftEvents ==
    {Raw("Mint", <<"addr">>, "pair"), Raw("AdmRemint", <<"addr">>, "pair"),
     Raw("ScoreUpd", <<"addr">>, "num"), Raw("ScoreDecr", <<"addr">>, "triple"),
     Raw("HashUpd", <<"addr">>, "text"), Raw("Seized", <<"addr">>, "unit"),
     Raw("NftBurned", <<"addr">>, "unit"), Raw("MntAuth", <<"addr">>, "unit"),
     Raw("MntRev", <<"addr">>, "unit"), Raw("Transfer", <<"addr", "addr">>, "unit")}

GovernanceEvents ==
    {Raw(s, <<"addr">>, "struct") : s \in {"GovProp", "GovAppr", "GovFin", "GovCncl", "GovEmerg", "GovExp"}}

Published == LoanManagerEvents \cup PoolEvents \cup NftEvents \cup GovernanceEvents

-----------------------------------------------------------------------------
(* Reading the chain.                                                          *)

\* One getEvents request of fetchEventsInRange: the first carries the range, the
\* later ones only the cursor, the last event read.
page(from, to, cursor) ==
    LET asked == SelectSeq(FlattenSeq(chain), LAMBDA e :
                     IF cursor = 0 THEN Ledger(e) \in from..to ELSE e > cursor)
    IN  SubSeq(asked, 1, Min({BATCH_SIZE, Len(asked)}))

\* Whether the loop asks for another page.
more_pages_never(events, got) == FALSE

more_pages(events, got) == events # <<>> /\ events = got

\* digestEvents hashes the sorted events: two ranges have the same digest when
\* they hold the same events.
digestEvents(events) == <<events>>
Unknown == <<>>

-----------------------------------------------------------------------------
(* Writing the tables.                                                         *)

\* The row of each event, and what parseEvent makes of it.
row == [id \in DOMAIN Event |->
           LET raw == Event[id]
           IN  [ledger |-> raw.ledger, type |-> decodeEventType(raw.sym),
                who |-> IF parsed_address(raw) THEN raw.who ELSE "none", loan |-> raw.loan]]

outcome == [id \in DOMAIN Event |-> parseEvent(Event[id])]

\* The unique indexes of contract_events, any of which turns an insert into
\* ON CONFLICT DO NOTHING.
conflicts(rows, id) ==
    LET e == row[id] IN
    \/ id \in rows
    \/ /\ e.loan # 0
       /\ \E r \in {row[i] : i \in rows} :
             r.loan = e.loan /\ r.type = e.type
                /\ (r.ledger = e.ledger \/ e.type \in {"LoanApproved", "LoanDefaulted"})

\* The release under test decides whether an event of an unknown shape throws.
parses(id) == IF decoder_fixed /\ outcome[id] = "throw" THEN "event" ELSE outcome[id]

\* The ids an ordered insert adds.
inserted(rows, ids) ==
    LET after == FoldLeft(LAMBDA acc, e : IF conflicts(acc, e) THEN acc ELSE acc \cup {e}, rows, ids)
    IN  SelectSeq(ids, LAMBDA e : e \in after \ rows)

score_delta(id) ==
    LET e == row[id] IN
    CASE e.who = "none" -> 0
      [] e.type = "LoanRepaid" -> 15
      [] e.type \in {"LoanDefaulted", "CollateralLiquidated"} -> -50
      [] OTHER -> 0

\* What the events in a set of ids say of a borrower, the deltas added up.
earned(u, ids) ==
    SumFunctionOnSet([e \in ids |-> score_delta(e)], {e \in ids : row[e].who = u})

\* One entry per borrower of a scored event.
score_updates(ids, sign) ==
    [u \in {row[e].who : e \in {x \in ids : score_delta(x) # 0}} |-> sign * earned(u, ids)]

\* rollbackFromLedger's own sum: what the orphaned rows had added is taken off.
score_rollbacks_added(events) == score_updates(events, 1)

score_rollbacks(events) == score_updates(events, -1)

\* getLastIndexedLedger and the row updateLastIndexedLedger would insert.
Init ==
    /\ \E n \in 0..MAX_LEDGER : chain \in {c \in [1..n -> UNION Range(Blocks)] :
                                              \A l \in 1..n : c[l] \in Blocks[l]}
    /\ \E s \in START :
          /\ Len(chain) = s.height
          /\ \A c \in s.rows : c.digest \in {Unknown, digestEvents(FlattenSeq(SubSeq(chain, c.start, c.end)))}
          /\ last_finalized = s.cursor
          /\ ledger_checkpoints = s.rows
    /\ LET indexed == {e \in DOMAIN Event : \E c \in ledger_checkpoints :
                          /\ c.status = "verified" /\ Ledger(e) \in c.start..c.end
                          /\ e \in Range(chain[Ledger(e)])}
       IN  /\ contract_events = {e \in indexed : outcome[e] = "event"}
           /\ quarantine_events = {e \in indexed : outcome[e] = "throw"}
    /\ lost = {}
    /\ scores = updateUserScoresBulk([u \in Scored |-> 500], score_updates(contract_events, 1))
    /\ paused = FALSE /\ announced = contract_events
    /\ decoder_fixed = FALSE /\ running = [p \in Pollers |-> FALSE]
    /\ job = [w \in Workers |-> Idle]
    /\ faults = 0 /\ reorgs = 0 /\ replays = 0

-----------------------------------------------------------------------------
(* The polling loop.                                                           *)

at(w, pc) == job[w].pc = pc
set(w, j) == job' = [job EXCEPT ![w] = j]
goto(w, pc) == set(w, [job[w] EXCEPT !.pc = pc])

start(p) ==
    /\ ~running[p] /\ running' = [running EXCEPT ![p] = TRUE]
    /\ UNCHANGED <<chain, store, decoder_fixed, job, budget>>

\* stop() clears the timer and waits for the poll in progress.
stop(p) ==
    /\ running[p] /\ at(p, "idle") /\ running' = [running EXCEPT ![p] = FALSE]
    /\ faults < FAULTS /\ trouble /\ faults' = faults + 1
    /\ UNCHANGED <<chain, store, decoder_fixed, job, reorgs, replays>>

\* pollOnce up to the reorg check.  getLatestLedgerSequence gives 0 when the RPC
\* fails or the chain is empty, and the poll ends there.
poll_begin(p) ==
    /\ running[p] /\ at(p, "idle") /\ Len(chain) > 0
    /\ set(p, [Idle EXCEPT !.pc = "detect", !.tip = Len(chain)])
    /\ UNCHANGED <<chain, store, decoder_fixed, running, budget>>

verified == {c \in ledger_checkpoints : c.status = "verified"}
suspects == {c \in ledger_checkpoints : c.status = "suspect"}
Checkpoint(from, to, status, digest) == [start |-> from, end |-> to, status |-> status, digest |-> digest]

\* getLatestVerifiedCheckpoint: ORDER BY range_end DESC LIMIT 1 may pick any of
\* several rows that end at the same ledger.
getLatestVerifiedCheckpoint == {c \in verified : \A d \in verified : d.end <= c.end}

\* detectAndRollbackReorg re-reads the range of that checkpoint,
detect_begin(p) ==
    /\ at(p, "detect")
    /\ \/ verified = {} /\ goto(p, "cursor")
       \/ \E c \in getLatestVerifiedCheckpoint :
             set(p, [job[p] EXCEPT !.pc = "fetch", !.goal = "detect", !.todo = {c}, !.from = c.start, !.to = c.end])
    /\ UNCHANGED <<chain, store, decoder_fixed, running, budget>>

\* and compares digests; a row without one is completed.
detectAndRollbackReorg(p) ==
    /\ at(p, "done") /\ job[p].goal = "detect"
    /\ \E c \in job[p].todo :
       LET current == digestEvents(job[p].got)
           rest == [job[p] EXCEPT !.got = <<>>, !.pc = "cursor"]
       IN  \/ /\ c.digest = Unknown
              /\ ledger_checkpoints' = (ledger_checkpoints \ {c}) \cup {[c EXCEPT !.digest = current]}
              /\ set(p, rest)
           \/ /\ c.digest = current
              /\ set(p, rest) /\ UNCHANGED ledger_checkpoints
           \/ /\ c.digest \notin {Unknown, current}
              /\ set(p, [rest EXCEPT !.pc = "rollback"]) /\ UNCHANGED ledger_checkpoints
    /\ UNCHANGED <<chain, last_finalized, contract_events, quarantine_events, lost, scores, paused,
                   announced, decoder_fixed, running, budget>>

\* rollbackFromLedger, one transaction: the orphaned rows, what they did to the
\* scores, the checkpoints and the cursor.  Quarantined events stay.
rolled_back_cursor_kept(ledger) == last_finalized

rolled_back_cursor(ledger) == Min({last_finalized, Max({ledger - 1, 0})})

checkpoints_below(ledger) == {c \in ledger_checkpoints : c.end < ledger}

rollbackFromLedger(p) ==
    /\ at(p, "rollback")
    /\ LET ledger == job[p].from
           orphaned == {e \in contract_events : Ledger(e) >= ledger}
       IN  /\ contract_events' = contract_events \ orphaned
           /\ scores' = updateUserScoresBulk(scores, score_rollbacks(orphaned))
           /\ announced' = announced \ orphaned
           /\ ledger_checkpoints' = checkpoints_below(ledger)
           /\ last_finalized' = rolled_back_cursor(ledger)
    /\ goto(p, "cursor")
    /\ UNCHANGED <<chain, quarantine_events, lost, paused, decoder_fixed, running, budget>>

\* checkpointAfterReorg and getSuspectRanges.
read_cursor(p) ==
    /\ at(p, "cursor")
    /\ set(p, [job[p] EXCEPT !.pc = "next", !.cursor = last_finalized, !.todo = suspects])
    /\ UNCHANGED <<chain, store, decoder_fixed, running, budget>>

chunk_end_exclusive(from, tip) == Min({from + BATCH_SIZE, tip}) - 1

chunk_end(from, tip) == Min({from + BATCH_SIZE - 1, tip})

\* The suspect range whose turn it is: ORDER BY range_start.
oldest(todo) == {gap \in todo : \A other \in todo : gap.start <= other.start}

\* backfillMissingRanges takes the suspect ranges one by one, as far as they are
\* final; then the poll goes on with the next chunk, if there is one.
next_range(p) ==
    /\ at(p, "next")
    /\ LET tip == finalized(job[p].tip)
           from == job[p].cursor + 1
       IN  \/ \E gap \in oldest(job[p].todo) :
              /\ gap.start <= tip
              /\ set(p, [job[p] EXCEPT !.pc = "fetch", !.goal = "backfill", !.got = <<>>, !.from = gap.start,
                                       !.to = Min({gap.end, tip})])
           \/ \E gap \in oldest(job[p].todo) :
              /\ gap.start > tip
              /\ set(p, [job[p] EXCEPT !.todo = @ \ {gap}])
           \/ /\ job[p].todo = {} /\ tip <= job[p].cursor
              /\ set(p, Idle)
           \/ /\ job[p].todo = {} /\ tip > job[p].cursor
              /\ set(p, [job[p] EXCEPT !.pc = "fetch", !.goal = "advance", !.got = <<>>, !.from = from,
                                       !.to = chunk_end(from, tip)])
    /\ UNCHANGED <<chain, store, decoder_fixed, running, budget>>

-----------------------------------------------------------------------------
(* processChunk, for any worker.                                               *)

fetchEventsInRange(w) ==
    /\ at(w, "fetch")
    /\ LET j == job[w]
           all == page(j.from, j.to, IF j.got = <<>> THEN 0 ELSE Last(j.got))
           events == SelectSeq(all, LAMBDA e : Ledger(e) \in j.from..j.to)
           got == j.got \o events
       IN  set(w, [j EXCEPT !.got = got, !.pc = IF more_pages(events, all) THEN "fetch"
                                                ELSE IF got = <<>> \/ j.goal = "detect" THEN "done" ELSE "store"])
    /\ UNCHANGED <<chain, store, decoder_fixed, running, budget>>

\* storeEvents: malformed events are quarantined one by one, outside the
\* transaction, and a failed quarantine insert is only logged; the parsed ones
\* and the scores they move are committed together.
quarantineEvent(bad) ==
    \/ quarantine_events' = quarantine_events \cup bad /\ UNCHANGED <<lost, faults>>
    \/ /\ bad # {} /\ faults < FAULTS /\ trouble /\ faults' = faults + 1
       /\ lost' = lost \cup bad /\ UNCHANGED quarantine_events

to_announce(parsed, fresh) == fresh

storeEvents(w) ==
    /\ at(w, "store")
    /\ LET parsed == SelectSeq(job[w].got, LAMBDA e : parses(e) = "event")
           fresh == inserted(contract_events, parsed)
       IN  /\ quarantineEvent({e \in Range(job[w].got) : parses(e) = "throw"})
           /\ contract_events' = contract_events \cup Range(fresh)
           /\ scores' = updateUserScoresBulk(scores, score_updates(Range(fresh), 1))
           /\ set(w, [job[w] EXCEPT !.fresh = to_announce(parsed, fresh),
                                    !.pc = IF to_announce(parsed, fresh) = <<>> THEN "done" ELSE "announce"])
    /\ UNCHANGED <<chain, last_finalized, ledger_checkpoints, paused, announced, decoder_fixed, running,
                   reorgs, replays>>

\* After the commit: webhooks, streams, notifications and the pause state, in
\* event order.
announce(w) ==
    /\ at(w, "announce")
    /\ announced' = announced \cup Range(job[w].fresh)
    /\ paused' = FoldLeft(LAMBDA p, e : IF row[e].type = "PoolPaused" THEN TRUE
                                        ELSE IF row[e].type = "PoolUnpaused" THEN FALSE ELSE p,
                          paused, job[w].fresh)
    /\ goto(w, "done")
    /\ UNCHANGED <<chain, last_finalized, ledger_checkpoints, contract_events, quarantine_events, lost,
                   scores, decoder_fixed, running, budget>>

-----------------------------------------------------------------------------
(* What follows a chunk.                                                       *)

tables_but_checkpoints == <<last_finalized, contract_events, quarantine_events, lost, scores, paused, announced>>

\* A backfilled gap becomes verified; one that is only partly final is split, by
\* two statements.
backfilled(p) ==
    /\ at(p, "done") /\ job[p].goal = "backfill"
    /\ \E gap \in oldest(job[p].todo) :
       LET rest == [job[p] EXCEPT !.pc = "next", !.todo = @ \ {gap}]
       IN  \/ /\ job[p].to = gap.end
              /\ ledger_checkpoints' = (ledger_checkpoints \ {gap}) \cup
                    (IF gap \in ledger_checkpoints
                     THEN {[gap EXCEPT !.status = "verified", !.digest = digestEvents(job[p].got)]} ELSE {})
              /\ set(p, rest)
           \/ /\ job[p].to < gap.end
              /\ ledger_checkpoints' = (ledger_checkpoints \ {gap}) \cup
                    (IF gap \in ledger_checkpoints THEN {[gap EXCEPT !.start = job[p].to + 1]} ELSE {})
              /\ goto(p, "split")
    /\ UNCHANGED <<chain, tables_but_checkpoints, decoder_fixed, running, budget>>

backfilled_part(p) ==
    /\ at(p, "split")
    /\ ledger_checkpoints' = ledger_checkpoints \cup
          {Checkpoint(job[p].from, job[p].to, "verified", digestEvents(job[p].got))}
    /\ \E gap \in oldest(job[p].todo) : set(p, [job[p] EXCEPT !.pc = "next", !.todo = @ \ {gap}])
    /\ UNCHANGED <<chain, tables_but_checkpoints, decoder_fixed, running, budget>>

\* recordCheckpoint: the last recorded range is read, then a gap below this one
\* is recorded as suspect, then the range itself.
record_previous(p) ==
    /\ at(p, "done") /\ job[p].goal = "advance"
    /\ \E end \in IF ledger_checkpoints = {} THEN {job[p].from - 1}
                 ELSE {c.end : c \in ledger_checkpoints} :
          /\ \A c \in ledger_checkpoints : c.end <= end
          /\ set(p, [job[p] EXCEPT !.pc = IF job[p].from > end + 1 THEN "gap" ELSE "range", !.cursor = end])
    /\ UNCHANGED <<chain, store, decoder_fixed, running, budget>>

record_gap(p) ==
    /\ at(p, "gap")
    /\ ledger_checkpoints' = ledger_checkpoints \cup
          {Checkpoint(job[p].cursor + 1, job[p].from - 1, "suspect", Unknown)}
    /\ goto(p, "range")
    /\ UNCHANGED <<chain, tables_but_checkpoints, decoder_fixed, running, budget>>

recordCheckpoint(p) ==
    /\ at(p, "range")
    /\ ledger_checkpoints' = ledger_checkpoints \cup
          {Checkpoint(job[p].from, job[p].to, "verified", digestEvents(job[p].got))}
    /\ goto(p, "update")
    /\ UNCHANGED <<chain, tables_but_checkpoints, decoder_fixed, running, budget>>

\* updateLastIndexedLedger: GREATEST(last_finalized_ledger, ledger).
updateLastIndexedLedger(p) ==
    /\ at(p, "update")
    /\ last_finalized' = Max({last_finalized, job[p].to})
    /\ set(p, Idle)
    /\ UNCHANGED <<chain, ledger_checkpoints, contract_events, quarantine_events, lost, scores, paused,
                   announced, decoder_fixed, running, budget>>

-----------------------------------------------------------------------------
(* The operator's calls, one at a time.                                        *)

\* reindexLedgerRange: a range that must be well formed, in chunks.
reindexLedgerRange(from, to) ==
    /\ at("ops", "idle") /\ replays < REPLAYS /\ trouble /\ replays' = replays + 1
    /\ set("ops", [Idle EXCEPT !.pc = "fetch", !.goal = "reindex", !.from = from, !.cursor = to,
                               !.to = chunk_end(from, to)])
    /\ UNCHANGED <<chain, store, decoder_fixed, running, faults, reorgs>>

reindex_next ==
    /\ at("ops", "done") /\ job["ops"].goal = "reindex"
    /\ LET from == job["ops"].to + 1 IN
       set("ops", IF from > job["ops"].cursor THEN Idle
                  ELSE [job["ops"] EXCEPT !.pc = "fetch", !.got = <<>>, !.from = from,
                                          !.to = chunk_end(from, job["ops"].cursor)])
    /\ UNCHANGED <<chain, store, decoder_fixed, running, budget>>

\* reprocessQuarantinedEvents takes up one row: it is replayed only when the
\* present decoder can read it, and deleted after its events are stored.
reprocessQuarantinedEvents(e) ==
    /\ at("ops", "idle") /\ replays < REPLAYS /\ trouble /\ replays' = replays + 1
    /\ parses(e) = "event"
    /\ set("ops", [Idle EXCEPT !.pc = "store", !.goal = "replay", !.got = <<e>>])
    /\ UNCHANGED <<chain, store, decoder_fixed, running, faults, reorgs>>

replayed ==
    /\ at("ops", "done") /\ job["ops"].goal = "replay"
    /\ quarantine_events' = quarantine_events \ Range(job["ops"].got)
    /\ set("ops", Idle)
    /\ UNCHANGED <<chain, last_finalized, ledger_checkpoints, contract_events, lost, scores, paused, announced,
                   decoder_fixed, running, budget>>

-----------------------------------------------------------------------------
(* The world: the network, the database, the process.                          *)

\* A step throws (RPC, database), or the process is killed and comes back: the
\* worker starts over with nothing but the tables.
abandoned(w) ==
    /\ ~at(w, "idle") /\ faults < FAULTS /\ trouble /\ faults' = faults + 1
    /\ set(w, Idle)
    /\ UNCHANGED <<chain, store, decoder_fixed, running, reorgs, replays>>

ledger_closes ==
    /\ Len(chain) < MAX_LEDGER
    /\ \E b \in Blocks[Len(chain) + 1] : chain' = Append(chain, b)
    /\ UNCHANGED <<store, decoder_fixed, running, job, budget>>

\* The network replaces the block of one ledger; a deep reorganisation is one of
\* a ledger the finality depth had declared final.
reorganised ==
    /\ \E l \in 1..Len(chain) :
          /\ \E b \in Blocks[l] \ {chain[l]} : chain' = [chain EXCEPT ![l] = b]
          /\ \/ l > finalized(Len(chain)) /\ UNCHANGED reorgs
             \/ l <= finalized(Len(chain)) /\ reorgs < REORGS /\ trouble /\ reorgs' = reorgs + 1
    /\ UNCHANGED <<store, decoder_fixed, running, job, faults, replays>>

decoder_release ==
    /\ ~decoder_fixed /\ quarantine_events # {} /\ decoder_fixed' = TRUE
    /\ UNCHANGED <<chain, store, running, job, budget>>

chunk(w) == fetchEventsInRange(w) \/ storeEvents(w) \/ announce(w)

poll(p) ==
    \/ poll_begin(p) \/ detect_begin(p) \/ detectAndRollbackReorg(p) \/ rollbackFromLedger(p) \/ read_cursor(p)
    \/ next_range(p) \/ chunk(p) \/ backfilled(p) \/ backfilled_part(p)
    \/ record_previous(p) \/ record_gap(p) \/ recordCheckpoint(p) \/ updateLastIndexedLedger(p)

Next ==
    \/ \E p \in Pollers : start(p) \/ stop(p) \/ poll(p)
    \/ chunk("ops") \/ reindex_next \/ replayed
    \/ \E range \in Ranges : reindexLedgerRange(range[1], range[2])
    \/ \E e \in quarantine_events : reprocessQuarantinedEvents(e)
    \/ \E w \in Workers : abandoned(w)
    \/ ledger_closes \/ reorganised \/ decoder_release

\* scheduleNextPoll arms the timer again whatever the poll did, and start() is
\* called when the server listens.
Fairness == \A p \in Pollers : WF_vars(start(p)) /\ WF_vars(poll(p))

Spec == Init /\ [][Next]_vars /\ Fairness

-----------------------------------------------------------------------------
(* What the tables promise.                                                    *)

\* What has become of an event the indexer has read: stored, skipped as of no
\* interest, set aside, lost with a log line, or shut out by a unique index.
accounted(e) ==
    \/ parses(e) = "skip"
    \/ e \in quarantine_events \cup lost
    \/ parses(e) = "event" /\ conflicts(contract_events, e)

\* A row from before digests were kept: the first poll takes over whatever
\* digest the range has by then.
undigested(c) == \E s \in START : \E r \in s.rows :
    r.status = "verified" /\ r.digest = Unknown /\ r.start = c.start /\ r.end = c.end

\* A verified checkpoint vouches for its range: every event whose digest it
\* records has been dealt with, whatever step failed in between.
CheckpointBacked ==
    \A c \in verified :
        c.digest # Unknown /\ (reorgs = 0 \/ ~undigested(c)) => \A e \in Range(c.digest[1]) : accounted(e)

\* The cursor never passes an event: as long as no final ledger is replaced, each
\* event of a ledger at or below last_finalized_ledger that a checkpoint verifies,
\* or that the deployment had not already behind it, has been dealt with.
NoEventPassed ==
    reorgs = 0 =>
        \A l \in 1..Min({last_finalized, Len(chain)}) :
            (\A s \in START : s.cursor < l) \/ (\E c \in verified : l \in c.start..c.end)
                => \A e \in Range(chain[l]) : accounted(e)

\* A score is as far from 500 as the events stored for the borrower say, each
\* counted once, however often a range is read again, replayed or rolled back.
ScoresCountOnce ==
    \A u \in DOMAIN scores : scores[u] - 500 \in {earned(u, contract_events), -earned(u, contract_events)}

\* The direction too: what the borrower did well raises the score, as the
\* callers' deltas and the tests of updateUserScoresBulk have it.
ScoresFollowEvents ==
    \A u \in DOMAIN scores : scores[u] = clamp(500 + earned(u, contract_events))

\* Only the worker whose insert created a row announces it: no webhook,
\* notification or stream message goes out twice for one row, even when a
\* reindex and a poll read the same ledgers.
AnnouncedOnce ==
    reorgs = 0 =>
        \A w \in {x \in Workers : at(x, "announce")} :
            /\ Range(job[w].fresh) \cap announced = {}
            /\ \A v \in {x \in Workers \ {w} : at(x, "announce")} :
                   Range(job[w].fresh) \cap Range(job[v].fresh) = {}

\* Readers of the indexed events see EventFeed: whole ranges are published, holes
\* are repaired, and a rollback cuts cursor and rows back together.
Feed == INSTANCE EventFeed WITH position <- last_finalized,
                                log <- {e \in DOMAIN Event : e \in contract_events /\ Ledger(e) <= last_finalized},
                                ledger_of <- Ledger

FeedSpec == Feed!FeedSpec

\* The indexer always catches up again with the finalized tip, and every suspect
\* range that is final is eventually backfilled.
CatchesUp ==
    []<>(/\ last_finalized >= finalized(Len(chain))
         /\ \A c \in suspects : c.start > finalized(Len(chain)))
=============================================================================
