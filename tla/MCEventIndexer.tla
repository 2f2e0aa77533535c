--------------------------- MODULE MCEventIndexer ---------------------------
(* Four ledgers: a repayment, an event the decoder cannot read next to a       *)
(* default, a second repayment, nothing.  Ledger 1 has a rival block.          *)
EXTENDS EventIndexer

event(ledger, raw, who, loan) ==
    [ledger |-> ledger, sym |-> raw.sym, topics |-> raw.topics, value |-> raw.value,
     who |-> who, loan |-> loan]

Repaid(ledger, who, loan) == event(ledger, Raw("LoanRepaid", <<"addr", "num">>, "num"), who, loan)
Defaulted(ledger, who, loan) == event(ledger, Raw("LoanDefaulted", <<"num">>, "addr"), who, loan)
Minted(ledger, who) == event(ledger, Raw("Mint", <<"addr">>, "pair"), who, 0)

MCEvent == <<Repaid(1, "ana", 1), Minted(2, "ben"), Defaulted(2, "ben", 2), Repaid(3, "ana", 1)>>
MCBlocks == <<{<<1>>, <<>>}, {<<2, 3>>}, {<<4>>}, {<<>>}>>

gap == Checkpoint(1, 2, "suspect", Unknown)
undigested_row == Checkpoint(2, 2, "verified", Unknown)
lagging_row == Checkpoint(1, 1, "verified", digestEvents(<<1>>))
MCNewStart == {[height |-> 0, cursor |-> 0, rows |-> {}]}
MCStart == MCNewStart \cup
           {[height |-> 2, cursor |-> 2, rows |-> {r}] : r \in {gap, undigested_row, lagging_row}}
MCRanges == {<<1, 2>>}

\* Of what the contracts publish the decoder cannot read the events of a mint, and
\* a liquidation of collateral, which names nobody, is notified to nobody.
ASSUME DecoderFits ==
    /\ \A raw \in Published : parseEvent(raw) = "throw" <=> raw.sym \in {"Mint", "AdmRemint"}
    /\ \A raw \in Published : decodeEventType(raw.sym) \in NotifiedTypes =>
           (notified(decodeEventType(raw.sym), raw) <=> raw.sym # "CollateralLiquidated")

\* What a checkpoint vouches for was really indexed, and no event of the final
\* chain is passed over (processChunk, recordCheckpoint, getEventsPage).
IndexComplete == CheckpointBacked /\ NoEventPassed

\* However often a range is read again, replayed or rolled back, an event moves
\* its borrower's score once and is announced once (storeEvents,
\* rollbackFromLedger).
CountedOnce == ScoresCountOnce /\ AnnouncedOnce
=============================================================================
