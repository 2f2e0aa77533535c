----------------------------- MODULE EventFeed -----------------------------
(* What a reader of the indexed events may rely on: below the published       *)
(* position the log only grows, and only by events that belong there, except  *)
(* that a retraction cuts position and log back to one ledger together.       *)
EXTENDS Naturals

CONSTANT ledger_of(_)   \* the ledger an event belongs to

VARIABLES position,   \* every ledger up to here has been published
          log         \* the events indexed for those ledgers

feed == <<position, log>>

FeedInit == position \in Nat /\ \A e \in log : ledger_of(e) <= position

\* A range of ledgers is published whole: nothing is added below it later by
\* the same step, nothing is lost.
Publish ==
    /\ position' > position
    /\ log \subseteq log'
    /\ \A e \in log' \ log : ledger_of(e) \in position + 1 .. position'

\* An event that was missing below the position turns up.
Repair ==
    /\ position' = position
    /\ log \subseteq log'
    /\ \A e \in log' \ log : ledger_of(e) <= position

Retract ==
    /\ position' < position
    /\ log' = {e \in log : ledger_of(e) <= position'}

FeedNext == Publish \/ Repair \/ Retract

FeedSpec == FeedInit /\ [][FeedNext]_feed
=============================================================================
