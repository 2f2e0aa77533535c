-------------------------- MODULE MultisigGovernance --------------------------
(***************************************************************************)
(* contracts/multisig_governance/src/lib.rs: the transfer of the admin     *)
(* role of a DukaPay contract, by proposal, quorum and timelock.           *)
(*                                                                         *)
(* The target is a contract whose set_admin requires the governance        *)
(* contract's authorisation (loan_manager/src/lib.rs:2433-2451).  The      *)
(* cross-contract call and the local writes are one atomic step.           *)
(***************************************************************************)
EXTENDS Integers, Sequences, FiniteSets, Functions

CONSTANTS
    Accounts,             \* addresses that hold keys
    NoAccount,            \* an address never stored
    MIN_TIMELOCK_SECONDS,
    PROPOSAL_TTL_SECONDS,
    REPROPOSAL_COOLDOWN_SECONDS,
    MAX_SIGNERS,
    MAX_U64,              \* timestamps saturate here
    SignerLists,          \* signer lists admins pass, with and without repeats
    Thresholds,           \* thresholds admins pass
    Delays,               \* delay_seconds admins pass
    HORIZON,              \* bound: last ledger timestamp explored
    MAX_PROPOSALS         \* bound: proposals made in one behaviour

ASSUME AccountAssumption == NoAccount \notin Accounts /\ IsFiniteSet(Accounts)
ASSUME TimeAssumption ==
    /\ MIN_TIMELOCK_SECONDS \in Nat \ {0}
    /\ PROPOSAL_TTL_SECONDS \in Nat \ {0}
    /\ REPROPOSAL_COOLDOWN_SECONDS \in Nat
    /\ HORIZON \in Nat
    /\ MAX_U64 \in Nat
    /\ HORIZON + PROPOSAL_TTL_SECONDS + MIN_TIMELOCK_SECONDS
         + REPROPOSAL_COOLDOWN_SECONDS <= MAX_U64
ASSUME ProposalAssumption ==
    /\ MAX_SIGNERS \in Nat
    /\ MAX_PROPOSALS \in Nat
    /\ SignerLists \subseteq Seq(Accounts)
    /\ Thresholds \subseteq Nat
    /\ Delays \subseteq Nat

VARIABLES
    admin,              \* KEY_ADMIN
    pending,            \* KEY_PENDING; status "none" when the key is absent
    last_cancelled_at,  \* KEY_LAST_CANCELLED_AT; -1 when absent
    proposal_count,     \* KEY_PROPOSAL_COUNT
    target_admin,       \* admin stored by the target contract (external)
    ballots,            \* history: who approved which proposal
    now                 \* ledger timestamp

govVars == <<admin, pending, last_cancelled_at, proposal_count, target_admin, ballots, now>>

NoPending ==
    [status |-> "none", id |-> 0, proposed_admin |-> NoAccount, signers |-> {},
     threshold |-> 0, executable_after |-> 0, approvals |-> {}, proposed_at |-> 0]

saturating_add(x, y) == IF x + y > MAX_U64 THEN MAX_U64 ELSE x + y

GovInit ==
    /\ admin = NoAccount
    /\ pending = NoPending
    /\ last_cancelled_at = -1
    /\ proposal_count = 0
    /\ target_admin \in Accounts
    /\ ballots = {}
    /\ now = 0

\* Deployed with the admin the target has.
initialize ==
    /\ admin = NoAccount
    /\ admin' = target_admin
    /\ proposal_count' = 0
    /\ UNCHANGED <<pending, last_cancelled_at, target_admin, ballots, now>>

cooling == last_cancelled_at >= 0
           /\ now < saturating_add(last_cancelled_at, REPROPOSAL_COOLDOWN_SECONDS)

valid_quorum(signers, threshold) ==
    /\ Len(signers) \in 1..MAX_SIGNERS
    /\ IsInjective(signers)
    /\ threshold \in 1..Len(signers)

proposal(new_admin, signers, threshold, delay) ==
    [status |-> "Active", id |-> proposal_count + 1, proposed_admin |-> new_admin,
     signers |-> Range(signers), threshold |-> threshold,
     executable_after |-> saturating_add(now, delay), approvals |-> {}, proposed_at |-> now]

\* MUTANT of propose_admin_transfer: the minimum delay is not enforced.
propose_any_delay(new_admin, signers, threshold, delay) ==
    /\ admin # NoAccount
    /\ pending.status # "Active"
    /\ ~cooling
    /\ valid_quorum(signers, threshold)
    /\ proposal_count < MAX_PROPOSALS
    /\ proposal_count' = proposal_count + 1
    /\ pending' = proposal(new_admin, signers, threshold, delay)
    /\ UNCHANGED <<admin, last_cancelled_at, target_admin, ballots, now>>

propose_admin_transfer(new_admin, signers, threshold, delay) ==
    /\ admin # NoAccount
    /\ pending.status # "Active"
    /\ ~cooling
    /\ valid_quorum(signers, threshold)
    /\ delay >= MIN_TIMELOCK_SECONDS
    /\ proposal_count < MAX_PROPOSALS
    /\ proposal_count' = proposal_count + 1
    /\ pending' = proposal(new_admin, signers, threshold, delay)
    /\ UNCHANGED <<admin, last_cancelled_at, target_admin, ballots, now>>

approve_transfer(signer) ==
    /\ pending.status = "Active"
    /\ signer \in pending.signers
    /\ pending' = [pending EXCEPT !.approvals = @ \cup {signer}]
    /\ ballots' = ballots \cup {<<signer, pending.id>>}
    /\ UNCHANGED <<admin, last_cancelled_at, proposal_count, target_admin, now>>

expiry_time == saturating_add(pending.proposed_at, PROPOSAL_TTL_SECONDS)

\* Anyone may call it; the target's set_admin runs in the same transaction.
finalize_admin_transfer ==
    /\ pending.status = "Active"
    /\ now >= pending.executable_after
    /\ now < expiry_time
    /\ Cardinality(pending.approvals) >= pending.threshold
    /\ target_admin' = pending.proposed_admin
    /\ pending' = NoPending
    /\ admin' = pending.proposed_admin
    /\ last_cancelled_at' = now
    /\ UNCHANGED <<proposal_count, ballots, now>>

\* emergency_cancel_proposal does the same once the caller names pending.id.
cancel_admin_transfer ==
    /\ admin # NoAccount
    /\ pending.status = "Active"
    /\ pending' = [pending EXCEPT !.status = "Cancelled"]
    /\ last_cancelled_at' = now
    /\ UNCHANGED <<admin, proposal_count, target_admin, ballots, now>>

emergency_cancel_proposal(id) == pending.id = id /\ cancel_admin_transfer

\* MUTANT of expire_proposal: it never finds the proposal expired.
expire_never ==
    /\ FALSE
    /\ UNCHANGED govVars

\* Anyone may call it.  No cooldown follows an expiry.
expire_proposal ==
    /\ pending.status = "Active"
    /\ now >= expiry_time
    /\ pending' = NoPending
    /\ UNCHANGED <<admin, last_cancelled_at, proposal_count, target_admin, ballots, now>>

\* The ledger closes with a later timestamp (external).
ledger_close ==
    /\ now < HORIZON
    /\ now' = now + 1
    /\ UNCHANGED <<admin, pending, last_cancelled_at, proposal_count, target_admin, ballots>>

GovNext ==
    \/ initialize
    \/ \E a \in Accounts, l \in SignerLists, t \in Thresholds, d \in Delays :
          propose_admin_transfer(a, l, t, d)
    \/ \E s \in Accounts : approve_transfer(s)
    \/ finalize_admin_transfer
    \/ cancel_admin_transfer
    \/ \E id \in 1..MAX_PROPOSALS : emergency_cancel_proposal(id)
    \/ expire_proposal
    \/ ledger_close

GovSpec == GovInit /\ [][GovNext]_govVars

\* Ledgers keep closing, and expire_proposal is open to anyone, so a proposal
\* that stays expirable is expired.
GovFairness == WF_govVars(ledger_close) /\ WF_govVars(expire_proposal)

-----------------------------------------------------------------------------

PendingTransfer ==
    [status : {"none", "Active", "Cancelled"}, id : Nat,
     proposed_admin : Accounts \cup {NoAccount}, signers : SUBSET Accounts, threshold : Nat,
     executable_after : 0..MAX_U64, approvals : SUBSET Accounts, proposed_at : 0..HORIZON]

\* Every stored value has its type, and the signers of a live proposal are enough to reach
\* its threshold: it is not stuck because a key was listed twice.
GovTypeOK ==
    /\ admin \in Accounts \cup {NoAccount}
    /\ pending \in PendingTransfer
    /\ pending.status = "Active" => pending.threshold \in 1..Cardinality(pending.signers)
    /\ last_cancelled_at \in -1..HORIZON
    /\ proposal_count \in 0..MAX_PROPOSALS
    /\ target_admin \in Accounts
    /\ ballots \subseteq Accounts \X (1..MAX_PROPOSALS)
    /\ now \in 0..HORIZON

\* Governance and the contract it governs never disagree about who the admin
\* is, whatever is proposed, cancelled, expired or finalised.
AdminsInStep == admin # NoAccount => admin = target_admin

\* An approval counts for the proposal it was given to and for no later one,
\* although the proposals share one storage key.
ApprovalsAreForThisProposal ==
    pending.status = "Active" =>
        pending.approvals = {s \in pending.signers : <<s, pending.id>> \in ballots}

\* A live proposal was made a full cooldown after the last cancellation or
\* finalisation.
CooldownHeld ==
    pending.status = "Active" /\ last_cancelled_at >= 0 =>
        pending.proposed_at >= last_cancelled_at + REPROPOSAL_COOLDOWN_SECONDS

\* INV-1 to INV-3 of finalize_admin_transfer, over the whole history of a
\* proposal: the admin changes only to the proposed account, at least
\* MIN_TIMELOCK_SECONDS and less than PROPOSAL_TTL_SECONDS after the proposal,
\* with as many distinct signers' ballots for it as its threshold asks.
AdminChangesByQuorum ==
    admin # NoAccount /\ admin' # admin =>
        /\ pending.status = "Active"
        /\ admin' = pending.proposed_admin
        /\ now >= pending.proposed_at + MIN_TIMELOCK_SECONDS
        /\ now < pending.proposed_at + PROPOSAL_TTL_SECONDS
        /\ pending.threshold >= 1
        /\ Cardinality({s \in pending.signers : <<s, pending.id>> \in ballots}) >= pending.threshold

\* Every step of the governance contract hands the role on by quorum only, to
\* a state in which both contracts name the same admin, the approvals are the
\* live proposal's own and its cooldown was kept.
AdminMovesByQuorum ==
    [][/\ AdminChangesByQuorum
       /\ (GovTypeOK /\ AdminsInStep /\ ApprovalsAreForThisProposal /\ CooldownHeld)']_govVars

\* "This cleans up stale proposals and allows new ones to be created"
\* (expire_proposal): no proposal blocks the admin role for ever, not even
\* one whose delay is longer than its TTL.
ProposalsResolve == pending.status = "Active" /\ pending.proposed_at + PROPOSAL_TTL_SECONDS <= HORIZON
                      ~> pending.status # "Active"
=============================================================================
