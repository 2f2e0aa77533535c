-------------------------- MODULE GovernanceProofs --------------------------
(* Who may change what: the admin role and the contracts' code move by quorum *)
(* only, for every set of accounts, every list of signers and every choice of *)
(* delays; an active agent is bonded, a suspended one stays suspended; and    *)
(* the lock of the default checker is deleted by the instance that set it.    *)
EXTENDS UpgradeTimelock, AgentRegistry, DefaultChecker, FiniteSetTheorems, TLAPS

\* The time a leaf is given, by each of the two provers that try it.
USE SMTT(20), ZenonT(30)

\* Timestamps the contract adds up before the horizon are far from MAX_U64.
LEMMA NoSaturation ==
    ASSUME NEW t \in 0..HORIZON, NEW d \in Nat
    PROVE  /\ saturating_add(t, d) \in 0..MAX_U64
           /\ d \in {PROPOSAL_TTL_SECONDS, REPROPOSAL_COOLDOWN_SECONDS} => saturating_add(t, d) = t + d
           /\ d >= MIN_TIMELOCK_SECONDS => saturating_add(t, d) >= t + MIN_TIMELOCK_SECONDS
  BY TimeAssumption DEF saturating_add

\* A list without repeats has as many members as entries.
LEMMA DistinctSigners ==
    ASSUME NEW s \in Seq(Accounts), IsInjective(s)
    PROVE  Range(s) \subseteq Accounts /\ Cardinality(Range(s)) = Len(s)
  <1>1. /\ s \in [1..Len(s) -> Accounts]
        /\ Len(s) \in Nat
    OBVIOUS
  <1>2. s \in Surjection(1..Len(s), Range(s))
    BY <1>1 DEF Surjection, Range
  <1>3. s \in Injection(1..Len(s), Range(s))
    BY <1>1, <1>2 DEF Injection, IsInjective, Surjection
  <1>4. IsFiniteSet(1..Len(s)) /\ Cardinality(1..Len(s)) = Len(s)
    <2>1. 1 \in Int /\ Len(s) \in Int
      BY <1>1
    <2>2. /\ IsFiniteSet(1..Len(s))
          /\ Cardinality(1..Len(s)) = IF 1 > Len(s) THEN 0 ELSE Len(s) - 1 + 1
      BY <2>1, FS_Interval
    <2>. QED
      BY <1>1, <2>2
  <1>. QED
    BY <1>1, <1>2, <1>3, <1>4, FS_Surjection DEF Range

-----------------------------------------------------------------------------
(* What makes the invariants inductive: a live proposal is the last one made, *)
(* no ballot was cast for a later one, and its earliest execution is at least *)
(* the minimum delay away from the time it was made.                          *)

LiveProposal ==
    pending.status = "Active" =>
        /\ admin # NoAccount
        /\ pending.proposed_admin \in Accounts
        /\ pending.id = proposal_count
        /\ pending.id >= 1
        /\ pending.executable_after >= pending.proposed_at + MIN_TIMELOCK_SECONDS

BallotsCast ==
    /\ \A b \in ballots : b[2] <= proposal_count
    /\ admin = NoAccount => proposal_count = 0

GovInv ==
    /\ GovTypeOK /\ AdminsInStep /\ ApprovalsAreForThisProposal /\ CooldownHeld
    /\ LiveProposal /\ BallotsCast

\* The invariant holds when the contract is deployed.
LEMMA GovInitially == GovInit => GovInv
  BY AccountAssumption, TimeAssumption, ProposalAssumption
  DEF GovInit, GovInv, GovTypeOK, AdminsInStep, ApprovalsAreForThisProposal, CooldownHeld,
      LiveProposal, BallotsCast, NoPending, PendingTransfer

\* propose_admin_transfer replaces a dead proposal by one nobody has approved.
LEMMA ProposeKeeps ==
    ASSUME GovInv,
           NEW a \in Accounts, NEW l \in SignerLists, NEW t \in Thresholds, NEW d \in Delays,
           propose_admin_transfer(a, l, t, d)
    PROVE  GovInv'
  <1>1. /\ l \in Seq(Accounts) /\ t \in Nat /\ d \in Nat /\ now \in 0..HORIZON
        /\ proposal_count \in 0..MAX_PROPOSALS /\ MAX_PROPOSALS \in Nat
    BY ProposalAssumption DEF GovInv, GovTypeOK
  <1>2. Range(l) \subseteq Accounts /\ Cardinality(Range(l)) = Len(l)
    BY <1>1, DistinctSigners DEF propose_admin_transfer, valid_quorum
  <1>3. /\ saturating_add(now, d) \in 0..MAX_U64
        /\ saturating_add(now, d) >= now + MIN_TIMELOCK_SECONDS
    BY <1>1, NoSaturation DEF propose_admin_transfer
  <1>4. /\ pending'.status = "Active" /\ pending'.id = proposal_count + 1
        /\ pending'.proposed_admin = a /\ pending'.signers = Range(l)
        /\ pending'.threshold = t /\ pending'.executable_after = saturating_add(now, d)
        /\ pending'.approvals = {} /\ pending'.proposed_at = now
    BY DEF propose_admin_transfer, proposal
  <1>5. pending' \in PendingTransfer
    BY <1>1, <1>2, <1>3 DEF propose_admin_transfer, proposal, PendingTransfer
  <1>6. t \in 1..Cardinality(Range(l))
    BY <1>1, <1>2 DEF propose_admin_transfer, valid_quorum
  <1>7. GovTypeOK' /\ AdminsInStep'
    BY <1>1, <1>4, <1>5, <1>6 DEF GovInv, GovTypeOK, AdminsInStep, propose_admin_transfer
  <1>8. ApprovalsAreForThisProposal'
    <2>1. \A s \in Range(l) : <<s, proposal_count + 1>> \notin ballots
      BY <1>1 DEF GovInv, BallotsCast
    <2>. QED
      BY <2>1, <1>4 DEF ApprovalsAreForThisProposal, propose_admin_transfer
  <1>9. CooldownHeld'
    <2>1. CASE last_cancelled_at >= 0
      <3>1. last_cancelled_at \in 0..HORIZON
        BY <2>1, TimeAssumption DEF GovInv, GovTypeOK
      <3>2. saturating_add(last_cancelled_at, REPROPOSAL_COOLDOWN_SECONDS)
              = last_cancelled_at + REPROPOSAL_COOLDOWN_SECONDS
        BY <3>1, NoSaturation, TimeAssumption
      <3>. QED
        BY <1>1, <1>4, <2>1, <3>1, <3>2, TimeAssumption DEF CooldownHeld, propose_admin_transfer, cooling
    <2>2. CASE ~(last_cancelled_at >= 0)
      BY <2>2 DEF CooldownHeld, propose_admin_transfer
    <2>. QED
      BY <2>1, <2>2
  <1>10. LiveProposal' /\ BallotsCast'
    BY <1>1, <1>3, <1>4 DEF GovInv, GovTypeOK, LiveProposal, BallotsCast, propose_admin_transfer
  <1>. QED
    BY <1>7, <1>8, <1>9, <1>10 DEF GovInv

\* approve_transfer adds one signer to the approvals and to the ballots alike.
LEMMA ApproveKeeps ==
    ASSUME GovInv, NEW s \in Accounts, approve_transfer(s)
    PROVE  GovInv'
  <1>1. /\ pending'.status = "Active" /\ pending'.id = pending.id
        /\ pending'.proposed_admin = pending.proposed_admin /\ pending'.signers = pending.signers
        /\ pending'.threshold = pending.threshold /\ pending'.executable_after = pending.executable_after
        /\ pending'.approvals = pending.approvals \cup {s} /\ pending'.proposed_at = pending.proposed_at
        /\ pending' \in PendingTransfer
    BY DEF approve_transfer, GovInv, GovTypeOK, PendingTransfer
  <1>2. pending.id \in 1..MAX_PROPOSALS
    BY ProposalAssumption DEF approve_transfer, GovInv, GovTypeOK, LiveProposal
  <1>3. GovTypeOK' /\ AdminsInStep'
    BY <1>1, <1>2 DEF approve_transfer, GovInv, GovTypeOK, AdminsInStep
  <1>4. ApprovalsAreForThisProposal'
    BY <1>1 DEF approve_transfer, GovInv, ApprovalsAreForThisProposal
  <1>5. CooldownHeld' /\ LiveProposal' /\ BallotsCast'
    BY <1>1 DEF approve_transfer, GovInv, CooldownHeld, LiveProposal, BallotsCast, GovTypeOK
  <1>. QED
    BY <1>3, <1>4, <1>5 DEF GovInv

\* Cancelling, emergency cancelling, expiring and finalising end the live proposal.
LEMMA EndingKeeps ==
    ASSUME GovInv, finalize_admin_transfer \/ cancel_admin_transfer \/ expire_proposal
    PROVE  GovInv'
  <1>1. /\ pending' \in PendingTransfer /\ pending'.status # "Active"
        /\ last_cancelled_at' \in -1..HORIZON
        /\ proposal_count' = proposal_count /\ ballots' = ballots /\ now' = now
    <2>1. pending \in PendingTransfer /\ now \in 0..HORIZON /\ last_cancelled_at \in -1..HORIZON
      BY DEF GovInv, GovTypeOK
    <2>2. NoPending \in PendingTransfer /\ NoPending.status = "none"
      BY TimeAssumption DEF NoPending, PendingTransfer
    <2>3. CASE finalize_admin_transfer
      BY <2>1, <2>2, <2>3, TimeAssumption DEF finalize_admin_transfer
    <2>4. CASE cancel_admin_transfer
      BY <2>1, <2>4, TimeAssumption DEF cancel_admin_transfer, PendingTransfer
    <2>5. CASE expire_proposal
      BY <2>1, <2>2, <2>5 DEF expire_proposal
    <2>. QED
      BY <2>3, <2>4, <2>5
  <1>2. /\ admin' \in Accounts \cup {NoAccount} /\ target_admin' \in Accounts
        /\ AdminsInStep' /\ (admin' = NoAccount => admin = NoAccount)
    BY AccountAssumption DEF GovInv, GovTypeOK, LiveProposal, AdminsInStep,
           finalize_admin_transfer, cancel_admin_transfer, expire_proposal
  <1>. QED
    BY <1>1, <1>2
    DEF GovInv, GovTypeOK, ApprovalsAreForThisProposal, CooldownHeld, LiveProposal, BallotsCast

\* Every step keeps the invariant, and moves the admin role by quorum only.
LEMMA GovStep ==
    ASSUME GovInv, [GovNext]_govVars
    PROVE  GovInv' /\ AdminChangesByQuorum
  <1>1. CASE initialize
    <2>1. GovInv'
      BY <1>1, ProposalAssumption DEF initialize, GovInv, GovTypeOK, AdminsInStep, ApprovalsAreForThisProposal,
         CooldownHeld, LiveProposal, BallotsCast
    <2>. QED
      BY <1>1, <2>1 DEF initialize, AdminChangesByQuorum
  <1>2. CASE \E a \in Accounts, l \in SignerLists, t \in Thresholds, d \in Delays :
                propose_admin_transfer(a, l, t, d)
    BY <1>2, ProposeKeeps DEF propose_admin_transfer, AdminChangesByQuorum
  <1>3. CASE \E s \in Accounts : approve_transfer(s)
    BY <1>3, ApproveKeeps DEF approve_transfer, AdminChangesByQuorum
  <1>4. CASE finalize_admin_transfer
    <2>1. /\ pending.proposed_at \in 0..HORIZON /\ now \in 0..HORIZON
          /\ pending.executable_after \in 0..MAX_U64 /\ MAX_U64 \in Nat /\ HORIZON \in Nat
      BY TimeAssumption DEF GovInv, GovTypeOK, PendingTransfer
    <2>2. expiry_time = pending.proposed_at + PROPOSAL_TTL_SECONDS
      BY <2>1, NoSaturation, TimeAssumption DEF expiry_time
    <2>3. pending.executable_after >= pending.proposed_at + MIN_TIMELOCK_SECONDS
      BY <1>4 DEF finalize_admin_transfer, GovInv, LiveProposal
    <2>4. now >= pending.proposed_at + MIN_TIMELOCK_SECONDS
      BY <1>4, <2>1, <2>3, TimeAssumption DEF finalize_admin_transfer
    <2>5. pending.approvals = {s \in pending.signers : <<s, pending.id>> \in ballots}
      BY <1>4 DEF finalize_admin_transfer, GovInv, ApprovalsAreForThisProposal
    <2>6. pending.threshold >= 1
      BY <1>4 DEF finalize_admin_transfer, GovInv, GovTypeOK
    <2>7. AdminChangesByQuorum
      BY <1>4, <2>2, <2>4, <2>5, <2>6 DEF finalize_admin_transfer, AdminChangesByQuorum
    <2>. QED
      BY <1>4, <2>7, EndingKeeps
  <1>5. CASE cancel_admin_transfer \/ \E id \in 1..MAX_PROPOSALS : emergency_cancel_proposal(id)
    <2>1. cancel_admin_transfer
      BY <1>5 DEF emergency_cancel_proposal
    <2>. QED
      BY <2>1, EndingKeeps DEF cancel_admin_transfer, AdminChangesByQuorum
  <1>6. CASE expire_proposal
    BY <1>6, EndingKeeps DEF expire_proposal, AdminChangesByQuorum
  <1>7. CASE ledger_close
    <2>1. GovInv'
      BY <1>7, TimeAssumption DEF ledger_close, GovInv, GovTypeOK, AdminsInStep, ApprovalsAreForThisProposal,
         CooldownHeld, LiveProposal, BallotsCast
    <2>. QED
      BY <1>7, <2>1 DEF ledger_close, AdminChangesByQuorum
  <1>8. CASE UNCHANGED govVars
    BY <1>8 DEF govVars, GovInv, GovTypeOK, AdminsInStep, ApprovalsAreForThisProposal,
                CooldownHeld, LiveProposal, BallotsCast, AdminChangesByQuorum
  <1>. QED
    BY <1>1, <1>2, <1>3, <1>4, <1>5, <1>6, <1>7, <1>8 DEF GovNext

\* Both contracts name the same admin, approvals are those of the live proposal,
\* and it was made after the cooldown, in every reachable state.
THEOREM GovernanceInvariant == GovSpec => []GovInv
  <1>1. GovInit => GovInv
    BY GovInitially
  <1>2. GovInv /\ [GovNext]_govVars => GovInv'
    BY GovStep
  <1>. QED
    BY <1>1, <1>2, PTL DEF GovSpec

\* finalize_admin_transfer is the only way the role changes hands once it is
\* set, and it does so with the quorum and the delay that were announced.
THEOREM AdminOnlyByQuorum == GovSpec => AdminMovesByQuorum
  <1>1. GovInit => GovInv
    BY GovInitially
  <1>2. GovInv /\ [GovNext]_govVars =>
            /\ GovInv'
            /\ [/\ AdminChangesByQuorum
                /\ (GovTypeOK /\ AdminsInStep /\ ApprovalsAreForThisProposal /\ CooldownHeld)']_govVars
    BY GovStep DEF GovInv
  <1>. QED
    BY <1>1, <1>2, PTL DEF GovSpec, AdminMovesByQuorum

-----------------------------------------------------------------------------
(* The upgrade timelock.  A queued upgrade is the last one queued, no ballot  *)
(* was cast for a later one or for none, and its earliest execution is the    *)
(* timelock away from the time it was queued.                                 *)

QueuedUpgrade ==
    /\ is_pending => /\ upg_pending.id = upg_count
                     /\ upg_pending.executable_after >= upg_pending.proposed_at + UPGRADE_TIMELOCK_SECONDS
    /\ \A b \in upg_ballots : b[2] <= upg_count

UpgInv == UpgradeTypeOK /\ ApprovalsAreCurrent /\ QueuedUpgrade

\* No deadline of an upgrade reaches the end of u64.
LEMMA NoUpgradeSaturation ==
    ASSUME UpgradeConstants, NEW t \in 0..HORIZON
    PROVE  /\ saturating_add(t, UPGRADE_TIMELOCK_SECONDS) = t + UPGRADE_TIMELOCK_SECONDS
           /\ saturating_add(t, UPGRADE_TTL_SECONDS) = t + UPGRADE_TTL_SECONDS
           /\ t + UPGRADE_TIMELOCK_SECONDS \in 0..MAX_U64
  BY TimeAssumption DEF UpgradeConstants, saturating_add

\* Absence of an upgrade is typed, and no ballot is for it.
LEMMA NothingQueued ==
    ASSUME UpgradeConstants
    PROVE  NoUpgrade \in PendingUpgrade /\ NoUpgrade.id = 0 /\ NoUpgrade.approvals = {}
  BY TimeAssumption DEF UpgradeConstants, NoUpgrade, PendingUpgrade

\* The invariant holds when the contract is deployed.
LEMMA UpgradeInitially == UpgradeConstants /\ UpgradeInit => UpgInv
  <1>. SUFFICES ASSUME UpgradeConstants, UpgradeInit PROVE UpgInv
    OBVIOUS
  <1>1. Cardinality({}) = 0
    BY FS_EmptySet
  <1>2. ~is_pending
    BY NothingQueued DEF UpgradeInit, is_pending
  <1>3. UpgradeTypeOK
    <2>1. upg_paused \in BOOLEAN
      BY ZenonT(30) DEF UpgradeInit
    <2>2. wasm \in [Contracts \cup {Target, Self} -> Hashes \cup {0}]
      BY DEF UpgradeInit
    <2>. QED
      BY <1>2, <2>1, <2>2, NothingQueued DEF UpgradeInit, UpgradeConstants, UpgradeTypeOK
  <1>4. ApprovalsAreCurrent
    BY <1>1, NothingQueued DEF UpgradeInit, ApprovalsAreCurrent
  <1>5. QueuedUpgrade
    BY <1>2 DEF UpgradeInit, QueuedUpgrade
  <1>. QED
    BY <1>3, <1>4, <1>5 DEF UpgInv

\* A step that takes the upgrade away keeps the invariant.
LEMMA ClearingKeeps ==
    ASSUME UpgradeConstants, UpgInv, upg_pending' = NoUpgrade,
           wasm' \in [Contracts \cup {Target, Self} -> Hashes \cup {0}],
           UNCHANGED <<upg_signers, upg_threshold, upg_paused, upg_count, upg_ballots>>
    PROVE  UpgInv'
  <1>1. UpgradeTypeOK'
    BY NothingQueued DEF UpgInv, UpgradeTypeOK, is_pending
  <1>2. ApprovalsAreCurrent'
    BY NothingQueued DEF UpgInv, UpgradeTypeOK, ApprovalsAreCurrent
  <1>3. QueuedUpgrade'
    BY NothingQueued DEF UpgInv, QueuedUpgrade, is_pending
  <1>. QED
    BY <1>1, <1>2, <1>3 DEF UpgInv

\* configure_upgrade_signers strands no approval: nothing is queued.
LEMMA ConfigureKeeps ==
    ASSUME UpgradeConstants, UpgInv, NEW l \in UpgradeSignerLists, NEW t \in UpgradeThresholds,
           configure_upgrade_signers(l, t)
    PROVE  UpgInv'
  <1>1. /\ l \in Seq(Accounts) /\ IsInjective(l) /\ t \in 1..Len(l) /\ Len(l) \in 1..MAX_UPGRADE_SIGNERS
        /\ upg_signers' = Range(l) /\ upg_threshold' = t /\ ~is_pending
        /\ UNCHANGED <<upg_pending, upg_paused, upg_count, wasm, upg_ballots>>
    BY DEF configure_upgrade_signers, UpgradeConstants
  <1>2. Range(l) \subseteq Accounts /\ Cardinality(Range(l)) = Len(l)
    BY <1>1, DistinctSigners
  <1>3. UpgradeTypeOK' /\ QueuedUpgrade'
    BY <1>1, <1>2 DEF UpgradeConstants, UpgInv, UpgradeTypeOK, QueuedUpgrade, is_pending
  <1>4. upg_pending.id = 0
    BY <1>1 DEF UpgradeConstants, UpgInv, UpgradeTypeOK, PendingUpgrade, is_pending
  <1>5. upg_pending.approvals = {}
    BY <1>4 DEF UpgInv, UpgradeTypeOK, ApprovalsAreCurrent
  <1>6. ApprovalsAreCurrent'
    BY <1>1, <1>2, <1>4, <1>5 DEF UpgInv, UpgradeTypeOK, ApprovalsAreCurrent
  <1>. QED
    BY <1>3, <1>6 DEF UpgInv

\* queue_upgrade starts without approvals: no ballot is for the new number.
LEMMA QueueKeeps ==
    ASSUME UpgradeConstants, GovInv, UpgInv, NEW p, NEW c \in Contracts \cup {Target, Self},
           NEW h \in Hashes, queue_upgrade(p, c, h)
    PROVE  UpgInv'
  <1>1. now \in 0..HORIZON /\ upg_count \in 0..MAX_UPGRADES /\ upg_count < MAX_UPGRADES
        /\ MAX_UPGRADES \in Nat
    BY DEF queue_upgrade, GovInv, GovTypeOK, UpgInv, UpgradeTypeOK, UpgradeConstants
  <1>2. /\ upg_count' = upg_count + 1 /\ c # Self
        /\ UNCHANGED <<upg_signers, upg_threshold, upg_paused, wasm, upg_ballots>>
    BY DEF queue_upgrade
  <1>3. upg_pending' = [id |-> upg_count + 1, target |-> c, new_wasm_hash |-> h,
                        proposed_at |-> now,
                        executable_after |-> now + UPGRADE_TIMELOCK_SECONDS, approvals |-> {}]
    BY <1>1, NoUpgradeSaturation DEF queue_upgrade
  <1>4. upg_pending' \in PendingUpgrade
    BY <1>1, <1>3, NoUpgradeSaturation DEF PendingUpgrade
  <1>5. UpgradeTypeOK'
    BY <1>1, <1>2, <1>3, <1>4 DEF UpgInv, UpgradeTypeOK
  <1>6. \A s : <<s, upg_count + 1>> \notin upg_ballots
    BY <1>1 DEF UpgInv, QueuedUpgrade
  <1>7. ApprovalsAreCurrent'
    BY <1>2, <1>3, <1>6 DEF UpgInv, ApprovalsAreCurrent
  <1>8. QueuedUpgrade'
    <2>1. \A b \in upg_ballots : b[2] \in Int
      BY DEF UpgInv, UpgradeTypeOK
    <2>. QED
      BY <1>1, <1>2, <1>3, <2>1 DEF UpgradeConstants, UpgInv, QueuedUpgrade
  <1>. QED
    BY <1>5, <1>7, <1>8 DEF UpgInv

\* approve_upgrade adds a current signer's ballot for the queued upgrade.
LEMMA ApproveUpgradeKeeps ==
    ASSUME UpgradeConstants, UpgInv, NEW s \in Accounts, approve_upgrade(s)
    PROVE  UpgInv'
  <1>1. /\ s \in upg_signers /\ is_pending
        /\ upg_pending' = [upg_pending EXCEPT !.approvals = @ \cup {s}]
        /\ upg_ballots' = upg_ballots \cup {<<s, upg_pending.id>>}
        /\ UNCHANGED <<upg_signers, upg_threshold, upg_paused, upg_count, wasm>>
    BY DEF approve_upgrade
  <1>2. upg_pending \in PendingUpgrade /\ upg_pending.id \in 1..MAX_UPGRADES
    BY <1>1 DEF UpgInv, UpgradeTypeOK, PendingUpgrade, is_pending, UpgradeConstants
  <1>3. /\ upg_pending' \in PendingUpgrade
        /\ upg_pending'.approvals = upg_pending.approvals \cup {s}
        /\ upg_pending'.id = upg_pending.id /\ upg_pending'.target = upg_pending.target
        /\ upg_pending'.executable_after = upg_pending.executable_after
        /\ upg_pending'.proposed_at = upg_pending.proposed_at
    BY <1>1, <1>2 DEF PendingUpgrade
  <1>4. UpgradeTypeOK'
    BY <1>1, <1>2, <1>3 DEF UpgInv, UpgradeTypeOK, is_pending
  <1>5. ApprovalsAreCurrent'
    BY <1>1, <1>3 DEF UpgInv, ApprovalsAreCurrent
  <1>6. QueuedUpgrade'
    <2>1. upg_pending.id <= upg_count
      BY <1>1, <1>2 DEF UpgInv, QueuedUpgrade, UpgradeTypeOK, UpgradeConstants
    <2>. QED
      BY <1>1, <1>3, <2>1 DEF UpgInv, QueuedUpgrade, is_pending
  <1>. QED
    BY <1>4, <1>5, <1>6 DEF UpgInv

\* Every step keeps both invariants, and changes the code of an administered
\* contract only with the four conditions of execute_upgrade.
LEMMA UpgradeStep ==
    ASSUME UpgradeConstants, GovInv, UpgInv, [UpgradeNext]_allVars
    PROVE  GovInv' /\ UpgInv' /\ UpgradeByQuorum
  <1>1. [GovNext]_govVars
    BY DEF UpgradeNext, allVars, configure_upgrade_signers, queue_upgrade, approve_upgrade,
           execute_upgrade, cancel_upgrade, emergency_pause, emergency_unpause, upgrade,
           target_upgrade
  <1>2. GovInv'
    BY <1>1, GovStep
  <1>3. wasm \in [Contracts \cup {Target, Self} -> Hashes \cup {0}]
    BY DEF UpgInv, UpgradeTypeOK
  <1>4. ASSUME UNCHANGED <<upg_signers, upg_threshold, upg_pending, upg_count, upg_ballots>>,
               upg_paused' \in BOOLEAN,
               wasm' \in [Contracts \cup {Target, Self} -> Hashes \cup {0}]
        PROVE  UpgInv'
    BY <1>4 DEF UpgInv, UpgradeTypeOK, ApprovalsAreCurrent, QueuedUpgrade, is_pending
  <1>5. CASE UNCHANGED upgVars
    <2>1. /\ UNCHANGED <<upg_signers, upg_threshold, upg_pending, upg_count, upg_ballots>>
          /\ upg_paused' = upg_paused /\ wasm' = wasm
      BY <1>5 DEF upgVars
    <2>2. upg_paused' \in BOOLEAN
      BY <2>1 DEF UpgInv, UpgradeTypeOK
    <2>. QED
      BY <1>2, <1>3, <1>4, <2>1, <2>2 DEF UpgradeByQuorum
  <1>6. ASSUME NEW l \in UpgradeSignerLists, NEW t \in UpgradeThresholds,
               configure_upgrade_signers(l, t)
        PROVE  UpgInv' /\ UpgradeByQuorum
    BY <1>6, ConfigureKeeps DEF configure_upgrade_signers, UpgradeByQuorum
  <1>7. ASSUME NEW p \in Accounts, NEW c \in Contracts \cup {Target, Self}, NEW h \in Hashes,
               queue_upgrade(p, c, h)
        PROVE  UpgInv' /\ UpgradeByQuorum
    BY <1>7, QueueKeeps DEF queue_upgrade, UpgradeByQuorum
  <1>8. ASSUME NEW s \in Accounts, approve_upgrade(s)
        PROVE  UpgInv' /\ UpgradeByQuorum
    BY <1>8, ApproveUpgradeKeeps DEF approve_upgrade, UpgradeByQuorum
  <1>9. CASE execute_upgrade
    <2>1. /\ upg_pending \in PendingUpgrade /\ is_pending
          /\ wasm' = [wasm EXCEPT ![upg_pending.target] = upg_pending.new_wasm_hash]
      BY <1>9 DEF UpgInv, UpgradeTypeOK, execute_upgrade
    <2>2. UpgInv'
      BY <1>3, <1>9, <2>1, ClearingKeeps DEF execute_upgrade, PendingUpgrade
    <2>3. /\ now \in Int /\ upg_pending.proposed_at \in 0..HORIZON
          /\ upg_pending.executable_after \in Int
      BY <2>1 DEF PendingUpgrade, GovInv, GovTypeOK
    <2>4. /\ now >= upg_pending.proposed_at + UPGRADE_TIMELOCK_SECONDS
          /\ now < upg_pending.proposed_at + UPGRADE_TTL_SECONDS
      BY <1>9, <2>1, <2>3, NoUpgradeSaturation
      DEF execute_upgrade, expired, UpgInv, QueuedUpgrade, UpgradeConstants
    <2>5. /\ ~upg_paused /\ upg_threshold >= 1
          /\ Cardinality({s \in upg_signers : <<s, upg_pending.id>> \in upg_ballots}) >= upg_threshold
      BY <1>9 DEF execute_upgrade, UpgInv, UpgradeTypeOK, ApprovalsAreCurrent, UpgradeConstants
    <2>6. \A c \in Contracts : wasm'[c] # wasm[c] =>
              upg_pending.target = c /\ wasm'[c] = upg_pending.new_wasm_hash
      BY <1>3, <2>1
    <2>7. UpgradeByQuorum
      BY <2>4, <2>5, <2>6, ZenonT(30) DEF UpgradeByQuorum
    <2>. QED
      BY <1>2, <2>2, <2>7
  <1>10. ASSUME NEW p \in Accounts, cancel_upgrade(p) \/ emergency_pause(p)
         PROVE  UpgInv' /\ UpgradeByQuorum
    <2>1. CASE cancel_upgrade(p)
      BY <1>3, <2>1, ClearingKeeps DEF cancel_upgrade, UpgradeByQuorum
    <2>2. CASE emergency_pause(p)
      BY <1>3, <1>4, <2>2 DEF emergency_pause, UpgradeByQuorum
    <2>. QED
      BY <1>10, <2>1, <2>2
  <1>11. CASE emergency_unpause
    <2>1. upg_paused' \in BOOLEAN /\ wasm' = wasm
      BY <1>11, ZenonT(30) DEF emergency_unpause
    <2>. QED
      BY <1>2, <1>3, <1>4, <1>11, <2>1 DEF emergency_unpause, UpgradeByQuorum
  <1>12. ASSUME NEW h \in Hashes, upgrade(h) \/ target_upgrade(h)
         PROVE  UpgInv' /\ UpgradeByQuorum
    <2>1. /\ upg_paused' = upg_paused /\ upg_paused \in BOOLEAN
          /\ UNCHANGED <<upg_signers, upg_threshold, upg_pending, upg_count, upg_ballots>>
      BY <1>12 DEF upgrade, target_upgrade, UpgInv, UpgradeTypeOK
    <2>2. PICK c \in {Target, Self} : wasm' = [wasm EXCEPT ![c] = h]
      BY <1>12 DEF upgrade, target_upgrade
    <2>3. wasm' \in [Contracts \cup {Target, Self} -> Hashes \cup {0}]
      BY <1>3, <2>2
    <2>4. UpgradeByQuorum
      BY <1>3, <2>2 DEF UpgradeByQuorum, UpgradeConstants
    <2>. QED
      BY <1>4, <2>1, <2>3, <2>4
  <1>13. CASE UNCHANGED allVars
    BY <1>5, <1>13 DEF allVars
  <1>. QED
    BY <1>2, <1>5, <1>6, <1>7, <1>8, <1>9, <1>10, <1>11, <1>12, <1>13 DEF UpgradeNext

\* The stored values have their types, every approval of a queued upgrade is a
\* current signer's ballot for it, and the signers can reach the threshold, in
\* every state of the two parts of the contract together.
THEOREM UpgradeInvariant ==
    ASSUME UpgradeConstants
    PROVE  UpgradeSpec => [](GovInv /\ UpgradeTypeOK /\ ApprovalsAreCurrent)
  <1>1. UpgradeInit => GovInv /\ UpgInv
    BY UpgradeInitially, GovInitially DEF UpgradeInit
  <1>2. GovInv /\ UpgInv /\ [UpgradeNext]_allVars => GovInv' /\ UpgInv'
    BY UpgradeStep
  <1>3. UpgInv => UpgradeTypeOK /\ ApprovalsAreCurrent
    BY DEF UpgInv
  <1>. QED
    BY <1>1, <1>2, <1>3, PTL DEF UpgradeSpec

\* Code of a contract the governance contract administers changes only while
\* not paused, between the timelock and the end of the upgrade's life after it
\* was queued, and by the ballots of a quorum of the signers of the moment.
THEOREM CodeOnlyByQuorum ==
    ASSUME UpgradeConstants
    PROVE  UpgradeSpec => CodeChangesByQuorum
  <1>1. UpgradeInit => GovInv /\ UpgInv
    BY UpgradeInitially, GovInitially DEF UpgradeInit
  <1>2. GovInv /\ UpgInv /\ [UpgradeNext]_allVars =>
            GovInv' /\ UpgInv' /\ [UpgradeByQuorum]_allVars
    BY UpgradeStep
  <1>. QED
    BY <1>1, <1>2, PTL DEF UpgradeSpec, CodeChangesByQuorum

-----------------------------------------------------------------------------
\* The agent registry, for every set of agents, bonds and KYC references.

RegistryInv == RegistryTypeOK /\ ActiveIsBonded

\* Every step keeps the types and the rule of the bond: a bond leaves only while
\* its agent is not Active.
LEMMA RegistryKept ==
    ASSUME RegistryConstants, RegistryInv, [RegistryNext]_registryVars
    PROVE  RegistryInv'
<1> USE DEF RegistryInv, RegistryTypeOK, ActiveIsBonded, RegistryConstants
<1>1. CASE registry_init
  BY <1>1 DEF registry_init, agentInfo
<1>2. CASE registry_upgrade
  BY <1>2 DEF registry_upgrade, agentInfo
<1>3. ASSUME NEW a \in Registrants, NEW k \in KycRefs, NEW b \in BondAmounts, NEW x \in Expiries,
             register(a, k, b, x)
      PROVE  RegistryInv'
  <2>1. b \in 0..MAX_BOND
    BY <1>3 DEF register
  <2>2. RegistryTypeOK'
    BY <1>3, <2>1, ZenonT(30) DEF register
  <2>3. ActiveIsBonded'
    BY <1>3 DEF register
  <2> QED BY <2>2, <2>3
<1>4. ASSUME NEW a \in Registrants, activate(a) PROVE RegistryInv'
  BY <1>4 DEF activate
<1>5. ASSUME NEW a \in Registrants, suspend(a) PROVE RegistryInv'
  BY <1>5 DEF suspend
<1>6. ASSUME NEW a \in Registrants, withdraw_bond(a) PROVE RegistryInv'
  BY <1>6 DEF withdraw_bond
<1>7. ASSUME NEW a \in Registrants, NEW r \in Reputations, set_reputation(a, r) PROVE RegistryInv'
  BY <1>7 DEF set_reputation
<1>8. ASSUME NEW a \in Registrants, NEW x \in Expiries, renew_license(a, x) PROVE RegistryInv'
  BY <1>8 DEF renew_license
<1>9. ASSUME NEW a \in Registrants, NEW b \in BondAmounts, top_up_bond(a, b) PROVE RegistryInv'
  BY <1>9 DEF top_up_bond
<1>10. CASE UNCHANGED registryVars
  BY <1>10 DEF registryVars, agentInfo
<1> QED
  BY <1>1, <1>2, <1>3, <1>4, <1>5, <1>6, <1>7, <1>8, <1>9, <1>10, ZenonT(30) DEF RegistryNext

\* "No active agent without a bond and a kyc_ref", for every number of agents and
\* calls (register, activate, suspend, top_up_bond, withdraw_bond).
THEOREM ActiveAgentsAreBonded ==
    ASSUME RegistryConstants
    PROVE  RegistrySpec => []RegistryInv
<1>1. RegistryInit => RegistryInv
  <2>1. 0 \in 0..MAX_BOND /\ 0 \in 0..MAX_REGISTRY_VERSION
    BY DEF RegistryConstants
  <2> QED
    BY <2>1, ZenonT(30) DEF RegistryInit, RegistryInv, RegistryTypeOK, ActiveIsBonded, RegistryConstants
<1>2. RegistryInv /\ [RegistryNext]_registryVars => RegistryInv'
  BY RegistryKept
<1> QED
  BY <1>1, <1>2, PTL DEF RegistrySpec

\* Nobody who was suspended works again or gets a fresh record, for every number
\* of agents and calls: no call leads out of Suspended.
THEOREM SuspendedForGood ==
    ASSUME RegistryConstants
    PROVE  RegistrySpec => SuspensionIsFinal
<1>1. RegistryInv /\ [RegistryNext]_registryVars => [SuspensionStands]_registryVars
  <2> SUFFICES ASSUME RegistryTypeOK, RegistryNext, NEW s \in Registrants, status[s] = "Suspended"
               PROVE  status'[s] = "Suspended" /\ kyc_ref'[s] = kyc_ref[s]
    BY ZenonT(30) DEF RegistryInv, SuspensionStands
  <2> USE DEF RegistryTypeOK
  <2>1. CASE registry_init \/ registry_upgrade
    BY <2>1, ZenonT(30) DEF registry_init, registry_upgrade, agentInfo
  <2>2. ASSUME NEW a \in Registrants, NEW k \in KycRefs, NEW b \in BondAmounts, NEW x \in Expiries,
               register(a, k, b, x)
        PROVE  status'[s] = "Suspended" /\ kyc_ref'[s] = kyc_ref[s]
    BY <2>2 DEF register
  <2>3. ASSUME NEW a \in Registrants, activate(a) \/ suspend(a) \/ withdraw_bond(a)
        PROVE  status'[s] = "Suspended" /\ kyc_ref'[s] = kyc_ref[s]
    BY <2>3 DEF activate, suspend, withdraw_bond
  <2>4. ASSUME NEW a \in Registrants,
               \/ \E r \in Reputations : set_reputation(a, r)
               \/ \E x \in Expiries : renew_license(a, x)
               \/ \E b \in BondAmounts : top_up_bond(a, b)
        PROVE  status'[s] = "Suspended" /\ kyc_ref'[s] = kyc_ref[s]
    BY <2>4, ZenonT(30) DEF set_reputation, renew_license, top_up_bond
  <2> QED
    BY <2>1, <2>2, <2>3, <2>4, ZenonT(30) DEF RegistryNext
<1> QED
  BY <1>1, ActiveAgentsAreBonded, PTL DEF RegistrySpec, SuspensionIsFinal

-----------------------------------------------------------------------------
\* The lock of the default checker, for any instances and callers.

\* The value an instance holds as the lock's is one that it set itself: none is
\* left over from another instance, though its own may be long gone from Redis.
OwnValue ==
    /\ DOMAIN currentLockValue = Instances
    /\ \A i \in Instances : currentLockValue[i] = NoRun \/ currentLockValue[i][1] = i

\* A run only ever stores a lock value of its own instance (acquireLock).
LEMMA OwnValueKept ==
    ASSUME OwnValue, [CheckNext]_check_vars
    PROVE  OwnValue'
<1>1. ASSUME NEW i \in Instances, NEW v, v = NoRun \/ v[1] = i,
             currentLockValue' = [currentLockValue EXCEPT ![i] = v]
      PROVE  OwnValue'
  BY <1>1, ZenonT(30) DEF OwnValue
<1>2. \A r \in Runs : r[1] \in Instances
  BY ZenonT(30) DEF Instances
<1>3. CASE UNCHANGED currentLockValue
  BY <1>3, ZenonT(30) DEF OwnValue
<1>4. ASSUME NEW r \in Runs, acquireLock(r) PROVE OwnValue'
  BY <1>1, <1>2, <1>4, ZenonT(30) DEF acquireLock
<1>5. ASSUME NEW r \in Runs, releaseLock(r) PROVE OwnValue'
  BY <1>1, <1>2, <1>5, ZenonT(30) DEF releaseLock
<1>6. ASSUME NEW n \in Instances, instance_dies(n) PROVE OwnValue'
  BY <1>1, <1>6, ZenonT(30) DEF instance_dies
<1>7. ASSUME NEW r \in Runs,
             \/ hasSuspectLedgerRanges(r) \/ run_fails(r) \/ checkOverdueLoans(r) \/ run_completes(r)
             \/ \E i \in Indices : \/ submitCheckDefaults(r, i) \/ batch_sent(r, i)
                                   \/ batch_refused(r, i) \/ submitCheckDefaultsWithTimeout(r, i)
      PROVE  UNCHANGED currentLockValue
  BY <1>7, ZenonT(30) DEF hasSuspectLedgerRanges, run_fails, checkOverdueLoans, run_completes,
     submitCheckDefaults, batch_sent, batch_refused, submitCheckDefaultsWithTimeout
<1>8. CASE \/ \E ids \in stray : stray_sent(ids)
           \/ \E l \in Loans : borrower_pays(l)
           \/ lock_runs_out \/ ledger_passes \/ gap_resolved \/ UNCHANGED check_vars
  <2>1. UNCHANGED currentLockValue
    BY <1>8, ZenonT(30) DEF stray_sent, borrower_pays, lock_runs_out, ledger_passes, gap_resolved, check_vars
  <2> QED BY <1>3, <2>1
<1> QED
  BY <1>3, <1>4, <1>5, <1>6, <1>7, <1>8, ZenonT(30) DEF CheckNext

\* releaseLock deletes the Redis key only while the key holds a value this
\* instance set: a run that outlives the lock's time to live never takes the
\* lock from another instance, whatever the crashes and expiries before.
THEOREM LocksAreReleasedByOwners == CheckInit /\ [][CheckNext]_check_vars => ReleasesOwnLock
<1>1. CheckInit => OwnValue
  BY ZenonT(30) DEF CheckInit, OwnValue
<1>2. OwnValue /\ [CheckNext]_check_vars => OwnValue'
  BY OwnValueKept
<1>3. ASSUME OwnValue, NEW r \in Runs, releaseLock(r), sweep_lock' # sweep_lock
      PROVE  sweep_lock[1] = r[1]
  BY <1>3, ZenonT(30) DEF OwnValue, releaseLock, Instances
<1>4. OwnValue /\ [CheckNext]_check_vars
          => [\A r \in Runs : releaseLock(r) /\ sweep_lock' # sweep_lock => sweep_lock[1] = r[1]]_check_vars
  BY <1>3, ZenonT(30)
<1> QED
  BY <1>1, <1>2, <1>4, PTL DEF ReleasesOwnLock
=============================================================================
