--------------------------- MODULE UpgradeTimelock ---------------------------
(***************************************************************************)
(* contracts/multisig_governance/src/upgrade_timelock.rs: WASM upgrades by *)
(* queue, quorum and 48-hour timelock.  It is a second part of the         *)
(* governance contract, so this module adds its storage and its calls to   *)
(* those of MultisigGovernance, with which it shares the admin and the     *)
(* clock.                                                                  *)
(***************************************************************************)
EXTENDS MultisigGovernance

CONSTANTS
    Contracts,                 \* contracts whose admin is this governance contract
    Target,                    \* the contract of KEY_TARGET, whose admin moves
    Self,                      \* the governance contract
    Hashes,                    \* uploaded WASM hashes
    UpgradeSignerLists,        \* signer lists admins pass to configure_upgrade_signers
    UpgradeThresholds,         \* thresholds admins pass to it
    UPGRADE_TIMELOCK_SECONDS,
    UPGRADE_TTL_SECONDS,
    MAX_UPGRADE_SIGNERS,
    MAX_UPGRADES               \* bound: upgrades queued in one behaviour

\* What the deployment gives the constants.
UpgradeConstants ==
    /\ UPGRADE_TIMELOCK_SECONDS \in Nat \ {0}
    /\ UPGRADE_TTL_SECONDS \in Nat \ {0}
    /\ HORIZON + UPGRADE_TIMELOCK_SECONDS + UPGRADE_TTL_SECONDS <= MAX_U64
    /\ MAX_UPGRADE_SIGNERS \in Nat /\ MAX_UPGRADES \in Nat
    /\ UpgradeSignerLists \subseteq Seq(Accounts) /\ UpgradeThresholds \subseteq Nat
    /\ Target \notin Contracts /\ Self \notin Contracts \cup {Target}

VARIABLES
    upg_signers,     \* KEY_UPG_SIGNERS; empty when absent
    upg_threshold,   \* KEY_UPG_THRESH; 0 when absent
    upg_pending,     \* KEY_UPG_PENDING; id 0 when absent
    upg_paused,      \* KEY_UPG_PAUSED
    upg_count,       \* KEY_UPG_COUNT
    wasm,            \* code each contract runs (external)
    upg_ballots      \* history: who approved which upgrade

upgVars == <<upg_signers, upg_threshold, upg_pending, upg_paused, upg_count, wasm, upg_ballots>>
allVars == <<govVars, upgVars>>

NoUpgrade == [id |-> 0, target |-> Self, new_wasm_hash |-> 0, proposed_at |-> 0,
              executable_after |-> 0, approvals |-> {}]

UpgradeInit ==
    /\ GovInit
    /\ upg_signers = {}
    /\ upg_threshold = 0
    /\ upg_pending = NoUpgrade
    /\ upg_paused = FALSE
    /\ upg_count = 0
    /\ wasm = [c \in Contracts \cup {Target, Self} |-> 0]
    /\ upg_ballots = {}

is_pending == upg_pending.id > 0
expired == now >= saturating_add(upg_pending.proposed_at, UPGRADE_TTL_SECONDS)
signer_or_admin(who) == who \in upg_signers \/ (admin # NoAccount /\ admin = who)

configure_upgrade_signers(signers, threshold) ==
    /\ admin # NoAccount
    /\ ~is_pending
    /\ Len(signers) \in 1..MAX_UPGRADE_SIGNERS
    /\ IsInjective(signers)
    /\ threshold \in 1..Len(signers)
    /\ upg_signers' = Range(signers)
    /\ upg_threshold' = threshold
    /\ UNCHANGED <<govVars, upg_pending, upg_paused, upg_count, wasm, upg_ballots>>

\* An expired upgrade is replaced, approvals and all.
queue_upgrade(proposer, target, hash) ==
    /\ signer_or_admin(proposer)
    /\ target # Self
    /\ is_pending => expired
    /\ upg_count < MAX_UPGRADES
    /\ upg_count' = upg_count + 1
    /\ upg_pending' = [id |-> upg_count + 1, target |-> target, new_wasm_hash |-> hash,
                       proposed_at |-> now,
                       executable_after |-> saturating_add(now, UPGRADE_TIMELOCK_SECONDS),
                       approvals |-> {}]
    /\ UNCHANGED <<govVars, upg_signers, upg_threshold, upg_paused, wasm, upg_ballots>>

approve_upgrade(signer) ==
    /\ signer \in upg_signers
    /\ is_pending
    /\ ~expired
    /\ upg_threshold > 0
    /\ upg_pending' = [upg_pending EXCEPT !.approvals = @ \cup {signer}]
    /\ upg_ballots' = upg_ballots \cup {<<signer, upg_pending.id>>}
    /\ UNCHANGED <<govVars, upg_signers, upg_threshold, upg_paused, upg_count, wasm>>

\* The target's own upgrade() asks for its admin's authorisation, which this
\* contract gives only to the contracts it administers.
administered(target) == target \in Contracts

\* MUTANT of execute_upgrade: the emergency pause is not looked at.
execute_while_paused ==
    /\ is_pending
    /\ now >= upg_pending.executable_after
    /\ ~expired
    /\ upg_threshold > 0
    /\ Cardinality(upg_pending.approvals) >= upg_threshold
    /\ administered(upg_pending.target)
    /\ wasm' = [wasm EXCEPT ![upg_pending.target] = upg_pending.new_wasm_hash]
    /\ upg_pending' = NoUpgrade
    /\ UNCHANGED <<govVars, upg_signers, upg_threshold, upg_paused, upg_count, upg_ballots>>

execute_upgrade ==
    /\ ~upg_paused
    /\ is_pending
    /\ now >= upg_pending.executable_after
    /\ ~expired
    /\ upg_threshold > 0
    /\ Cardinality(upg_pending.approvals) >= upg_threshold
    /\ administered(upg_pending.target)
    /\ wasm' = [wasm EXCEPT ![upg_pending.target] = upg_pending.new_wasm_hash]
    /\ upg_pending' = NoUpgrade
    /\ UNCHANGED <<govVars, upg_signers, upg_threshold, upg_paused, upg_count, upg_ballots>>

cancel_upgrade(caller) ==
    /\ signer_or_admin(caller)
    /\ is_pending
    /\ upg_pending' = NoUpgrade
    /\ UNCHANGED <<govVars, upg_signers, upg_threshold, upg_paused, upg_count, wasm, upg_ballots>>

emergency_pause(caller) ==
    /\ signer_or_admin(caller)
    /\ upg_paused' = TRUE
    /\ UNCHANGED <<govVars, upg_signers, upg_threshold, upg_pending, upg_count, wasm, upg_ballots>>

emergency_unpause ==
    /\ admin # NoAccount
    /\ upg_paused' = FALSE
    /\ UNCHANGED <<govVars, upg_signers, upg_threshold, upg_pending, upg_count, wasm, upg_ballots>>

\* The admin replaces the governance contract's own code.
upgrade(hash) ==
    /\ admin # NoAccount
    /\ wasm' = [wasm EXCEPT ![Self] = hash]
    /\ UNCHANGED <<govVars, upg_signers, upg_threshold, upg_pending, upg_paused, upg_count,
                   upg_ballots>>

\* loan_manager's upgrade(): its admin, an account, calls it directly.
target_upgrade(hash) ==
    /\ target_admin \in Accounts
    /\ wasm' = [wasm EXCEPT ![Target] = hash]
    /\ UNCHANGED <<govVars, upg_signers, upg_threshold, upg_pending, upg_paused, upg_count,
                   upg_ballots>>

UpgradeNext ==
    \/ GovNext /\ UNCHANGED upgVars
    \/ \E l \in UpgradeSignerLists, t \in UpgradeThresholds : configure_upgrade_signers(l, t)
    \/ \E p \in Accounts, c \in Contracts \cup {Target, Self}, h \in Hashes : queue_upgrade(p, c, h)
    \/ \E s \in Accounts : approve_upgrade(s)
    \/ execute_upgrade
    \/ \E p \in Accounts : cancel_upgrade(p) \/ emergency_pause(p)
    \/ emergency_unpause
    \/ \E h \in Hashes : upgrade(h) \/ target_upgrade(h)

UpgradeSpec == UpgradeInit /\ [][UpgradeNext]_allVars

-----------------------------------------------------------------------------

PendingUpgrade ==
    [id : 0..MAX_UPGRADES, target : Contracts \cup {Target, Self}, new_wasm_hash : Hashes \cup {0},
     proposed_at : 0..HORIZON, executable_after : 0..MAX_U64, approvals : SUBSET Accounts]

\* Every stored value has its type, and the governance contract never queues
\* itself.
UpgradeTypeOK ==
    /\ upg_signers \subseteq Accounts
    /\ upg_threshold \in 0..MAX_UPGRADE_SIGNERS
    /\ upg_pending \in PendingUpgrade
    /\ upg_paused \in BOOLEAN
    /\ upg_count \in 0..MAX_UPGRADES
    /\ wasm \in [Contracts \cup {Target, Self} -> Hashes \cup {0}]
    /\ upg_ballots \subseteq Accounts \X (1..MAX_UPGRADES)
    /\ is_pending => upg_pending.target # Self

\* "a rotation can't strand an in-flight approval set" (lines 106-107): every
\* approval a pending upgrade carries is a ballot cast for that upgrade by an
\* account that is still a signer, and the signers can reach the threshold.
ApprovalsAreCurrent ==
    /\ upg_pending.approvals = {s \in upg_signers : <<s, upg_pending.id>> \in upg_ballots}
    /\ upg_threshold <= Cardinality(upg_signers)

\* The four conditions of execute_upgrade over the whole history: code of a
\* contract governance administers changes only while not paused, between 48
\* hours and 14 days after it was queued, by the ballots of enough current
\* signers, and to the hash that was queued.
UpgradeByQuorum ==
    \A c \in Contracts : wasm'[c] # wasm[c] =>
        /\ ~upg_paused
        /\ upg_pending.target = c /\ wasm'[c] = upg_pending.new_wasm_hash
        /\ now >= upg_pending.proposed_at + UPGRADE_TIMELOCK_SECONDS
        /\ now < upg_pending.proposed_at + UPGRADE_TTL_SECONDS
        /\ upg_threshold >= 1
        /\ Cardinality({s \in upg_signers : <<s, upg_pending.id>> \in upg_ballots}) >= upg_threshold

\* In every step of the two parts of the contract together.
CodeChangesByQuorum == [][UpgradeByQuorum]_allVars
=============================================================================
