----------------------------- MODULE RemittanceNFT -----------------------------
(***************************************************************************)
(* contracts/remittance_nft/src/lib.rs: the credit score of a user, with   *)
(* the marks that defaults leave on it, as a token that is minted, moved,  *)
(* burned and, on the admin's word, minted again.                          *)
(*                                                                         *)
(* Metadata and its legacy form (Score) are one entry.  The history hash,  *)
(* the metadata URI, the recipient commitment and the score log are        *)
(* payload no decision reads, and are left out.                            *)
(***************************************************************************)
EXTENDS SorobanClock, FiniteSets

CONSTANTS
    NftAccounts,                 \* admins and minters
    NoNftAccount,
    Users,
    MIN_CREDIT_SCORE, MAX_SCORE,
    STROOPS_PER_SCORE_POINT,
    DEFAULT_BURN_THRESHOLD, MAX_ALLOWED_BURN_THRESHOLD,
    MAX_AUTHORIZED_MINTERS,
    TRANSFER_COOLDOWN_LEDGERS,
    MintScores, Penalties, ScoreDeltas, Repayments, Thresholds, MinRepayments,   \* arguments
    MAX_DEFAULTS                 \* bound: defaults recorded for one user

ASSUME NftAssumption ==
    /\ NoNftAccount \notin NftAccounts
    /\ IsFiniteSet(Users)
    /\ MIN_CREDIT_SCORE \in 0..MAX_SCORE /\ MAX_SCORE \in Nat
    /\ STROOPS_PER_SCORE_POINT \in Nat \ {0}
    /\ DEFAULT_BURN_THRESHOLD \in 1..MAX_ALLOWED_BURN_THRESHOLD /\ MAX_ALLOWED_BURN_THRESHOLD \in Nat
    /\ MAX_AUTHORIZED_MINTERS \in Nat \ {0} /\ TRANSFER_COOLDOWN_LEDGERS \in Nat
    /\ MintScores \subseteq Nat /\ Penalties \subseteq Nat /\ ScoreDeltas \subseteq Int
    /\ Repayments \subseteq Int /\ Thresholds \subseteq Nat /\ MinRepayments \subseteq Int
    /\ MAX_DEFAULTS \in Nat

VARIABLES
    nft_admin, nft_proposed,     \* admin key, ProposedAdmin
    nft_paused,                  \* Paused
    minters,                     \* AuthorizedMinter entries; the list AuthorizedMinters mirrors them
    burn_threshold,              \* burn threshold key
    nft_min_repayment,           \* MinRepaymentAmount
    score,                       \* Metadata(user).score; NoNft where no entry is stored
    seized, burned,              \* Seized, Burned
    default_count,               \* DefaultCount
    remint_approved,             \* RemintApproval
    transfer_after               \* TransferCooldown; 0 where no entry is stored

nft_config == <<nft_admin, nft_proposed, nft_paused, minters, burn_threshold, nft_min_repayment>>
nft_records == <<score, seized, burned, default_count, remint_approved, transfer_after>>
nft_vars == <<nft_config, nft_records, ledger>>

NoNft == -1
has_active_nft(u) == score[u] # NoNft
get_score(u) == IF has_active_nft(u) THEN score[u] ELSE 0
smaller(x, y) == IF x <= y THEN x ELSE y
larger(x, y) == IF x >= y THEN x ELSE y

NftInit ==
    /\ nft_admin = NoNftAccount /\ nft_proposed = NoNftAccount
    /\ nft_paused = FALSE
    /\ minters = {}
    /\ burn_threshold = DEFAULT_BURN_THRESHOLD
    /\ nft_min_repayment = 0
    /\ score = [u \in Users |-> NoNft]
    /\ seized = [u \in Users |-> FALSE] /\ burned = [u \in Users |-> FALSE]
    /\ default_count = [u \in Users |-> 0]
    /\ remint_approved = [u \in Users |-> FALSE]
    /\ transfer_after = [u \in Users |-> 0]
    /\ LedgerInit

\* A caller is the admin (minter = None) or an authorized minter.
require_admin_or_authorized_minter(caller) ==
    /\ ~nft_paused
    /\ caller \in minters \/ (caller = nft_admin /\ nft_admin # NoNftAccount)

-----------------------------------------------------------------------------
(* Minting, burning, moving.                                               *)

mint(caller, u, initial) ==
    /\ require_admin_or_authorized_minter(caller)
    /\ ~has_active_nft(u) /\ ~burned[u]
    /\ score' = [score EXCEPT ![u] = smaller(initial, MAX_SCORE)]
    /\ UNCHANGED <<nft_config, seized, burned, default_count, remint_approved, transfer_after, ledger>>

\* MUTANT of admin_remint: the count of defaults starts anew.
admin_remint_forgetting(u, initial) ==
    /\ nft_admin # NoNftAccount /\ ~nft_paused
    /\ burned[u] /\ remint_approved[u] /\ ~has_active_nft(u)
    /\ score' = [score EXCEPT ![u] = smaller(initial, MAX_SCORE)]
    /\ remint_approved' = [remint_approved EXCEPT ![u] = FALSE]
    /\ burned' = [burned EXCEPT ![u] = FALSE]
    /\ seized' = [seized EXCEPT ![u] = FALSE]
    /\ transfer_after' = [transfer_after EXCEPT ![u] = 0]
    /\ default_count' = [default_count EXCEPT ![u] = 0]
    /\ UNCHANGED <<nft_config, ledger>>

admin_remint(u, initial) ==
    /\ nft_admin # NoNftAccount /\ ~nft_paused
    /\ burned[u] /\ remint_approved[u] /\ ~has_active_nft(u)
    /\ score' = [score EXCEPT ![u] = smaller(initial, MAX_SCORE)]
    /\ remint_approved' = [remint_approved EXCEPT ![u] = FALSE]
    /\ burned' = [burned EXCEPT ![u] = FALSE]
    /\ seized' = [seized EXCEPT ![u] = FALSE]
    /\ transfer_after' = [transfer_after EXCEPT ![u] = 0]
    /\ UNCHANGED <<nft_config, default_count, ledger>>

\* The approval is not tied to a burn: any user can hold one.
approve_remint(u) ==
    /\ nft_admin # NoNftAccount /\ ~nft_paused
    /\ remint_approved' = [remint_approved EXCEPT ![u] = TRUE]
    /\ UNCHANGED <<nft_config, score, seized, burned, default_count, transfer_after, ledger>>

\* The default count outlives the token.
burn_internal(u) ==
    /\ score' = [score EXCEPT ![u] = NoNft]
    /\ seized' = [seized EXCEPT ![u] = FALSE]
    /\ burned' = [burned EXCEPT ![u] = TRUE]
    /\ remint_approved' = [remint_approved EXCEPT ![u] = FALSE]
    /\ transfer_after' = [transfer_after EXCEPT ![u] = 0]

burn(caller, u) ==
    /\ require_admin_or_authorized_minter(caller)
    /\ has_active_nft(u)
    /\ burn_internal(u)
    /\ UNCHANGED <<nft_config, default_count, ledger>>

\* The owner and the admin or a minter both sign.  The score and the marks move, a
\* default count only where there is one to move.
transfer(caller, from, to) ==
    /\ require_admin_or_authorized_minter(caller)
    /\ from # to
    /\ ledger >= transfer_after[from]
    /\ has_active_nft(from) /\ ~has_active_nft(to)
    /\ score' = [score EXCEPT ![to] = score[from], ![from] = NoNft]
    /\ default_count' = IF default_count[from] = 0 THEN default_count
                        ELSE [default_count EXCEPT ![to] = default_count[from], ![from] = 0]
    /\ seized' = IF seized[from] THEN [seized EXCEPT ![to] = TRUE, ![from] = FALSE] ELSE seized
    /\ remint_approved' = [remint_approved EXCEPT ![from] = FALSE]
    /\ transfer_after' = [transfer_after EXCEPT ![from] = 0, ![to] = ledger + TRANSFER_COOLDOWN_LEDGERS]
    /\ UNCHANGED <<nft_config, burned, ledger>>

-----------------------------------------------------------------------------
(* Scores and marks.                                                       *)

decreased(s, points) == larger(larger(s - points, 0), MIN_CREDIT_SCORE)
adjusted(s, delta) == larger(0, smaller(s + delta, MAX_SCORE))

other_than_score == <<nft_config, seized, burned, default_count, remint_approved, transfer_after, ledger>>

update_score(caller, u, repayment) ==
    /\ repayment > 0 /\ repayment >= nft_min_repayment /\ repayment >= STROOPS_PER_SCORE_POINT
    /\ require_admin_or_authorized_minter(caller)
    /\ has_active_nft(u)
    /\ score' = [score EXCEPT ![u] = smaller(@ + (repayment \div STROOPS_PER_SCORE_POINT), MAX_SCORE)]
    /\ UNCHANGED other_than_score

\* The floor applies even to a score that is below it.
decrease_score(caller, u, points) ==
    /\ require_admin_or_authorized_minter(caller)
    /\ has_active_nft(u)
    /\ score' = [score EXCEPT ![u] = decreased(@, points)]
    /\ UNCHANGED other_than_score

apply_score_delta(caller, u, delta) ==
    /\ require_admin_or_authorized_minter(caller)
    /\ has_active_nft(u)
    /\ score' = [score EXCEPT ![u] = adjusted(@, delta)]
    /\ UNCHANGED other_than_score

seize_collateral(caller, u) ==
    /\ require_admin_or_authorized_minter(caller)
    /\ has_active_nft(u) /\ ~seized[u]
    /\ seized' = [seized EXCEPT ![u] = TRUE]
    /\ UNCHANGED <<nft_config, score, burned, default_count, remint_approved, transfer_after, ledger>>

record_default(caller, u) ==
    /\ require_admin_or_authorized_minter(caller)
    /\ has_active_nft(u)
    /\ default_count' = [default_count EXCEPT ![u] = @ + 1]
    /\ IF default_count[u] + 1 >= burn_threshold
       THEN burn_internal(u)
       ELSE /\ seized' = [seized EXCEPT ![u] = TRUE]
            /\ UNCHANGED <<score, burned, remint_approved, transfer_after>>
    /\ UNCHANGED <<nft_config, ledger>>

-----------------------------------------------------------------------------
(* Administration.                                                         *)

nft_initialize(a) ==
    /\ nft_admin = NoNftAccount
    /\ nft_admin' = a
    /\ burn_threshold' = DEFAULT_BURN_THRESHOLD
    /\ nft_paused' = FALSE
    /\ minters' = minters \cup {a}
    /\ UNCHANGED <<nft_proposed, nft_min_repayment, nft_records, ledger>>

authorize_minter(m) ==
    /\ nft_admin # NoNftAccount
    /\ m \in minters \/ Cardinality(minters) < MAX_AUTHORIZED_MINTERS
    /\ minters' = minters \cup {m}
    /\ UNCHANGED <<nft_admin, nft_proposed, nft_paused, burn_threshold, nft_min_repayment,
                   nft_records, ledger>>

revoke_minter(m) ==
    /\ nft_admin # NoNftAccount
    /\ minters' = minters \ {m}
    /\ UNCHANGED <<nft_admin, nft_proposed, nft_paused, burn_threshold, nft_min_repayment,
                   nft_records, ledger>>

nft_set_paused(flag) ==
    /\ nft_admin # NoNftAccount
    /\ nft_paused' = flag
    /\ UNCHANGED <<nft_admin, nft_proposed, minters, burn_threshold, nft_min_repayment,
                   nft_records, ledger>>

set_default_burn_threshold(threshold) ==
    /\ threshold \in 1..MAX_ALLOWED_BURN_THRESHOLD
    /\ nft_admin # NoNftAccount /\ ~nft_paused
    /\ burn_threshold' = threshold
    /\ UNCHANGED <<nft_admin, nft_proposed, nft_paused, minters, nft_min_repayment,
                   nft_records, ledger>>

nft_set_min_repayment_amount(amount) ==
    /\ nft_admin # NoNftAccount
    /\ amount >= 0
    /\ nft_min_repayment' = amount
    /\ UNCHANGED <<nft_admin, nft_proposed, nft_paused, minters, burn_threshold, nft_records, ledger>>

\* A former admin stays an authorized minter.
nft_propose_admin(a) ==
    /\ nft_admin # NoNftAccount
    /\ nft_proposed' = a
    /\ UNCHANGED <<nft_admin, nft_paused, minters, burn_threshold, nft_min_repayment, nft_records, ledger>>

nft_accept_admin ==
    /\ nft_proposed # NoNftAccount
    /\ nft_admin' = nft_proposed
    /\ nft_proposed' = NoNftAccount
    /\ UNCHANGED <<nft_paused, minters, burn_threshold, nft_min_repayment, nft_records, ledger>>

nft_set_admin(a) ==
    /\ nft_admin # NoNftAccount
    /\ nft_admin' = a
    /\ nft_proposed' = NoNftAccount
    /\ UNCHANGED <<nft_paused, minters, burn_threshold, nft_min_repayment, nft_records, ledger>>

-----------------------------------------------------------------------------

NftUserNext ==
    \E caller \in NftAccounts, u \in Users :
        \/ \E s \in MintScores : mint(caller, u, s)
        \/ burn(caller, u)
        \/ \E to \in Users : transfer(caller, u, to)
        \/ \E r \in Repayments : update_score(caller, u, r)
        \/ \E points \in Penalties : decrease_score(caller, u, points)
        \/ \E delta \in ScoreDeltas : apply_score_delta(caller, u, delta)
        \/ seize_collateral(caller, u)
        \/ default_count[u] < MAX_DEFAULTS /\ record_default(caller, u)

NftAdminNext ==
    \/ \E u \in Users : approve_remint(u) \/ \E s \in MintScores : admin_remint(u, s)
    \/ \E a \in NftAccounts : \/ nft_initialize(a) \/ authorize_minter(a) \/ revoke_minter(a)
                              \/ nft_propose_admin(a) \/ nft_set_admin(a)
    \/ nft_accept_admin
    \/ \E flag \in BOOLEAN : nft_set_paused(flag)
    \/ \E threshold \in Thresholds : set_default_burn_threshold(threshold)
    \/ \E amount \in MinRepayments : nft_set_min_repayment_amount(amount)

NftNext ==
    \/ NftUserNext
    \/ NftAdminNext
    \/ ledger_advances /\ UNCHANGED <<nft_config, nft_records>>

NftSpec == NftInit /\ [][NftNext]_nft_vars

-----------------------------------------------------------------------------
(* Properties.                                                             *)

\* The types of the contract's storage; in particular no path stores a score above MAX_SCORE
\* or authorizes more than MAX_AUTHORIZED_MINTERS minters.
NftTypeOK ==
    /\ nft_admin \in NftAccounts \cup {NoNftAccount} /\ nft_proposed \in NftAccounts \cup {NoNftAccount}
    /\ nft_paused \in BOOLEAN
    /\ minters \subseteq NftAccounts /\ Cardinality(minters) <= MAX_AUTHORIZED_MINTERS
    /\ burn_threshold \in 1..MAX_ALLOWED_BURN_THRESHOLD /\ nft_min_repayment \in Nat
    /\ score \in [Users -> NoNft..MAX_SCORE]
    /\ seized \in [Users -> BOOLEAN] /\ burned \in [Users -> BOOLEAN]
    /\ default_count \in [Users -> Nat]
    /\ remint_approved \in [Users -> BOOLEAN] /\ transfer_after \in [Users -> Nat]

\* A seizure mark and a transfer cooldown belong to a token: whichever way the token went
\* (burn, the last default, transfer), none is left on a user without one, where it would
\* bind the next token.
MarksGoWithTheToken ==
    \A u \in Users : ~has_active_nft(u) => ~seized[u] /\ transfer_after[u] = 0

\* A burn voids the approval for a re-mint that was given before it, so admin_remint always
\* follows an approve_remint made after the burn.
ApprovalFollowsBurn == \A u \in Users : burned'[u] /\ ~burned[u] => ~remint_approved'[u]

\* A count of defaults has somebody it counts against: the holder of a token, or a user
\* whose token was burned and who can get another only by an approved re-mint or a transfer.
CountsHaveHolders ==
    \A u \in Users : default_count[u] > 0 => has_active_nft(u) \/ burned[u]

\* The token of u went to v in this step, to someone who had none.
moved(u, v) ==
    has_active_nft(u) /\ ~has_active_nft(u)' /\ ~has_active_nft(v) /\ has_active_nft(v)'

\* Defaults are not forgotten: a user's count falls only as the whole of it goes with the
\* token to another user, or where a transfer overwrites the count a burned user kept.
DefaultsKept ==
    \A u \in Users : default_count'[u] < default_count[u] =>
        \/ \E v \in Users : moved(u, v) /\ default_count'[v] = default_count[u]
        \/ burned[u] /\ burned'[u] /\ \E v \in Users : moved(v, u)
=============================================================================
