---------------------------- MODULE CreditProofs ----------------------------
(* What the two contracts the loan manager works with keep true, for every set   *)
(* of users, of accounts and of arguments: the credit NFT its records, and the   *)
(* lending pool its aggregates, where rounding never takes value from the shares *)
(* that stay.                                                                    *)
EXTENDS LendingPool, RemittanceNFT, DebtProofs

-----------------------------------------------------------------------------
(* The credit NFT.                                                               *)

\* The administration's half of the invariant.  Nothing is authorized before the contract
\* is initialized, so that the first admin fits under the limit on minters.
NftConfigInv ==
    /\ nft_admin \in NftAccounts \cup {NoNftAccount} /\ nft_proposed \in NftAccounts \cup {NoNftAccount}
    /\ nft_paused \in BOOLEAN
    /\ minters \subseteq NftAccounts /\ IsFiniteSet(minters)
    /\ Cardinality(minters) <= MAX_AUTHORIZED_MINTERS
    /\ nft_admin = NoNftAccount => minters = {} /\ nft_proposed = NoNftAccount
    /\ burn_threshold \in 1..MAX_ALLOWED_BURN_THRESHOLD /\ nft_min_repayment \in Nat
    /\ ledger \in Nat

NftRecordsTyped ==
    /\ score \in [Users -> NoNft..MAX_SCORE]
    /\ seized \in [Users -> BOOLEAN] /\ burned \in [Users -> BOOLEAN]
    /\ default_count \in [Users -> Nat]
    /\ remint_approved \in [Users -> BOOLEAN] /\ transfer_after \in [Users -> Nat]

\* The users' half.
NftRecordsInv == NftRecordsTyped /\ MarksGoWithTheToken /\ CountsHaveHolders

\* What a step may not do to the users' records.
NftRecordsStep == DefaultsKept /\ ApprovalFollowsBurn

\* The time a leaf is given, by each of the two provers that try it.
USE SMTT(20), ZenonT(30)

\* A step that leaves the users' records alone keeps all that is said of them.
LEMMA RecordsAlone ==
    ASSUME NftRecordsInv, UNCHANGED nft_records
    PROVE  NftRecordsInv' /\ NftRecordsStep
<1>1. NftRecordsTyped'
  BY ZenonT(30) DEF NftRecordsInv, NftRecordsTyped, nft_records
<1>2. MarksGoWithTheToken' /\ CountsHaveHolders'
  BY ZenonT(30) DEF NftRecordsInv, MarksGoWithTheToken, CountsHaveHolders, has_active_nft, nft_records
<1>3. NftRecordsStep
  BY DEF NftRecordsInv, NftRecordsTyped, NftRecordsStep, DefaultsKept, ApprovalFollowsBurn, nft_records
<1> QED BY <1>1, <1>2, <1>3, ZenonT(30) DEF NftRecordsInv

\* A token that is minted, or minted again, has a score in its range and forgets no default.
LEMMA MintKeeps ==
    ASSUME NftRecordsInv, NEW u \in Users, NEW s \in MintScores, NEW caller,
           mint(caller, u, s) \/ admin_remint(u, s)
    PROVE  NftRecordsInv' /\ NftRecordsStep
<1>0. smaller(s, MAX_SCORE) \in 0..MAX_SCORE
  BY NftAssumption DEF smaller
<1>1. NftRecordsTyped'
  <2>1. score' \in [Users -> NoNft..MAX_SCORE]
    <3>1. smaller(s, MAX_SCORE) \in NoNft..MAX_SCORE
      BY <1>0, NftAssumption DEF NoNft
    <3>2. score' = [score EXCEPT ![u] = smaller(s, MAX_SCORE)]
      BY ZenonT(30) DEF mint, admin_remint
    <3> QED BY <3>1, <3>2, ZenonT(30) DEF NftRecordsInv, NftRecordsTyped
  <2>2. /\ seized' \in [Users -> BOOLEAN] /\ burned' \in [Users -> BOOLEAN]
        /\ remint_approved' \in [Users -> BOOLEAN]
    BY ZenonT(30) DEF NftRecordsInv, NftRecordsTyped, mint, admin_remint
  <2>3. default_count' \in [Users -> Nat] /\ transfer_after' \in [Users -> Nat]
    BY DEF NftRecordsInv, NftRecordsTyped, mint, admin_remint
  <2> QED BY <2>1, <2>2, <2>3, ZenonT(30) DEF NftRecordsTyped
<1>2. MarksGoWithTheToken' /\ CountsHaveHolders'
  BY <1>0 DEF NftRecordsInv, NftRecordsTyped, MarksGoWithTheToken, CountsHaveHolders, has_active_nft,
              mint, admin_remint, NoNft
<1>3. NftRecordsStep
  BY DEF NftRecordsInv, NftRecordsTyped, NftRecordsStep, DefaultsKept, ApprovalFollowsBurn,
         mint, admin_remint
<1> QED BY <1>1, <1>2, <1>3, ZenonT(30) DEF NftRecordsInv

\* A step that changes the score of a holder only.
LEMMA ScoreKeeps ==
    ASSUME NftRecordsInv, NEW u \in Users, has_active_nft(u), NEW x \in 0..MAX_SCORE,
           score' = [score EXCEPT ![u] = x],
           UNCHANGED <<seized, burned, default_count, remint_approved, transfer_after>>
    PROVE  NftRecordsInv' /\ NftRecordsStep
<1>1. NftRecordsTyped'
  BY NftAssumption DEF NftRecordsInv, NftRecordsTyped, NoNft
<1>2. MarksGoWithTheToken' /\ CountsHaveHolders'
  BY DEF NftRecordsInv, NftRecordsTyped, MarksGoWithTheToken, CountsHaveHolders, has_active_nft, NoNft
<1>3. NftRecordsStep
  BY DEF NftRecordsInv, NftRecordsTyped, NftRecordsStep, DefaultsKept, ApprovalFollowsBurn
<1> QED BY <1>1, <1>2, <1>3, ZenonT(30) DEF NftRecordsInv

\* A burn leaves the count where it is; the last default adds to it in the same step.
LEMMA BurnKeeps ==
    ASSUME NftRecordsInv, NEW u \in Users, has_active_nft(u), burn_internal(u),
           \/ UNCHANGED default_count
           \/ default_count' = [default_count EXCEPT ![u] = @ + 1]
    PROVE  NftRecordsInv' /\ NftRecordsStep
<1>1. NftRecordsTyped'
  BY NftAssumption DEF NftRecordsInv, NftRecordsTyped, NoNft, burn_internal
<1>2. MarksGoWithTheToken' /\ CountsHaveHolders'
  BY ZenonT(30) DEF NftRecordsInv, NftRecordsTyped, MarksGoWithTheToken, CountsHaveHolders, has_active_nft, NoNft,
         burn_internal
<1>3. NftRecordsStep
  BY DEF NftRecordsInv, NftRecordsTyped, NftRecordsStep, DefaultsKept, ApprovalFollowsBurn, burn_internal
<1> QED BY <1>1, <1>2, <1>3, ZenonT(30) DEF NftRecordsInv

\* A mark of seizure on a holder, with or without a default to count.
LEMMA SeizeKeeps ==
    ASSUME NftRecordsInv, NEW u \in Users, has_active_nft(u),
           seized' = [seized EXCEPT ![u] = TRUE],
           \/ UNCHANGED default_count
           \/ default_count' = [default_count EXCEPT ![u] = @ + 1],
           UNCHANGED <<score, burned, remint_approved, transfer_after>>
    PROVE  NftRecordsInv' /\ NftRecordsStep
<1>1. NftRecordsTyped'
  BY DEF NftRecordsInv, NftRecordsTyped
<1>2. MarksGoWithTheToken' /\ CountsHaveHolders'
  BY ZenonT(30) DEF NftRecordsInv, NftRecordsTyped, MarksGoWithTheToken, CountsHaveHolders, has_active_nft
<1>3. NftRecordsStep
  BY DEF NftRecordsInv, NftRecordsTyped, NftRecordsStep, DefaultsKept, ApprovalFollowsBurn
<1> QED BY <1>1, <1>2, <1>3, ZenonT(30) DEF NftRecordsInv

\* An approval touches nothing else.
LEMMA ApproveKeeps ==
    ASSUME NftRecordsInv, NEW u \in Users, approve_remint(u)
    PROVE  NftRecordsInv' /\ NftRecordsStep
<1>1. NftRecordsTyped'
  BY ZenonT(30) DEF NftRecordsInv, NftRecordsTyped, approve_remint
<1>2. MarksGoWithTheToken' /\ CountsHaveHolders'
  BY ZenonT(30) DEF NftRecordsInv, NftRecordsTyped, MarksGoWithTheToken, CountsHaveHolders, has_active_nft,
         approve_remint
<1>3. NftRecordsStep
  BY DEF NftRecordsInv, NftRecordsTyped, NftRecordsStep, DefaultsKept, ApprovalFollowsBurn, approve_remint
<1> QED BY <1>1, <1>2, <1>3, ZenonT(30) DEF NftRecordsInv

\* A transfer takes the score, the marks and the count along, and leaves none behind.
LEMMA TransferKeeps ==
    ASSUME NftRecordsInv, ledger \in Nat, NEW caller, NEW from \in Users, NEW to \in Users,
           transfer(caller, from, to)
    PROVE  NftRecordsInv' /\ NftRecordsStep
<1>0. /\ from # to /\ has_active_nft(from) /\ ~has_active_nft(to)
      /\ score' = [score EXCEPT ![to] = score[from], ![from] = NoNft]
      /\ default_count' = IF default_count[from] = 0 THEN default_count
                          ELSE [default_count EXCEPT ![to] = default_count[from], ![from] = 0]
      /\ seized' = IF seized[from] THEN [seized EXCEPT ![to] = TRUE, ![from] = FALSE] ELSE seized
      /\ remint_approved' = [remint_approved EXCEPT ![from] = FALSE]
      /\ transfer_after' = [transfer_after EXCEPT ![from] = 0,
                                                  ![to] = ledger + TRANSFER_COOLDOWN_LEDGERS]
      /\ burned' = burned
  BY ZenonT(30) DEF transfer
<1>1. NftRecordsTyped'
  <2>1. score' \in [Users -> NoNft..MAX_SCORE]
    BY <1>0, NftAssumption DEF NftRecordsInv, NftRecordsTyped, NoNft
  <2>2. /\ seized' \in [Users -> BOOLEAN] /\ burned' \in [Users -> BOOLEAN]
        /\ remint_approved' \in [Users -> BOOLEAN]
    BY <1>0, ZenonT(30) DEF NftRecordsInv, NftRecordsTyped
  <2>3. ledger + TRANSFER_COOLDOWN_LEDGERS \in Nat
    BY NftAssumption
  <2>4. transfer_after' \in [Users -> Nat]
    BY <1>0, <2>3, ZenonT(30) DEF NftRecordsInv, NftRecordsTyped
  <2>5. default_count' \in [Users -> Nat]
    BY <1>0, ZenonT(30) DEF NftRecordsInv, NftRecordsTyped
  <2> QED BY <2>1, <2>2, <2>4, <2>5, ZenonT(30) DEF NftRecordsTyped
<1>2. has_active_nft(to)' /\ ~has_active_nft(from)'
  BY <1>0, ZenonT(30) DEF NftRecordsInv, NftRecordsTyped, has_active_nft
<1>3. \A u \in Users \ {from, to} : /\ score'[u] = score[u] /\ seized'[u] = seized[u]
                                    /\ transfer_after'[u] = transfer_after[u]
                                    /\ default_count'[u] = default_count[u]
  BY <1>0, ZenonT(30) DEF NftRecordsInv, NftRecordsTyped
<1>4. ~seized'[from] /\ transfer_after'[from] = 0 /\ default_count'[from] = 0
  BY <1>0, ZenonT(30) DEF NftRecordsInv, NftRecordsTyped
<1>5. MarksGoWithTheToken' /\ CountsHaveHolders'
  BY <1>0, <1>2, <1>3, <1>4
     DEF NftRecordsInv, NftRecordsTyped, MarksGoWithTheToken, CountsHaveHolders, has_active_nft
<1>6. default_count'[to] = default_count[from] \/ default_count'[to] = default_count[to]
  BY <1>0, ZenonT(30) DEF NftRecordsInv, NftRecordsTyped
<1>7. DefaultsKept
  <2> SUFFICES ASSUME NEW u \in Users, default_count'[u] < default_count[u]
               PROVE  \/ \E v \in Users : moved(u, v) /\ default_count'[v] = default_count[u]
                      \/ burned[u] /\ burned'[u] /\ \E v \in Users : moved(v, u)
    BY ZenonT(30) DEF DefaultsKept
  <2>1. moved(from, to)
    BY <1>0, <1>2, ZenonT(30) DEF moved
  <2>2. u \in {from, to}
    BY <1>3 DEF NftRecordsInv, NftRecordsTyped
  <2>3. CASE u = from
    <3>1. default_count[from] # 0
      BY <2>3, <1>4
    <3>2. default_count'[to] = default_count[from]
      BY <3>1, <1>0, ZenonT(30) DEF NftRecordsInv, NftRecordsTyped
    <3> QED BY <2>3, <2>1, <3>2, ZenonT(30)
  <2>4. CASE u = to
    <3>1. default_count[to] > 0
      BY <2>4, <1>1 DEF NftRecordsInv, NftRecordsTyped
    <3>2. burned[to]
      BY <3>1, <1>0, ZenonT(30) DEF NftRecordsInv, CountsHaveHolders
    <3> QED BY <2>4, <2>1, <3>2, <1>0, ZenonT(30)
  <2> QED BY <2>2, <2>3, <2>4, ZenonT(30)
<1>8. ApprovalFollowsBurn
  BY <1>0, ZenonT(30) DEF ApprovalFollowsBurn
<1> QED BY <1>1, <1>5, <1>7, <1>8, ZenonT(30) DEF NftRecordsInv, NftRecordsStep

\* A call that updates a score writes one within the bounds.
LEMMA ScoresInRange ==
    ASSUME NEW x \in 0..MAX_SCORE
    PROVE  /\ \A n \in Nat : smaller(x + n, MAX_SCORE) \in 0..MAX_SCORE
           /\ \A n \in Nat : decreased(x, n) \in 0..MAX_SCORE
           /\ \A n \in Int : adjusted(x, n) \in 0..MAX_SCORE
  BY NftAssumption DEF smaller, larger, decreased, adjusted

\* Every step keeps what is said of the users' records.
LEMMA NftRecordsKept ==
    ASSUME NftRecordsInv, ledger \in Nat, NftNext
    PROVE  NftRecordsInv' /\ NftRecordsStep
<1>1. ASSUME NEW caller \in NftAccounts, NEW u \in Users, NEW s \in MintScores, mint(caller, u, s)
      PROVE  NftRecordsInv' /\ NftRecordsStep
  BY <1>1, MintKeeps, ZenonT(30)
<1>2. ASSUME NEW caller \in NftAccounts, NEW u \in Users, burn(caller, u)
      PROVE  NftRecordsInv' /\ NftRecordsStep
  BY <1>2, BurnKeeps, ZenonT(30) DEF burn
<1>3. ASSUME NEW caller \in NftAccounts, NEW u \in Users, NEW to \in Users, transfer(caller, u, to)
      PROVE  NftRecordsInv' /\ NftRecordsStep
  BY <1>3, TransferKeeps, ZenonT(30)
<1>4. ASSUME NEW u \in Users, has_active_nft(u)
      PROVE  score[u] \in 0..MAX_SCORE
  BY <1>4, NftAssumption DEF NftRecordsInv, NftRecordsTyped, has_active_nft, NoNft
<1>5. ASSUME NEW caller \in NftAccounts, NEW u \in Users, NEW r \in Repayments,
             update_score(caller, u, r)
      PROVE  NftRecordsInv' /\ NftRecordsStep
  <2>1. r \div STROOPS_PER_SCORE_POINT \in Nat
    BY <1>5, NftAssumption DEF update_score
  <2>2. score[u] \in 0..MAX_SCORE
    BY <1>4, <1>5, ZenonT(30) DEF update_score
  <2>3. smaller(score[u] + (r \div STROOPS_PER_SCORE_POINT), MAX_SCORE) \in 0..MAX_SCORE
    BY <2>1, <2>2, ScoresInRange, ZenonT(30)
  <2> QED BY <1>5, <2>3, ScoreKeeps, ZenonT(30) DEF update_score, other_than_score
<1>6. ASSUME NEW caller \in NftAccounts, NEW u \in Users, NEW points \in Penalties,
             decrease_score(caller, u, points)
      PROVE  NftRecordsInv' /\ NftRecordsStep
  <2>1. points \in Nat /\ score[u] \in 0..MAX_SCORE
    BY <1>4, <1>6, NftAssumption, ZenonT(30) DEF decrease_score
  <2>2. decreased(score[u], points) \in 0..MAX_SCORE
    BY <2>1, ScoresInRange, ZenonT(30)
  <2> QED BY <1>6, <2>2, ScoreKeeps, ZenonT(30) DEF decrease_score, other_than_score
<1>7. ASSUME NEW caller \in NftAccounts, NEW u \in Users, NEW delta \in ScoreDeltas,
             apply_score_delta(caller, u, delta)
      PROVE  NftRecordsInv' /\ NftRecordsStep
  <2>1. delta \in Int /\ score[u] \in 0..MAX_SCORE
    BY <1>4, <1>7, NftAssumption, ZenonT(30) DEF apply_score_delta
  <2>2. adjusted(score[u], delta) \in 0..MAX_SCORE
    BY <2>1, ScoresInRange, ZenonT(30)
  <2> QED BY <1>7, <2>2, ScoreKeeps, ZenonT(30) DEF apply_score_delta, other_than_score
<1>8. ASSUME NEW caller \in NftAccounts, NEW u \in Users, seize_collateral(caller, u)
      PROVE  NftRecordsInv' /\ NftRecordsStep
  BY <1>8, SeizeKeeps, ZenonT(30) DEF seize_collateral
<1>9. ASSUME NEW caller \in NftAccounts, NEW u \in Users, record_default(caller, u)
      PROVE  NftRecordsInv' /\ NftRecordsStep
  BY <1>9, SeizeKeeps, BurnKeeps, ZenonT(30) DEF record_default
<1>10. CASE NftUserNext
  BY <1>10, <1>1, <1>2, <1>3, <1>5, <1>6, <1>7, <1>8, <1>9, ZenonT(30) DEF NftUserNext
<1>11. ASSUME NEW u \in Users, NEW s \in MintScores, admin_remint(u, s)
       PROVE  NftRecordsInv' /\ NftRecordsStep
  BY <1>11, MintKeeps, ZenonT(30)
<1>12. CASE NftAdminNext
  <2>1. \/ \E u \in Users : approve_remint(u)
        \/ \E u \in Users, s \in MintScores : admin_remint(u, s)
        \/ UNCHANGED nft_records
    BY <1>12, ZenonT(30) DEF NftAdminNext, nft_initialize, authorize_minter, revoke_minter, nft_propose_admin,
                 nft_set_admin, nft_accept_admin, nft_set_paused, set_default_burn_threshold,
                 nft_set_min_repayment_amount
  <2> QED BY <2>1, ApproveKeeps, <1>11, RecordsAlone, ZenonT(30)
<1>13. CASE ledger_advances /\ UNCHANGED <<nft_config, nft_records>>
  BY <1>13, RecordsAlone, ZenonT(30)
<1> QED BY <1>10, <1>12, <1>13, ZenonT(30) DEF NftNext

\* Every step keeps what is said of the administration.
LEMMA NftConfigKept ==
    ASSUME NftConfigInv, NftNext
    PROVE  NftConfigInv'
<1>1. CASE UNCHANGED nft_config /\ ledger' \in Nat
  BY <1>1, ZenonT(30) DEF NftConfigInv, nft_config
<1>2. CASE NftUserNext
  <2>1. UNCHANGED <<nft_config, ledger>>
    BY <1>2, ZenonT(30) DEF NftUserNext, mint, burn, transfer, update_score, decrease_score, apply_score_delta,
                seize_collateral, record_default, other_than_score
  <2> QED BY <2>1, <1>1, ZenonT(30) DEF NftConfigInv
<1>3. ASSUME NEW m \in NftAccounts, NEW S, S \subseteq NftAccounts, IsFiniteSet(S)
      PROVE  /\ IsFiniteSet(S \cup {m}) /\ IsFiniteSet(S \ {m})
             /\ Cardinality(S) \in Nat
             /\ Cardinality(S \ {m}) <= Cardinality(S)
             /\ Cardinality(S \cup {m}) = IF m \in S THEN Cardinality(S) ELSE Cardinality(S) + 1
  <2>1. Cardinality(S) \in Nat
    BY <1>3, FS_CardinalityType, ZenonT(30)
  <2>2. /\ IsFiniteSet(S \cup {m})
        /\ Cardinality(S \cup {m}) = IF m \in S THEN Cardinality(S) ELSE Cardinality(S) + 1
    BY <1>3, FS_AddElement, ZenonT(30)
  <2>3. /\ IsFiniteSet(S \ {m})
        /\ Cardinality(S \ {m}) = IF m \in S THEN Cardinality(S) - 1 ELSE Cardinality(S)
    BY <1>3, FS_RemoveElement, ZenonT(30)
  <2> QED BY <2>1, <2>2, <2>3
<1>4. ASSUME NEW a \in NftAccounts, nft_initialize(a)
      PROVE  NftConfigInv'
  <2>1. minters = {}
    BY <1>4, ZenonT(30) DEF nft_initialize, NftConfigInv
  <2>2. minters' = {a}
    BY <2>1, <1>4, ZenonT(30) DEF nft_initialize
  <2>3. IsFiniteSet({a}) /\ Cardinality({a}) = 1
    BY FS_Singleton, ZenonT(30)
  <2>4. IsFiniteSet(minters') /\ Cardinality(minters') <= MAX_AUTHORIZED_MINTERS
    BY <2>2, <2>3, NftAssumption
  <2>5. a # NoNftAccount /\ burn_threshold' \in 1..MAX_ALLOWED_BURN_THRESHOLD
    BY <1>4, NftAssumption, ZenonT(30) DEF nft_initialize
  <2> QED BY <2>2, <2>4, <2>5, <1>4, ZenonT(30) DEF nft_initialize, NftConfigInv
<1>5. ASSUME NEW m \in NftAccounts, authorize_minter(m)
      PROVE  NftConfigInv'
  <2>1. IsFiniteSet(minters') /\ Cardinality(minters') <= MAX_AUTHORIZED_MINTERS
    BY <1>5, <1>3, NftAssumption DEF authorize_minter, NftConfigInv
  <2> QED BY <2>1, <1>5, ZenonT(30) DEF authorize_minter, NftConfigInv
<1>6. ASSUME NEW m \in NftAccounts, revoke_minter(m)
      PROVE  NftConfigInv'
  <2>1. IsFiniteSet(minters') /\ Cardinality(minters') <= MAX_AUTHORIZED_MINTERS
    <3>1. /\ IsFiniteSet(minters \ {m}) /\ Cardinality(minters) \in Nat
          /\ Cardinality(minters \ {m}) <= Cardinality(minters)
      BY <1>3, ZenonT(30) DEF NftConfigInv
    <3>2. Cardinality(minters \ {m}) \in Nat
      BY <3>1, FS_CardinalityType, ZenonT(30)
    <3>3. Cardinality(minters \ {m}) <= MAX_AUTHORIZED_MINTERS
      BY <3>1, <3>2, NftAssumption DEF NftConfigInv
    <3> QED BY <3>1, <3>3, <1>6, ZenonT(30) DEF revoke_minter
  <2> QED BY <2>1, <1>6, ZenonT(30) DEF revoke_minter, NftConfigInv
<1>7. ASSUME NEW a \in NftAccounts, nft_propose_admin(a) \/ nft_set_admin(a)
      PROVE  NftConfigInv'
  BY <1>7, NftAssumption, ZenonT(30) DEF nft_propose_admin, nft_set_admin, NftConfigInv
<1>8. CASE nft_accept_admin
  BY <1>8, ZenonT(30) DEF nft_accept_admin, NftConfigInv
<1>9. ASSUME NEW flag \in BOOLEAN, nft_set_paused(flag)
      PROVE  NftConfigInv'
  BY <1>9, ZenonT(30) DEF nft_set_paused, NftConfigInv
<1>10. ASSUME NEW threshold \in Thresholds, set_default_burn_threshold(threshold)
       PROVE  NftConfigInv'
  BY <1>10, ZenonT(30) DEF set_default_burn_threshold, NftConfigInv
<1>11. ASSUME NEW amount \in MinRepayments, nft_set_min_repayment_amount(amount)
       PROVE  NftConfigInv'
  BY <1>11, NftAssumption DEF nft_set_min_repayment_amount, NftConfigInv
<1>12. CASE \E u \in Users : approve_remint(u) \/ \E s \in MintScores : admin_remint(u, s)
  <2>1. UNCHANGED <<nft_config, ledger>>
    BY <1>12, ZenonT(30) DEF approve_remint, admin_remint
  <2> QED BY <2>1, <1>1, ZenonT(30) DEF NftConfigInv
<1>13. CASE NftAdminNext
  BY <1>13, <1>4, <1>5, <1>6, <1>7, <1>8, <1>9, <1>10, <1>11, <1>12, ZenonT(30) DEF NftAdminNext
<1>14. CASE ledger_advances /\ UNCHANGED <<nft_config, nft_records>>
  BY <1>14, <1>1 DEF ledger_advances, NftConfigInv
<1> QED BY <1>2, <1>13, <1>14, ZenonT(30) DEF NftNext

NftInv == NftConfigInv /\ NftRecordsInv

\* The credit history of the NFT as the runs check it: the states, and the steps.
CreditHistoryStays ==
    /\ [](NftTypeOK /\ MarksGoWithTheToken /\ CountsHaveHolders)
    /\ [][DefaultsKept /\ ApprovalFollowsBurn]_nft_vars

\* The inductive invariant of the NFT: the two halves support each other only through the
\* ledger number.
THEOREM NftInvariant == NftSpec => []NftInv
<1>1. NftInit => NftInv
  <2> SUFFICES ASSUME NftInit PROVE NftInv
    OBVIOUS
  <2>1. IsFiniteSet(minters) /\ Cardinality(minters) = 0
    BY FS_EmptySet, ZenonT(30) DEF NftInit
  <2>2. NftConfigInv
    <3>1. Cardinality(minters) <= MAX_AUTHORIZED_MINTERS
      BY <2>1, NftAssumption
    <3>2. burn_threshold \in 1..MAX_ALLOWED_BURN_THRESHOLD /\ nft_min_repayment \in Nat /\ ledger \in Nat
      BY NftAssumption, ZenonT(30) DEF NftInit, LedgerInit
    <3>3. minters = {} /\ nft_admin = NoNftAccount /\ nft_proposed = NoNftAccount /\ nft_paused = FALSE
      BY ZenonT(30) DEF NftInit
    <3> QED BY <2>1, <3>1, <3>2, <3>3, ZenonT(30) DEF NftConfigInv
  <2>3. -1 \in NoNft..MAX_SCORE
    BY NftAssumption DEF NoNft
  <2>4. NftRecordsTyped
    BY <2>3, ZenonT(30) DEF NftInit, NftRecordsTyped, NoNft
  <2>5. MarksGoWithTheToken /\ CountsHaveHolders
    BY DEF NftInit, MarksGoWithTheToken, CountsHaveHolders
  <2> QED BY <2>2, <2>4, <2>5, ZenonT(30) DEF NftInv, NftRecordsInv
<1>2. NftInv /\ [NftNext]_nft_vars => NftInv'
  <2> SUFFICES ASSUME NftInv, [NftNext]_nft_vars PROVE NftInv'
    OBVIOUS
  <2>1. CASE NftNext
    BY <2>1, NftRecordsKept, NftConfigKept, ZenonT(30) DEF NftInv, NftConfigInv
  <2>2. CASE UNCHANGED nft_vars
    <3>1. NftConfigInv'
      BY <2>2, ZenonT(30) DEF nft_vars, nft_config, NftInv, NftConfigInv
    <3> QED BY <3>1, <2>2, RecordsAlone, ZenonT(30) DEF nft_vars, NftInv
  <2> QED BY <2>1, <2>2, ZenonT(30)
<1> QED BY <1>1, <1>2, PTL DEF NftSpec

\* Defaults stay on record whoever holds, burns, moves or mints the token again: a count
\* falls only as it moves with the token whole, or where a transfer overwrites the one of a
\* burned user; marks go with the token, and an approval precedes no burn it survives
\* (record_default, burn_internal, transfer, admin_remint).
THEOREM HistoryIsKept == NftSpec => CreditHistoryStays
<1>1. NftInv => NftTypeOK /\ MarksGoWithTheToken /\ CountsHaveHolders
  BY ZenonT(30) DEF NftInv, NftConfigInv, NftRecordsInv, NftRecordsTyped, NftTypeOK
<1>2. NftInv /\ [NftNext]_nft_vars => [DefaultsKept /\ ApprovalFollowsBurn]_nft_vars
  BY NftRecordsKept, ZenonT(30) DEF NftInv, NftConfigInv, NftRecordsStep
<1> QED BY <1>1, <1>2, NftInvariant, PTL DEF NftSpec, CreditHistoryStays

-----------------------------------------------------------------------------
(* Arithmetic of the share price.                                               *)

\* Shares minted for a deposit never cost the others: A assets, B shares, q minted for a.
LEMMA MintPrice ==
    ASSUME NEW A \in Nat \ {0}, NEW B \in Nat \ {0}, NEW a \in Nat
    PROVE  (A + a) * B >= A * (B + ((a * B) \div A))
<1> DEFINE q == (a * B) \div A
<1>1. a * B \in Int
  OBVIOUS
<1>2. q \in Int /\ q * A <= a * B
  BY <1>1, DivBounds, ZenonT(30)
<1> HIDE DEF q
<1>3. (A + a) * B = A * B + a * B
  OBVIOUS
<1>4. A * (B + q) = A * B + q * A
  BY <1>2
<1>5. (A + a) * B >= A * (B + q)
  BY <1>2, <1>3, <1>4
<1> QED BY <1>5, ZenonT(30) DEF q

\* Nor do assets paid for shares: q paid for n of them; and some remain while shares do.
LEMMA RedeemPrice ==
    ASSUME NEW A \in Nat \ {0}, NEW B \in Nat \ {0}, NEW n \in Nat, n < B
    PROVE  /\ (A - ((n * A) \div B)) * B >= A * (B - n)
           /\ A - ((n * A) \div B) > 0
<1> DEFINE q == (n * A) \div B
<1>1. n * A \in Int
  OBVIOUS
<1>2. q \in Int /\ q * B <= n * A
  BY <1>1, DivBounds, ZenonT(30)
<1> HIDE DEF q
<1>3. (A - q) * B = A * B - q * B
  BY <1>2
<1>4. A * (B - n) = A * B - n * A
  OBVIOUS
<1>5. (A - q) * B >= A * (B - n)
  BY <1>2, <1>3, <1>4
<1>6. A * (B - n) > 0
  OBVIOUS
<1>7. (A - q) * B > 0
  BY <1>2, <1>5, <1>6
<1>8. A - q > 0
  BY <1>2, <1>7
<1> QED BY <1>5, <1>8, ZenonT(30) DEF q

-----------------------------------------------------------------------------
(* The inductive invariant, in three parts.                                     *)

ConfigTyped ==
    /\ pool_admin \in Accounts \cup {NoAccount} /\ proposed_admin \in Accounts \cup {NoAccount}
    /\ pool_paused \in BOOLEAN /\ breaker \in BOOLEAN /\ loan_manager \in BOOLEAN
    /\ withdrawal_cooldown \in 0..MAX_WITHDRAWAL_COOLDOWN_LEDGERS
    /\ max_pool_size \in Nat /\ pool_outstanding \in Nat

PositionsInv ==
    /\ shares \in [Providers -> Nat] /\ deposit_ledger \in [Providers -> Nat]
    /\ depositor_count \in Nat /\ total_shares \in Nat /\ total_deposits \in Int
    /\ ledger \in Nat \ {0}
    /\ AggregatesAgree

\* As long as no loss was recorded a share is worth at least one unit.
BooksInv ==
    /\ total_managed_assets \in Int /\ total_yield_distributed \in Nat /\ pool_balance \in Nat
    /\ lossy \in BOOLEAN
    /\ PricePositive
    /\ ~lossy => total_shares <= total_managed_assets

PoolInv == ConfigTyped /\ PositionsInv /\ BooksInv

PoolStep == SharePriceNeverFalls /\ StoppedPoolHolds

Assets == total_managed_assets + VIRTUAL_OFFSET
Shares == total_shares + VIRTUAL_OFFSET

\* The two divisors are positive, and no provider has more shares than there are.
LEMMA Divisors ==
    ASSUME PoolInv
    PROVE  /\ Assets \in Nat \ {0} /\ Shares \in Nat \ {0}
           /\ \A p \in Providers : shares[p] <= total_shares
<1>1. Assets \in Nat \ {0} /\ Shares \in Nat \ {0}
  BY PoolAssumption DEF PoolInv, PositionsInv, BooksInv, PricePositive, Assets, Shares
<1>2. \A p \in Providers : shares[p] <= total_shares
  <2> SUFFICES ASSUME NEW p \in Providers PROVE shares[p] <= total_shares
    OBVIOUS
  <2>1. \A x \in Providers : shares[x] \in Nat
    BY ZenonT(30) DEF PoolInv, PositionsInv
  <2> QED BY <2>1, PoolAssumption, SumCovers, ZenonT(30) DEF PoolInv, PositionsInv, AggregatesAgree
<1> QED BY <1>1, <1>2, ZenonT(30)

\* The total follows the position that changes.
LEMMA OnePosition ==
    ASSUME NEW f \in [Providers -> Nat], NEW p \in Providers, NEW n \in Nat
    PROVE  SumFunctionOnSet([f EXCEPT ![p] = n], Providers) = SumFunctionOnSet(f, Providers) + n - f[p]
<1> DEFINE h == [f EXCEPT ![p] = n]
<1>1. /\ \A x \in Providers : f[x] \in Int /\ h[x] \in Int
      /\ \A x \in Providers \ {p} : f[x] = h[x]
      /\ h[p] = n
  OBVIOUS
<1> HIDE DEF h
<1>2. SumFunctionOnSet(h, Providers) = SumFunctionOnSet(f, Providers) + h[p] - f[p]
  BY <1>1, PoolAssumption, SumUpdate
<1> QED BY <1>1, <1>2, ZenonT(30) DEF h

\* One position changes to n, and the aggregates follow.
LEMMA PositionKeeps ==
    ASSUME PositionsInv, NEW p \in Providers, NEW n \in Nat, NEW d \in Nat, d > 0 <=> n > 0,
           shares' = [shares EXCEPT ![p] = n],
           deposit_ledger' = [deposit_ledger EXCEPT ![p] = d],
           total_shares' = total_shares + n - shares[p],
           depositor_count' = depositor_count + (IF n > 0 THEN 1 ELSE 0)
                                              - (IF shares[p] > 0 THEN 1 ELSE 0),
           total_deposits' \in Int, ledger' = ledger
    PROVE  PositionsInv'
<1>1. shares' \in [Providers -> Nat] /\ deposit_ledger' \in [Providers -> Nat]
  BY ZenonT(30) DEF PositionsInv
<1>2. /\ \A x \in Providers : shares[x] \in Int /\ shares'[x] \in Int
      /\ \A x \in Providers : shares[x] \in Nat /\ shares'[x] \in Nat
      /\ \A x \in Providers \ {p} : shares[x] = shares'[x]
      /\ shares'[p] = n
  BY <1>1 DEF PositionsInv
<1>3. SumFunctionOnSet(shares', Providers) = SumFunctionOnSet(shares, Providers) + n - shares[p]
  BY OnePosition, ZenonT(30) DEF PositionsInv
<1>4. total_shares' = SumFunctionOnSet(shares', Providers)
  BY <1>3, ZenonT(30) DEF PositionsInv, AggregatesAgree
<1>5. total_shares' \in Nat
  <2>1. Providers \in SUBSET Providers
    OBVIOUS
  <2>2. SumFunctionOnSet(shares', Providers) \in Nat
    BY <2>1, <1>2, PoolAssumption, SumNat, ZenonT(30)
  <2> QED BY <2>2, <1>4, ZenonT(30)
<1> DEFINE D == {x \in Providers : shares[x] > 0}
           E == {x \in Providers : shares'[x] > 0}
<1>6. IsFiniteSet(D) /\ IsFiniteSet(E)
  BY PoolAssumption, FS_Subset, ZenonT(30)
<1>7. /\ E = IF n > 0 THEN D \cup {p} ELSE D \ {p}
      /\ p \in D <=> shares[p] > 0
  BY <1>2, ZenonT(30)
<1>8. depositor_count = Cardinality(D) /\ Cardinality(D) \in Nat /\ Cardinality(E) \in Nat
  BY <1>6, FS_CardinalityType, ZenonT(30) DEF PositionsInv, AggregatesAgree
<1>9. depositor_count' = Cardinality(E)
  <2> HIDE DEF D, E
  <2>1. CASE n > 0
    <3>1. Cardinality(D \cup {p}) = IF p \in D THEN Cardinality(D) ELSE Cardinality(D) + 1
      BY <1>6, FS_AddElement, ZenonT(30)
    <3> QED BY <2>1, <3>1, <1>7, <1>8
  <2>2. CASE ~(n > 0)
    <3>1. Cardinality(D \ {p}) = IF p \in D THEN Cardinality(D) - 1 ELSE Cardinality(D)
      BY <1>6, FS_RemoveElement, ZenonT(30)
    <3> QED BY <2>2, <3>1, <1>7, <1>8
  <2> QED BY <2>1, <2>2, ZenonT(30)
<1>10. \A x \in Providers : deposit_ledger'[x] > 0 <=> shares'[x] > 0
  BY <1>1, ZenonT(30) DEF PositionsInv, AggregatesAgree
<1>11. AggregatesAgree'
  BY <1>4, <1>9, <1>10, ZenonT(30) DEF AggregatesAgree
<1> QED BY <1>1, <1>5, <1>8, <1>9, <1>11, ZenonT(30) DEF PositionsInv

\* deposit keeps the invariant and the price.
LEMMA DepositKeeps ==
    ASSUME PoolInv, NEW p \in Providers, NEW amount \in Amounts, NEW min \in MinOuts,
           deposit(p, amount, min)
    PROVE  PoolInv' /\ PoolStep
<1> DEFINE q == calc_shares_to_mint(amount, total_managed_assets, total_shares)
<1>1. q = (amount * Shares) \div Assets /\ amount \in Nat \ {0}
  BY PoolAssumption DEF calc_shares_to_mint, Assets, Shares, deposit
<1>2. amount * Shares \in Int /\ Assets \in Nat \ {0} /\ Shares \in Nat \ {0}
  BY <1>1, Divisors
<1>3. q \in Int /\ q * Assets <= amount * Shares
  BY <1>1, <1>2, DivBounds, ZenonT(30)
<1>4. (Assets + amount) * Shares >= Assets * (Shares + q)
  BY <1>1, <1>2, MintPrice, ZenonT(30)
<1>5. /\ q > 0
      /\ depositor_count' = IF shares[p] = 0 THEN depositor_count + 1 ELSE depositor_count
      /\ shares' = [shares EXCEPT ![p] = shares[p] + q]
      /\ deposit_ledger' = [deposit_ledger EXCEPT ![p] = ledger]
      /\ total_shares' = total_shares + q
      /\ total_deposits' = total_deposits + amount
      /\ total_managed_assets' = total_managed_assets + amount
      /\ pool_balance' = pool_balance + amount
      /\ UNCHANGED <<pool_config, total_yield_distributed, lossy, pool_outstanding, blocked, ledger>>
      /\ ~pool_paused /\ (breaker => "deposit" \notin blocked)
  BY ZenonT(30) DEF deposit, counts_as_new, assert_circuit_ok
<1> HIDE DEF q
<1>6. ConfigTyped'
  BY <1>5, ZenonT(30) DEF PoolInv, ConfigTyped, pool_config
<1>7. PositionsInv'
  <2>1. /\ shares[p] \in Nat /\ shares[p] + q \in Nat /\ shares[p] + q > 0 /\ total_shares \in Nat
        /\ depositor_count \in Nat /\ ledger \in Nat /\ ledger > 0
    BY <1>3, <1>5 DEF PoolInv, PositionsInv
  <2>2. total_shares' = total_shares + (shares[p] + q) - shares[p]
    BY <1>3, <1>5, <2>1
  <2>3. depositor_count' = depositor_count + (IF shares[p] + q > 0 THEN 1 ELSE 0)
                                           - (IF shares[p] > 0 THEN 1 ELSE 0)
    BY <1>5, <2>1
  <2>4. total_deposits' \in Int /\ ledger' = ledger
    BY <1>1, <1>5 DEF PoolInv, PositionsInv
  <2> DEFINE n == shares[p] + q
  <2>5. /\ n \in Nat /\ n > 0 /\ shares' = [shares EXCEPT ![p] = n]
        /\ total_shares' = total_shares + n - shares[p]
        /\ depositor_count' = depositor_count + (IF n > 0 THEN 1 ELSE 0)
                                           - (IF shares[p] > 0 THEN 1 ELSE 0)
    BY <1>5, <2>1, <2>2, <2>3, ZenonT(30)
  <2> HIDE DEF n
  <2> QED BY <1>5, <2>1, <2>4, <2>5, PositionKeeps, ZenonT(30) DEF PoolInv
<1>8. BooksInv'
  <2>1. ~lossy => q <= amount
    <3> SUFFICES ASSUME ~lossy PROVE q <= amount
      OBVIOUS
    <3>1. Shares <= Assets
      BY PoolAssumption DEF PoolInv, PositionsInv, BooksInv, Shares, Assets
    <3>2. amount * Shares <= amount * Assets
      BY <1>1, <1>2, <3>1
    <3>3. q * Assets <= amount * Assets
      BY <1>1, <1>2, <1>3, <3>2
    <3> QED BY <1>1, <1>2, <1>3, <3>3
  <2> QED BY <2>1, <1>1, <1>3, <1>5, PoolAssumption DEF PoolInv, PositionsInv, BooksInv, PricePositive
<1>9. SharePriceNeverFalls
  <2>1. /\ total_managed_assets' + VIRTUAL_OFFSET = Assets + amount
        /\ total_shares' + VIRTUAL_OFFSET = Shares + q
    BY <1>1, <1>3, <1>5, PoolAssumption DEF Assets, Shares, PoolInv, PositionsInv, BooksInv
  <2> QED BY <2>1, <1>4, ZenonT(30) DEF SharePriceNeverFalls, Assets, Shares
<1>10. StoppedPoolHolds
  BY <1>5, ZenonT(30) DEF StoppedPoolHolds
<1> QED BY <1>6, <1>7, <1>8, <1>9, <1>10, ZenonT(30) DEF PoolInv, PoolStep

\* redeem_shares keeps the invariant and the price, and takes shares for the cash it pays.
LEMMA RedeemKeeps ==
    ASSUME PoolInv, NEW p \in Providers, NEW n \in Redemptions, NEW min \in MinOuts,
           redeem_shares(p, n, min), assert_circuit_ok("withdraw")
    PROVE  PoolInv' /\ PoolStep
<1> DEFINE q == calc_assets_to_redeem(n, total_managed_assets, total_shares)
           rest == shares[p] - n
<1>1. /\ q = (n * Assets) \div Shares /\ n \in Nat \ {0} /\ shares[p] \in Nat /\ rest \in Nat
      /\ shares[p] <= total_shares /\ total_shares \in Nat
  BY PoolAssumption, Divisors
     DEF calc_assets_to_redeem, Assets, Shares, redeem_shares, PoolInv, PositionsInv
<1>2. n * Assets \in Int /\ Assets \in Nat \ {0} /\ Shares \in Nat \ {0} /\ n < Shares
  <2>1. Assets \in Nat \ {0} /\ Shares \in Nat \ {0}
    BY Divisors, ZenonT(30)
  <2>2. n < Shares
    BY <1>1, PoolAssumption DEF Shares
  <2> QED BY <1>1, <2>1, <2>2
<1>3. q \in Int
  BY <1>1, <1>2, DivBounds, ZenonT(30)
<1>4. (Assets - q) * Shares >= Assets * (Shares - n) /\ Assets - q > 0
  BY <1>1, <1>2, RedeemPrice, ZenonT(30)
<1>5. /\ q > 0 /\ q <= pool_balance
      /\ shares' = [shares EXCEPT ![p] = rest]
      /\ deposit_ledger' = [deposit_ledger EXCEPT ![p] = IF rest = 0 THEN 0 ELSE deposit_ledger[p]]
      /\ depositor_count' = IF rest = 0 /\ depositor_count > 0
                            THEN depositor_count - 1 ELSE depositor_count
      /\ total_shares' = total_shares - n
      /\ total_deposits' = total_deposits - q
      /\ total_managed_assets' = total_managed_assets - q
      /\ pool_balance' = pool_balance - q
      /\ UNCHANGED <<pool_config, total_yield_distributed, lossy, pool_outstanding, blocked, ledger>>
  BY ZenonT(30) DEF redeem_shares, payable
<1>6. (breaker => "withdraw" \notin blocked) /\ n > 0 /\ rest = shares[p] - n
  BY <1>1 DEF assert_circuit_ok
<1> HIDE DEF q, rest
<1>7. ConfigTyped'
  BY <1>5, ZenonT(30) DEF PoolInv, ConfigTyped, pool_config
<1>8. PositionsInv'
  <2>1. shares[p] > 0 /\ depositor_count \in Nat
    BY <1>1, <1>6 DEF PoolInv, PositionsInv
  <2>2. depositor_count > 0
    <3> DEFINE D == {x \in Providers : shares[x] > 0}
    <3>1. IsFiniteSet(D) /\ p \in D /\ depositor_count = Cardinality(D)
      BY <2>1, PoolAssumption, FS_Subset, ZenonT(30) DEF PoolInv, PositionsInv, AggregatesAgree
    <3> HIDE DEF D
    <3>2. Cardinality(D) # 0
      BY <3>1, FS_EmptySet, ZenonT(30)
    <3> QED BY <3>1, <3>2, <2>1
  <2>3. depositor_count' = depositor_count + (IF rest > 0 THEN 1 ELSE 0)
                                           - (IF shares[p] > 0 THEN 1 ELSE 0)
    BY <1>1, <1>5, <2>1, <2>2
  <2>4. total_shares' = total_shares + rest - shares[p]
    BY <1>1, <1>5, <1>6
  <2>5. total_deposits' \in Int /\ ledger' = ledger
    BY <1>3, <1>5 DEF PoolInv, PositionsInv
  <2> DEFINE d == IF rest = 0 THEN 0 ELSE deposit_ledger[p]
  <2>6. d \in Nat /\ (d > 0 <=> rest > 0) /\ deposit_ledger' = [deposit_ledger EXCEPT ![p] = d]
    BY <1>1, <1>5, <2>1 DEF PoolInv, PositionsInv, AggregatesAgree
  <2> HIDE DEF d
  <2> QED BY <1>1, <1>5, <2>3, <2>4, <2>5, <2>6, PositionKeeps, ZenonT(30) DEF PoolInv
<1>9. /\ total_managed_assets' + VIRTUAL_OFFSET = Assets - q
      /\ total_shares' + VIRTUAL_OFFSET = Shares - n
      /\ total_managed_assets' \in Int /\ total_shares' \in Int
  BY <1>1, <1>3, <1>5, PoolAssumption DEF Assets, Shares, PoolInv, PositionsInv, BooksInv
<1>10. BooksInv'
  <2>1. ~lossy => total_shares' <= total_managed_assets'
    <3> SUFFICES ASSUME ~lossy PROVE Shares - n <= Assets - q
      BY <1>9, PoolAssumption
    <3>1. Shares <= Assets
      BY PoolAssumption DEF PoolInv, PositionsInv, BooksInv, Shares, Assets
    <3>2. Shares * (Shares - n) <= Assets * (Shares - n)
      BY <1>1, <1>2, <3>1
    <3>3. (Shares - n) * Shares <= (Assets - q) * Shares
      BY <1>1, <1>2, <1>3, <1>4, <3>2
    <3> QED BY <1>1, <1>2, <1>3, <3>3
  <2>2. pool_balance' \in Nat
    BY <1>3, <1>5 DEF PoolInv, BooksInv
  <2> QED BY <2>1, <2>2, <1>4, <1>5, <1>9, ZenonT(30) DEF PoolInv, BooksInv, PricePositive
<1>11. SharePriceNeverFalls
  BY <1>4, <1>9, ZenonT(30) DEF SharePriceNeverFalls, Assets, Shares
<1>12. StoppedPoolHolds
  BY <1>1, <1>5, <1>6 DEF StoppedPoolHolds, PoolInv, PositionsInv
<1> QED BY <1>7, <1>8, <1>10, <1>11, <1>12, ZenonT(30) DEF PoolInv, PoolStep

\* The frame of a step that leaves the positions alone.
LEMMA PositionsAlone ==
    ASSUME PositionsInv, UNCHANGED positions, ledger' \in Nat \ {0}
    PROVE  PositionsInv'
  BY ZenonT(30) DEF PositionsInv, AggregatesAgree, positions

\* Cash, a gain and a loss enter the books: only the loss lowers the price.
LEMMA SettleKeeps ==
    ASSUME PoolInv, NEW cash \in Nat, NEW gain \in Nat, NEW loss \in Nat,
           settle(cash, gain, loss),
           UNCHANGED <<pool_config, positions, pool_outstanding, blocked, ledger>>
    PROVE  PoolInv' /\ PoolStep
<1>1. ConfigTyped'
  BY ZenonT(30) DEF PoolInv, ConfigTyped, pool_config
<1>2. PositionsInv'
  BY PositionsAlone, ZenonT(30) DEF PoolInv, PositionsInv
<1>3. /\ total_managed_assets' = total_managed_assets + gain - loss
      /\ pool_balance' = pool_balance + cash
      /\ total_yield_distributed' = total_yield_distributed + gain
      /\ lossy' = (lossy \/ loss > 0)
      /\ loss > 0 => total_managed_assets + gain >= loss
      /\ total_shares' = total_shares /\ positions' = positions /\ shares' = shares
  BY ZenonT(30) DEF settle, positions
<1>4. lossy' \in BOOLEAN
  BY <1>3, ZenonT(30)
<1>5. BooksInv'
  <2>1. /\ total_managed_assets' \in Int /\ total_yield_distributed' \in Nat /\ pool_balance' \in Nat
    BY <1>3 DEF PoolInv, BooksInv
  <2>2. PricePositive'
    BY <1>3, PoolAssumption DEF PoolInv, BooksInv, PricePositive
  <2>3. ~lossy' => ~lossy /\ ~(loss > 0)
    BY <1>3, ZenonT(30)
  <2>4. ~(loss > 0) => total_managed_assets' >= total_managed_assets
    BY <1>3 DEF PoolInv, BooksInv
  <2>5. ~lossy' => total_shares' <= total_managed_assets'
    BY <2>1, <2>3, <2>4, <1>3 DEF PoolInv, PositionsInv, BooksInv
  <2> QED BY <1>4, <2>1, <2>2, <2>5, ZenonT(30) DEF BooksInv
<1>6. SharePriceNeverFalls
  <2>0. total_managed_assets' \in Int
    BY <1>3 DEF PoolInv, BooksInv
  <2>1. CASE total_managed_assets' < total_managed_assets
    BY <2>1, <1>3, ZenonT(30) DEF SharePriceNeverFalls
  <2>2. CASE total_managed_assets' >= total_managed_assets
    <3>1. total_managed_assets' + VIRTUAL_OFFSET >= Assets
      BY <2>2, <1>3, PoolAssumption DEF Assets, PoolInv, BooksInv
    <3>2. total_managed_assets' + VIRTUAL_OFFSET \in Int /\ Assets \in Int /\ Shares \in Nat
      BY <1>3, PoolAssumption, Divisors DEF PoolInv, BooksInv
    <3> DEFINE a == total_managed_assets' + VIRTUAL_OFFSET
    <3> HIDE DEF a
    <3>3. Assets * Shares <= a * Shares
      BY <3>1, <3>2, TimesMonotone, ZenonT(30) DEF a
    <3>4. a * Shares >= Assets * Shares
      BY <3>2, <3>3, ZenonT(30) DEF a
    <3> QED BY <3>4, <1>3, ZenonT(30) DEF SharePriceNeverFalls, Assets, Shares, a
  <2> QED BY <2>0, <2>1, <2>2 DEF PoolInv, BooksInv
<1>7. StoppedPoolHolds
  BY <1>3 DEF StoppedPoolHolds, PoolInv, PositionsInv, BooksInv
<1> QED BY <1>1, <1>2, <1>5, <1>6, <1>7, ZenonT(30) DEF PoolInv, PoolStep

\* A step that leaves books and positions alone.
LEMMA BooksAlone ==
    ASSUME PoolInv, UNCHANGED <<positions, books>>, ledger' \in Nat \ {0}
    PROVE  PositionsInv' /\ BooksInv' /\ PoolStep
<1>1. PositionsInv'
  BY PositionsAlone, ZenonT(30) DEF PoolInv
<1>2. BooksInv'
  BY ZenonT(30) DEF PoolInv, BooksInv, PricePositive, positions, books
<1>3. /\ total_managed_assets' = total_managed_assets /\ total_shares' = total_shares
      /\ positions' = positions /\ shares' = shares /\ pool_balance' = pool_balance
  BY ZenonT(30) DEF positions, books
<1>4. SharePriceNeverFalls
  <2>1. Assets * Shares \in Int
    BY Divisors
  <2> QED BY <1>3, <2>1 DEF SharePriceNeverFalls, Assets, Shares
<1>5. StoppedPoolHolds
  BY <1>3 DEF StoppedPoolHolds, PoolInv, PositionsInv, BooksInv
<1> QED BY <1>1, <1>2, <1>4, <1>5, ZenonT(30) DEF PoolStep

\* Cash goes out on a loan; the books go on counting it.
LEMMA DisburseKeeps ==
    ASSUME PoolInv, NEW amount \in Int, disburse(amount),
           UNCHANGED <<pool_config, positions, pool_outstanding, blocked, ledger>>
    PROVE  PoolInv' /\ PoolStep
<1>1. ConfigTyped'
  BY ZenonT(30) DEF PoolInv, ConfigTyped, pool_config
<1>2. PositionsInv'
  BY PositionsAlone, ZenonT(30) DEF PoolInv, PositionsInv
<1>3. /\ total_managed_assets' = total_managed_assets /\ lossy' = lossy
      /\ total_yield_distributed' = total_yield_distributed
      /\ pool_balance' = pool_balance - amount /\ amount <= pool_balance
      /\ ~pool_paused /\ (breaker => "disburse" \notin blocked)
      /\ total_shares' = total_shares /\ positions' = positions /\ shares' = shares
  BY ZenonT(30) DEF disburse, assert_circuit_ok, positions
<1>4. BooksInv'
  BY <1>3 DEF PoolInv, BooksInv, PricePositive
<1>5. SharePriceNeverFalls
  <2>1. Assets * Shares \in Int
    BY Divisors
  <2> QED BY <1>3, <2>1 DEF SharePriceNeverFalls, Assets, Shares
<1>6. StoppedPoolHolds
  BY <1>3, ZenonT(30) DEF StoppedPoolHolds
<1> QED BY <1>1, <1>2, <1>4, <1>5, <1>6, ZenonT(30) DEF PoolInv, PoolStep

\* Providers and yield.
LEMMA ProvidersKeep ==
    ASSUME PoolInv, ProviderNext
    PROVE  PoolInv' /\ PoolStep
<1>1. ASSUME NEW p \in Providers, NEW amount \in Amounts, NEW min \in MinOuts, deposit(p, amount, min)
      PROVE  PoolInv' /\ PoolStep
  BY <1>1, DepositKeeps, ZenonT(30)
<1>2. ASSUME NEW p \in Providers, NEW n \in Redemptions, NEW min \in MinOuts,
             withdraw(p, n, min) \/ emergency_withdraw(p, n, min)
      PROVE  PoolInv' /\ PoolStep
  BY <1>2, RedeemKeeps, ZenonT(30) DEF withdraw, emergency_withdraw
<1>3. ASSUME NEW amount \in Amounts, distribute_yield(amount)
      PROVE  PoolInv' /\ PoolStep
  <2>1. amount \in Nat /\ amount > 0
    BY <1>3, PoolAssumption DEF distribute_yield
  <2>2. /\ total_managed_assets' = total_managed_assets + amount
        /\ total_yield_distributed' = total_yield_distributed + amount
        /\ pool_balance' = pool_balance + amount
        /\ UNCHANGED <<pool_config, positions, lossy, pool_outstanding, blocked, ledger>>
    BY <1>3, ZenonT(30) DEF distribute_yield
  <2>3. ConfigTyped'
    BY <2>2, ZenonT(30) DEF PoolInv, ConfigTyped, pool_config
  <2>4. PositionsInv'
    BY <2>2, PositionsAlone, ZenonT(30) DEF PoolInv, PositionsInv
  <2>5. total_shares' = total_shares /\ positions' = positions /\ shares' = shares
    BY <2>2, ZenonT(30) DEF positions
  <2>6. BooksInv'
    BY <2>1, <2>2, <2>5, PoolAssumption DEF PoolInv, PositionsInv, BooksInv, PricePositive
  <2>7. SharePriceNeverFalls
    <3>1. total_managed_assets' + VIRTUAL_OFFSET = Assets + amount
      BY <2>1, <2>2, PoolAssumption DEF Assets, PoolInv, BooksInv
    <3>2. Assets \in Int /\ Assets + amount \in Int /\ Shares \in Nat /\ Assets <= Assets + amount
      BY <2>1, Divisors
    <3> DEFINE a == Assets + amount
    <3>3. a \in Int /\ Assets <= a
      BY <3>2, ZenonT(30)
    <3> HIDE DEF a
    <3>4. Assets * Shares <= a * Shares
      BY <3>2, <3>3, TimesMonotone, ZenonT(30)
    <3>5. a * Shares >= Assets * Shares
      BY <3>2, <3>3, <3>4, ZenonT(30)
    <3> QED BY <3>1, <3>5, <2>5, ZenonT(30) DEF SharePriceNeverFalls, Assets, Shares, a
  <2>8. StoppedPoolHolds
    BY <2>1, <2>2, <2>5 DEF StoppedPoolHolds, PoolInv, PositionsInv, BooksInv
  <2> QED BY <2>3, <2>4, <2>6, <2>7, <2>8, ZenonT(30) DEF PoolInv, PoolStep
<1> QED BY <1>1, <1>2, <1>3, ZenonT(30) DEF ProviderNext

\* Administration touches the configuration only.
LEMMA PoolAdminKeeps ==
    ASSUME PoolInv, PoolAdminNext
    PROVE  PoolInv' /\ PoolStep
<1>1. UNCHANGED <<positions, books, ledger>>
  BY ZenonT(30) DEF PoolAdminNext, pool_initialize, propose_admin, pool_set_admin, accept_admin, pool_set_paused,
         set_circuit_breaker, set_loan_manager, set_withdrawal_cooldown, set_max_pool_size,
         adjust_outstanding, breaker_answers, other_than_config
<1>2. PositionsInv' /\ BooksInv' /\ PoolStep
  BY <1>1, BooksAlone, ZenonT(30) DEF PoolInv, PositionsInv
<1>3. ConfigTyped'
  <2>1. CASE \E a \in Accounts : pool_initialize(a) \/ propose_admin(a) \/ pool_set_admin(a)
    BY <2>1, PoolAssumption, ZenonT(30) DEF PoolInv, ConfigTyped, pool_initialize, propose_admin, pool_set_admin,
                                other_than_config
  <2>2. CASE accept_admin \/ set_loan_manager
    BY <2>2, ZenonT(30) DEF PoolInv, ConfigTyped, accept_admin, set_loan_manager, other_than_config
  <2>3. CASE \E flag \in BOOLEAN : pool_set_paused(flag) \/ set_circuit_breaker(flag)
    BY <2>3, ZenonT(30) DEF PoolInv, ConfigTyped, pool_set_paused, set_circuit_breaker, other_than_config
  <2>4. CASE \E ledgers \in Cooldowns : set_withdrawal_cooldown(ledgers)
    BY <2>4, PoolAssumption DEF PoolInv, ConfigTyped, set_withdrawal_cooldown, other_than_config
  <2>5. CASE \E max \in PoolSizes : set_max_pool_size(max)
    BY <2>5, PoolAssumption DEF PoolInv, ConfigTyped, set_max_pool_size, other_than_config
  <2>6. CASE \E delta \in Deltas : adjust_outstanding(delta)
    BY <2>6, PoolAssumption DEF PoolInv, ConfigTyped, adjust_outstanding, pool_config
  <2>7. CASE \E fns \in BlockedSets : breaker_answers(fns)
    BY <2>7, ZenonT(30) DEF PoolInv, ConfigTyped, breaker_answers, pool_config
  <2> QED BY <2>1, <2>2, <2>3, <2>4, <2>5, <2>6, <2>7, ZenonT(30) DEF PoolAdminNext
<1> QED BY <1>2, <1>3, ZenonT(30) DEF PoolInv

\* Every step of the pool.
LEMMA PoolKeeps ==
    ASSUME PoolInv, PoolNext
    PROVE  PoolInv' /\ PoolStep
<1>1. ASSUME NEW amount \in Amounts, disburse_to_borrower(amount)
      PROVE  PoolInv' /\ PoolStep
  <2>1. amount \in Int
    BY PoolAssumption, ZenonT(30)
  <2> QED BY <1>1, <2>1, DisburseKeeps, ZenonT(30) DEF disburse_to_borrower, other_than_books
<1>2. ASSUME NEW amount \in Amounts,
             record_loan_yield(amount) \/ record_loan_loss(amount) \/ token_transfer(amount)
      PROVE  PoolInv' /\ PoolStep
  <2>1. amount \in Nat
    BY <1>2, PoolAssumption DEF record_loan_yield, record_loan_loss, token_transfer, settle
  <2> QED BY <1>2, <2>1, SettleKeeps, ZenonT(30)
          DEF record_loan_yield, record_loan_loss, token_transfer, other_than_books
<1>3. CASE ledger_close
  <2>1. UNCHANGED <<positions, books>> /\ ledger' \in Nat \ {0} /\ UNCHANGED <<pool_config, pool_outstanding>>
    BY <1>3 DEF ledger_close, ledger_advances, PoolInv, PositionsInv
  <2>2. ConfigTyped'
    BY <2>1, ZenonT(30) DEF PoolInv, ConfigTyped, pool_config
  <2> QED BY <2>1, <2>2, BooksAlone, ZenonT(30) DEF PoolInv
<1> QED BY <1>1, <1>2, <1>3, ProvidersKeep, PoolAdminKeeps, ZenonT(30) DEF PoolNext

\* The books of the pool as the runs check them: the states, and the steps.
PoolKeepsItsBooks ==
    /\ [](PoolTypeOK /\ AggregatesAgree /\ PricePositive /\ ClaimsCovered)
    /\ [][SharePriceNeverFalls /\ StoppedPoolHolds]_pool_vars

\* What the providers could claim together is covered: each claim is rounded down from a
\* part of the assets, and the virtual shares keep theirs.
LEMMA InvCoversClaims ==
    ASSUME PoolInv
    PROVE  ClaimsCovered
<1> SUFFICES ASSUME ~lossy
             PROVE  SumFunctionOnSet([p \in Providers |->
                        calc_assets_to_redeem(shares[p], total_managed_assets, total_shares)], Providers)
                      <= total_managed_assets
  BY ZenonT(30) DEF ClaimsCovered
<1> DEFINE claim == [p \in Providers |->
                        calc_assets_to_redeem(shares[p], total_managed_assets, total_shares)]
           C == SumFunctionOnSet(claim, Providers)
<1>1. Assets \in Nat \ {0} /\ Shares \in Nat \ {0}
  BY Divisors, ZenonT(30)
<1>2. \A p \in Providers : /\ claim[p] \in Int /\ shares[p] \in Int
                           /\ Shares * claim[p] <= Assets * shares[p]
  <2> SUFFICES ASSUME NEW p \in Providers
               PROVE  claim[p] \in Int /\ shares[p] \in Int /\ Shares * claim[p] <= Assets * shares[p]
    OBVIOUS
  <2>1. shares[p] \in Nat /\ claim[p] = (shares[p] * Assets) \div Shares
    BY ZenonT(30) DEF PoolInv, PositionsInv, calc_assets_to_redeem, Assets, Shares
  <2> HIDE DEF claim
  <2>2. shares[p] * Assets \in Int
    BY <1>1, <2>1
  <2>3. claim[p] \in Int /\ claim[p] * Shares <= shares[p] * Assets
    BY <1>1, <2>1, <2>2, DivBounds, ZenonT(30)
  <2> QED BY <1>1, <2>1, <2>3
<1>3. IsFiniteSet(Providers) /\ Providers \in SUBSET Providers /\ Shares \in Int /\ Assets \in Int
  BY <1>1, PoolAssumption
<1> HIDE DEF claim
<1>4. Shares * C <= Assets * SumFunctionOnSet(shares, Providers)
  BY <1>2, <1>3, SumRatio, ZenonT(30)
<1>5. SumFunctionOnSet(shares, Providers) = total_shares /\ C \in Int
  BY <1>2, <1>3, SumType, ZenonT(30) DEF PoolInv, PositionsInv, AggregatesAgree
<1> HIDE DEF C
<1>6. /\ Shares = total_shares + VIRTUAL_OFFSET /\ Assets = total_managed_assets + VIRTUAL_OFFSET
      /\ total_shares \in Nat /\ total_managed_assets \in Int /\ total_shares <= total_managed_assets
      /\ VIRTUAL_OFFSET \in Nat
  BY PoolAssumption, ZenonT(30) DEF Shares, Assets, PoolInv, PositionsInv, BooksInv
<1>7. Assets * total_shares <= total_managed_assets * Shares
  <2>1. Assets * total_shares = total_managed_assets * total_shares + VIRTUAL_OFFSET * total_shares
    BY <1>6
  <2>2. total_managed_assets * Shares
            = total_managed_assets * total_shares + VIRTUAL_OFFSET * total_managed_assets
    BY <1>6
  <2>3. VIRTUAL_OFFSET * total_shares <= VIRTUAL_OFFSET * total_managed_assets
    BY <1>6
  <2>4. /\ total_managed_assets * total_shares \in Int /\ VIRTUAL_OFFSET * total_shares \in Int
        /\ VIRTUAL_OFFSET * total_managed_assets \in Int
    BY <1>6
  <2> QED BY <2>1, <2>2, <2>3, <2>4
<1>8. Shares * C <= total_managed_assets * Shares
  BY <1>1, <1>4, <1>5, <1>6, <1>7
<1>9. C <= total_managed_assets
  BY <1>1, <1>5, <1>6, <1>8
<1> QED BY <1>9, ZenonT(30) DEF C, claim

\* A pool without positions.
LEMMA EmptyPool ==
    ASSUME ConfigTyped, ledger = 1,
           shares = [p \in Providers |-> 0], deposit_ledger = [p \in Providers |-> 0],
           depositor_count = 0, total_shares = 0, total_deposits = 0,
           total_managed_assets = 0, total_yield_distributed = 0, pool_balance = 0, lossy = FALSE
    PROVE  PoolInv
<1>1. shares \in [Providers -> Nat] /\ deposit_ledger \in [Providers -> Nat]
      /\ \A p \in Providers : shares[p] = 0 /\ deposit_ledger[p] = 0
  OBVIOUS
<1>2. SumFunctionOnSet(shares, Providers) = 0
  <2>1. IsFiniteSet(Providers) /\ Providers \in SUBSET Providers
    BY PoolAssumption, ZenonT(30)
  <2> QED BY <1>1, <2>1, SumZero, ZenonT(30)
<1>3. Cardinality({p \in Providers : shares[p] > 0}) = 0
  <2>1. {p \in Providers : shares[p] > 0} = {}
    BY <1>1
  <2> QED BY <2>1, FS_EmptySet, ZenonT(30)
<1>4. AggregatesAgree
  BY <1>1, <1>2, <1>3, ZenonT(30) DEF AggregatesAgree
<1>5. PositionsInv
  BY <1>1, <1>4 DEF PositionsInv
<1>6. BooksInv
  <2>1. lossy \in BOOLEAN
    BY ZenonT(30)
  <2>2. PricePositive
    BY PoolAssumption DEF PricePositive
  <2> QED BY <2>1, <2>2 DEF BooksInv
<1> QED BY <1>5, <1>6, ZenonT(30) DEF PoolInv

\* The inductive invariant of the pool.
THEOREM PoolInvariant == PoolSpec => []PoolInv
<1>1. PoolInit => PoolInv
  <2> SUFFICES ASSUME PoolInit PROVE PoolInv
    OBVIOUS
  <2>1. ConfigTyped
    BY PoolAssumption, ZenonT(30) DEF PoolInit, ConfigTyped
  <2> QED BY <2>1, EmptyPool, ZenonT(30) DEF PoolInit, LedgerInit
<1>2. PoolInv /\ [PoolNext]_pool_vars => PoolInv'
  <2> SUFFICES ASSUME PoolInv, [PoolNext]_pool_vars PROVE PoolInv'
    OBVIOUS
  <2>1. CASE PoolNext
    BY <2>1, PoolKeeps, ZenonT(30)
  <2>2. CASE UNCHANGED pool_vars
    <3>1. ConfigTyped'
      BY <2>2, ZenonT(30) DEF PoolInv, ConfigTyped, pool_config, pool_vars
    <3>2. UNCHANGED <<positions, books>> /\ ledger' \in Nat \ {0}
      BY <2>2, ZenonT(30) DEF PoolInv, PositionsInv, pool_vars
    <3> QED BY <3>1, <3>2, BooksAlone, ZenonT(30) DEF PoolInv
  <2> QED BY <2>1, <2>2, ZenonT(30)
<1> QED BY <1>1, <1>2, PTL DEF PoolSpec

\* Whatever providers, the loan manager and the admin do, the pool's aggregates are those of
\* the positions, a price is always defined, only a recorded loss lowers it, the claims are
\* covered until then, and a stopped pool lets nothing out (deposit, redeem_shares, settle).
THEOREM PoolBooks == PoolSpec => PoolKeepsItsBooks
<1>1. PoolInv => PoolTypeOK /\ AggregatesAgree /\ PricePositive /\ ClaimsCovered
  BY InvCoversClaims, ZenonT(30) DEF PoolInv, ConfigTyped, PositionsInv, BooksInv, PoolTypeOK
<1>2. PoolInv /\ [PoolNext]_pool_vars => [SharePriceNeverFalls /\ StoppedPoolHolds]_pool_vars
  BY PoolKeeps, ZenonT(30) DEF PoolStep
<1> QED BY <1>1, <1>2, PoolInvariant, PTL DEF PoolSpec, PoolKeepsItsBooks

-----------------------------------------------------------------------------
(* What the calls of a loan manager do to the two.                              *)

\* What the pool's books count beyond its cash: all that is lent, less gifts.
receivable == total_managed_assets - pool_balance

\* It is a number.
LEMMA ReceivableTyped == PoolInv => receivable \in Int
  BY DEF PoolInv, BooksInv, receivable

\* The pool, where a step leaves it alone.
LEMMA PoolAlone ==
    ASSUME PoolInv, UNCHANGED pool_vars
    PROVE  PoolInv' /\ PoolStep /\ receivable' = receivable
<1>1. UNCHANGED <<pool_config, positions, books, pool_outstanding, ledger>>
  BY ZenonT(30) DEF pool_vars
<1>2. ConfigTyped'
  BY <1>1, ZenonT(30) DEF PoolInv, ConfigTyped, pool_config
<1>3. ledger' \in Nat \ {0}
  BY <1>1, ZenonT(30) DEF PoolInv, PositionsInv
<1>4. receivable' = receivable
  BY <1>1, ZenonT(30) DEF receivable, books
<1> QED BY <1>1, <1>2, <1>3, <1>4, BooksAlone, ZenonT(30) DEF PoolInv

\* Cash that is lent becomes a receivable.
LEMMA Disbursed ==
    ASSUME PoolInv, NEW amount \in Int, disburse(amount),
           UNCHANGED <<pool_config, positions, pool_outstanding, blocked, ledger>>
    PROVE  PoolInv' /\ PoolStep /\ receivable' = receivable + amount
<1>1. PoolInv' /\ PoolStep
  BY DisburseKeeps, ZenonT(30)
<1>2. total_managed_assets' = total_managed_assets /\ pool_balance' = pool_balance - amount
  BY ZenonT(30) DEF disburse
<1>3. total_managed_assets \in Int /\ pool_balance \in Int
  BY DEF PoolInv, BooksInv
<1>4. receivable' = receivable + amount
  BY <1>2, <1>3 DEF receivable
<1> QED BY <1>1, <1>4, ZenonT(30)

\* Cash that comes back takes the place of a receivable, but for what is income or loss.
LEMMA Settled ==
    ASSUME PoolInv, NEW cash \in Nat, NEW gain \in Nat, NEW loss \in Nat, settle(cash, gain, loss),
           UNCHANGED <<pool_config, positions, pool_outstanding, blocked, ledger>>
    PROVE  PoolInv' /\ PoolStep /\ receivable' = receivable + gain - loss - cash
<1>1. PoolInv' /\ PoolStep
  BY SettleKeeps, ZenonT(30)
<1>2. /\ total_managed_assets' = total_managed_assets + gain - loss
      /\ pool_balance' = pool_balance + cash
  BY ZenonT(30) DEF settle
<1>3. total_managed_assets \in Int /\ pool_balance \in Int
  BY DEF PoolInv, BooksInv
<1>4. receivable' = receivable + gain - loss - cash
  BY <1>2, <1>3 DEF receivable
<1> QED BY <1>1, <1>4, ZenonT(30)

\* What is recovered of a principal settles all of it.
LEMMA Recovered ==
    ASSUME PoolInv, NEW principal \in Nat, NEW cash \in Nat,
           settle(cash, larger(cash - principal, 0), larger(principal - cash, 0)),
           UNCHANGED <<pool_config, positions, pool_outstanding, blocked, ledger>>
    PROVE  PoolInv' /\ PoolStep /\ receivable' = receivable - principal
<1> DEFINE gain == larger(cash - principal, 0)
           loss == larger(principal - cash, 0)
<1>1. gain \in Nat /\ loss \in Nat /\ gain - loss = cash - principal
  BY DEF larger
<1>2. settle(cash, gain, loss)
  OBVIOUS
<1> HIDE DEF gain, loss
<1>3. PoolInv' /\ PoolStep /\ receivable' = receivable + gain - loss - cash
  BY <1>1, <1>2, Settled, ZenonT(30)
<1>4. receivable \in Int
  BY ReceivableTyped, ZenonT(30)
<1> QED BY <1>1, <1>3, <1>4

\* A payment that leaves left of a principal of rest, income apart; gifts are in the cash.
LEMMA Collected ==
    ASSUME PoolInv, NEW amount \in Nat, NEW income \in Nat, NEW forgiven \in Nat,
           settle(amount, income, forgiven),
           UNCHANGED <<pool_config, positions, pool_outstanding, blocked, ledger>>,
           NEW gifts \in Nat, NEW rest \in Nat, NEW left \in Nat, left = rest - amount + income
    PROVE  PoolInv' /\ PoolStep /\ receivable' + gifts = receivable + gifts - rest + left - forgiven
<1>1. PoolInv' /\ PoolStep /\ receivable' = receivable + income - forgiven - amount
  BY Settled, ZenonT(30)
<1>2. receivable \in Int
  BY ReceivableTyped, ZenonT(30)
<1> QED BY <1>1, <1>2

\* A principal of rest that is replaced by one of amount.
LEMMA Exchanged ==
    ASSUME PoolInv, NEW amount \in Nat, NEW rest \in Nat, NEW gifts \in Nat,
           \/ amount > rest /\ disburse(amount - rest)
           \/ ~(amount > rest) /\ settle(rest - amount, 0, 0),
           UNCHANGED <<pool_config, positions, pool_outstanding, blocked, ledger>>
    PROVE  PoolInv' /\ PoolStep /\ receivable' + gifts = receivable + gifts + amount - rest
<1>1. receivable \in Int
  BY ReceivableTyped, ZenonT(30)
<1>2. CASE amount > rest /\ disburse(amount - rest)
  <2>1. PoolInv' /\ PoolStep /\ receivable' = receivable + (amount - rest)
    BY <1>2, Disbursed
  <2> QED BY <1>1, <2>1
<1>3. CASE ~(amount > rest) /\ settle(rest - amount, 0, 0)
  <2>1. rest - amount \in Nat
    BY <1>3
  <2>2. PoolInv' /\ PoolStep /\ receivable' = receivable + 0 - 0 - (rest - amount)
    BY <1>3, <2>1, Settled, ZenonT(30)
  <2> QED BY <1>1, <2>2
<1> QED BY <1>2, <1>3, ZenonT(30)

\* A provider's cash and the books move together.
LEMMA ProvidersBalance ==
    ASSUME PoolInv, ProviderNext
    PROVE  receivable' = receivable /\ ledger' = ledger
<1>1. total_managed_assets \in Int /\ pool_balance \in Int
  BY DEF PoolInv, BooksInv
<1>2. ASSUME NEW q \in Int, ledger' = ledger,
             total_managed_assets' = total_managed_assets + q, pool_balance' = pool_balance + q
      PROVE  receivable' = receivable /\ ledger' = ledger
  BY <1>1, <1>2 DEF receivable
<1>3. ASSUME NEW p \in Providers, NEW amount \in Amounts, NEW min \in MinOuts, deposit(p, amount, min)
      PROVE  receivable' = receivable /\ ledger' = ledger
  <2>1. amount \in Int
    BY PoolAssumption, ZenonT(30)
  <2>2. /\ total_managed_assets' = total_managed_assets + amount
        /\ pool_balance' = pool_balance + amount /\ ledger' = ledger
    BY <1>3, ZenonT(30) DEF deposit
  <2> QED BY <1>2, <2>1, <2>2, ZenonT(30)
<1>4. ASSUME NEW p \in Providers, NEW n \in Redemptions, NEW min \in MinOuts,
             withdraw(p, n, min) \/ emergency_withdraw(p, n, min)
      PROVE  receivable' = receivable /\ ledger' = ledger
  <2> DEFINE q == calc_assets_to_redeem(n, total_managed_assets, total_shares)
  <2>1. n * Assets \in Int /\ Shares \in Nat \ {0}
    BY Divisors, PoolAssumption
  <2>2. (n * Assets) \div Shares \in Int
    BY <2>1, DivBounds, ZenonT(30)
  <2>3. q \in Int
    BY <2>2, ZenonT(30) DEF calc_assets_to_redeem, Assets, Shares
  <2>4. /\ total_managed_assets' = total_managed_assets - q /\ pool_balance' = pool_balance - q
        /\ ledger' = ledger
    BY <1>4, ZenonT(30) DEF withdraw, emergency_withdraw, redeem_shares
  <2> HIDE DEF q
  <2>5. receivable' = receivable
    BY <1>1, <2>3, <2>4 DEF receivable
  <2> QED BY <2>4, <2>5, ZenonT(30)
<1>5. ASSUME NEW amount \in Amounts, distribute_yield(amount)
      PROVE  receivable' = receivable /\ ledger' = ledger
  <2>1. amount \in Int
    BY PoolAssumption, ZenonT(30)
  <2>2. /\ total_managed_assets' = total_managed_assets + amount
        /\ pool_balance' = pool_balance + amount /\ ledger' = ledger
    BY <1>5, ZenonT(30) DEF distribute_yield
  <2> QED BY <1>2, <2>1, <2>2, ZenonT(30)
<1> QED BY <1>3, <1>4, <1>5, ZenonT(30) DEF ProviderNext

\* A default that does not burn: the score falls, the count grows and the token is marked.
LEMMA DefaultMarks ==
    ASSUME NftRecordsInv, NEW u \in Users, has_active_nft(u), NEW x \in 0..MAX_SCORE,
           score' = [score EXCEPT ![u] = x], seized' = [seized EXCEPT ![u] = TRUE],
           default_count' = [default_count EXCEPT ![u] = @ + 1],
           UNCHANGED <<burned, remint_approved, transfer_after>>
    PROVE  /\ NftRecordsInv' /\ NftRecordsStep
           /\ default_count'[u] = default_count[u] + 1 /\ seized'[u]
<1>1. NftRecordsTyped'
  <2>1. x \in NoNft..MAX_SCORE
    BY NftAssumption DEF NoNft
  <2>2. score' \in [Users -> NoNft..MAX_SCORE]
    BY <2>1, ZenonT(30) DEF NftRecordsInv, NftRecordsTyped
  <2>3. /\ seized' \in [Users -> BOOLEAN] /\ burned' \in [Users -> BOOLEAN]
        /\ remint_approved' \in [Users -> BOOLEAN]
    BY ZenonT(30) DEF NftRecordsInv, NftRecordsTyped
  <2>4. default_count' \in [Users -> Nat] /\ transfer_after' \in [Users -> Nat]
    BY DEF NftRecordsInv, NftRecordsTyped
  <2> QED BY <2>2, <2>3, <2>4, ZenonT(30) DEF NftRecordsTyped
<1>2. MarksGoWithTheToken' /\ CountsHaveHolders'
  BY DEF NftRecordsInv, NftRecordsTyped, MarksGoWithTheToken, CountsHaveHolders, has_active_nft, NoNft
<1>3. NftRecordsStep
  BY DEF NftRecordsInv, NftRecordsTyped, NftRecordsStep, DefaultsKept, ApprovalFollowsBurn
<1>4. default_count'[u] = default_count[u] + 1 /\ seized'[u]
  BY ZenonT(30) DEF NftRecordsInv, NftRecordsTyped
<1> QED BY <1>1, <1>2, <1>3, <1>4, ZenonT(30) DEF NftRecordsInv

\* A default that burns.
LEMMA DefaultBurns ==
    ASSUME NftRecordsInv, NEW u \in Users, has_active_nft(u), burn_internal(u),
           default_count' = [default_count EXCEPT ![u] = @ + 1]
    PROVE  /\ NftRecordsInv' /\ NftRecordsStep
           /\ default_count'[u] = default_count[u] + 1 /\ burned'[u]
<1>1. NftRecordsInv' /\ NftRecordsStep
  BY BurnKeeps, ZenonT(30)
<1>2. default_count'[u] = default_count[u] + 1 /\ burned'[u]
  BY ZenonT(30) DEF burn_internal, NftRecordsInv, NftRecordsTyped
<1> QED BY <1>1, <1>2, ZenonT(30)

\* The scores a repayment or a default writes for a holder.
LEMMA HolderScores ==
    ASSUME NftRecordsInv, NEW u \in Users, has_active_nft(u)
    PROVE  /\ \A n \in Nat : decreased(score[u], n) \in 0..MAX_SCORE
           /\ \A n \in Int : adjusted(score[u], n) \in 0..MAX_SCORE
<1>1. score[u] \in 0..MAX_SCORE
  BY NftAssumption DEF NftRecordsInv, NftRecordsTyped, has_active_nft, NoNft
<1> QED BY <1>1, ScoresInRange, ZenonT(30)

=============================================================================
