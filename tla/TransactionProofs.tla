-------------------------- MODULE TransactionProofs --------------------------
(* What a transaction goes through, from the request to the vault: it is built *)
(* as it was asked for, submitted once and reported when it is settled; and    *)
(* the vaults that transactions move stay solvent.  The three share no state,  *)
(* and the proofs hold for every number of requests and of agents.             *)
EXTENDS AgentVault, TransactionBuilding, TransactionSubmission, TLAPS

-----------------------------------------------------------------------------
(* The vault, for every set of agents, endowment and width.                    *)

\* No agent owns enough USDC for collateral * 10_000 to overflow an i128.
NoOverflow == \A a \in Agents : Endowment[a] * BPS <= MAX_I128

-----------------------------------------------------------------------------
(* Arithmetic of max_float_of.                                             *)

\* The time a leaf is given, by each of the two provers that try it.
USE SMTT(20), ZenonT(30)

\* A product of naturals is a natural and grows with its factors.
LEMMA ProductMonotone ==
    ASSUME NEW x \in Nat, NEW y \in Nat, NEW z \in Nat, x <= y
    PROVE  /\ x * z \in Nat
           /\ x * z <= y * z
           /\ z * x = x * z
  OBVIOUS

\* Flooring a division by BPS loses nothing a caller could use.
LEMMA DivBound ==
    ASSUME NEW p \in Nat
    PROVE  /\ p \div BPS \in 0..p
           /\ (p \div BPS) * BPS <= p
  BY BPSAssumption

\* max_float_of never exceeds the i128 range, overflow or not.
LEMMA MaxFloatFits ==
    ASSUME NEW c \in Nat, NEW h \in 0..BPS
    PROVE  max_float_of(c, h) \in 0..MAX_I128
  <1>1. clamped(h) = h
    BY BPSAssumption DEF clamped
  <1>2. c * h \in Nat
    BY BPSAssumption, ProductMonotone
  <1>. QED
    BY <1>1, <1>2, DivBound, WidthAssumption DEF max_float_of

\* Float within max_float_of is within the solvency rule if nothing overflows.
LEMMA MaxFloatSolvent ==
    ASSUME NEW c \in Nat, NEW h \in 0..BPS, c * BPS <= MAX_I128,
           NEW f \in Nat, f <= max_float_of(c, h)
    PROVE  f * BPS <= c * h
  <1>1. clamped(h) = h
    BY BPSAssumption DEF clamped
  <1>2. c * h \in Nat /\ c * h <= c * BPS
    BY BPSAssumption, ProductMonotone
  <1>3. ~(c * h > MAX_I128)
    BY <1>2, BPSAssumption, WidthAssumption
  <1>4. f <= (c * h) \div BPS
    BY <1>1, <1>3, ZenonT(30) DEF max_float_of
  <1>5. f * BPS <= ((c * h) \div BPS) * BPS
    BY <1>2, <1>4, DivBound, ProductMonotone, BPSAssumption
  <1>6. ((c * h) \div BPS) * BPS <= c * h
    BY <1>2, DivBound, ZenonT(30)
  <1>7. ((c * h) \div BPS) * BPS \in Int /\ f * BPS \in Int
    BY <1>2, DivBound, BPSAssumption
  <1>. QED
    BY <1>2, <1>5, <1>6, <1>7

-----------------------------------------------------------------------------
(* Type correctness.                                                       *)

\* The bound every float-raising action checks is in the i128 range.
LEMMA MaxFloatType ==
    ASSUME TypeOK, NEW a \in Agents
    PROVE  max_float(a) \in 0..MAX_I128
  <1>1. collateral[a] \in Nat /\ haircut_bps[a] \in 0..BPS
    BY WidthAssumption DEF TypeOK
  <1>. QED
    BY <1>1, MaxFloatFits, ZenonT(30) DEF max_float

\* A batch that settle_net accepts leaves each vault it names in bounds.
LEMMA SettledInBounds ==
    ASSUME NEW entries \in Batches, settle_net(entries),
           NEW a \in touched(entries, Len(entries))
    PROVE  float[a] + delta(entries, a, Len(entries)) \in 0..max_float(a)
  <1>1. entries \in Seq(Entry)
    BY InputAssumption, ZenonT(30)
  <1>2. Len(entries) \in DOMAIN entries
    BY <1>1 DEF touched
  <1>. QED
    BY <1>2, ZenonT(30) DEF settle_net, entry_ok

\* Every call leaves every stored value in its type: in particular no debit
\* (burn, transfer, settlement, withdrawal) goes below zero and no credit
\* leaves the i128 range.
LEMMA TypeStep == TypeOK /\ [Next]_vars => TypeOK'
<1>. SUFFICES ASSUME TypeOK, [Next]_vars PROVE TypeOK'
  OBVIOUS
<1>. USE EndowmentAssumption, BPSAssumption, WidthAssumption, InputAssumption,
         BoundAssumption DEF tokens, vault
<1>1. CASE UNCHANGED vars
  BY <1>1, ZenonT(30) DEF TypeOK, vars
<1>2. ASSUME NEW h \in Haircuts, NEW m \in Floors, init(h, m) PROVE TypeOK'
  BY <1>2 DEF TypeOK, init
<1>3. CASE vault_upgrade
  BY <1>3 DEF TypeOK, vault_upgrade
<1>4. ASSUME NEW a \in Agents, NEW n \in Amounts, deposit_collateral(a, n) PROVE TypeOK'
  <2>1. params.max_haircut_bps \in 1..BPS
    BY <1>4, ZenonT(30) DEF TypeOK, deposit_collateral
  <2>2. haircut_bps' \in [Agents -> 0..BPS]
    BY <1>4, <2>1 DEF TypeOK, deposit_collateral
  <2>3. collateral' \in [Agents -> 0..MAX_I128]
    BY <1>4 DEF TypeOK, deposit_collateral, fits
  <2>4. wallet[a] - n \in Nat /\ custody + n \in Nat
    BY <1>4 DEF TypeOK, deposit_collateral
  <2>5. wallet' \in [Agents -> Nat] /\ custody' \in Nat
    BY <1>4, <2>4, ZenonT(30) DEF TypeOK, deposit_collateral
  <2>. QED
    BY <1>4, <2>2, <2>3, <2>5, ZenonT(30) DEF TypeOK, deposit_collateral
<1>5. ASSUME NEW a \in Agents, NEW n \in Amounts, withdraw_collateral(a, n) PROVE TypeOK'
  <2>1. collateral[a] - n \in 0..MAX_I128 /\ wallet[a] + n \in Nat /\ custody - n \in Nat
    BY <1>5 DEF TypeOK, withdraw_collateral
  <2>2. collateral' \in [Agents -> 0..MAX_I128] /\ wallet' \in [Agents -> Nat] /\ custody' \in Nat
    BY <1>5, <2>1, ZenonT(30) DEF TypeOK, withdraw_collateral
  <2>. QED
    BY <1>5, <2>2, ZenonT(30) DEF TypeOK, withdraw_collateral
<1>6. ASSUME NEW a \in Agents, NEW n \in Amounts, mint_float(a, n) PROVE TypeOK'
  <2>1. max_float(a) \in 0..MAX_I128
    BY MaxFloatType, ZenonT(30)
  <2>2. float[a] + n \in 0..MAX_I128 /\ issued + n \in Int
    BY <1>6, <2>1 DEF TypeOK, mint_float
  <2>3. float' \in [Agents -> 0..MAX_I128] /\ issued' \in Int
    BY <1>6, <2>2, ZenonT(30) DEF TypeOK, mint_float
  <2>. QED
    BY <1>6, <2>3, ZenonT(30) DEF TypeOK, mint_float
<1>7. ASSUME NEW a \in Agents, NEW n \in Amounts, burn_float(a, n) PROVE TypeOK'
  BY <1>7 DEF TypeOK, burn_float
<1>8. ASSUME NEW from \in Agents, NEW to \in Agents, NEW n \in Amounts,
             transfer_float(from, to, n)
      PROVE  TypeOK'
  <2>1. n \in Int /\ n > 0 /\ float[from] - n >= 0 /\ float[to] + n <= max_float(to)
    BY <1>8, ZenonT(30) DEF transfer_float, transfer_both
  <2>2. float[from] - n \in 0..MAX_I128 /\ float[to] + n \in 0..MAX_I128
    <3>1. max_float(to) \in 0..MAX_I128
      BY MaxFloatType, ZenonT(30)
    <3>2. float[from] \in 0..MAX_I128 /\ float[to] \in 0..MAX_I128
      BY ZenonT(30) DEF TypeOK
    <3>. QED
      BY <2>1, <3>1, <3>2
  <2>3. float' = [float EXCEPT ![from] = float[from] - n, ![to] = float[to] + n]
    BY <1>8, ZenonT(30) DEF transfer_float, transfer_both
  <2>4. float' \in [Agents -> 0..MAX_I128]
    BY <2>2, <2>3, ZenonT(30) DEF TypeOK
  <2>. QED
    BY <1>8, <2>4, ZenonT(30) DEF TypeOK, transfer_float, transfer_both
<1>9. ASSUME NEW entries \in Batches, settle_net(entries) PROVE TypeOK'
  <2>1. ASSUME NEW a \in touched(entries, Len(entries)), a \in Agents
        PROVE  float[a] + delta(entries, a, Len(entries)) \in 0..MAX_I128
    BY <1>9, <2>1, SettledInBounds, MaxFloatType
  <2>2. float' \in [Agents -> 0..MAX_I128]
    BY <1>9, <2>1, ZenonT(30) DEF TypeOK, settle_net
  <2>. QED
    BY <1>9, <2>2, ZenonT(30) DEF TypeOK, settle_net
<1>10. ASSUME NEW a \in Agents, NEW h \in Haircuts, set_haircut(a, h) PROVE TypeOK'
  BY <1>10 DEF TypeOK, set_haircut, NoParams
<1>11. CASE vault_ledger_close
  BY <1>11 DEF TypeOK, vault_ledger_close
<1>12. CASE breaker_changes
  BY <1>12, ZenonT(30) DEF TypeOK, breaker_changes
<1>. QED
  BY <1>1, <1>2, <1>3, <1>4, <1>5, <1>6, <1>7, <1>8, <1>9, <1>10, <1>11, <1>12, ZenonT(30) DEF Next

\* The contract's storage is well typed in every reachable state.
THEOREM TypeCorrect == Spec => []TypeOK
<1>1. Init => TypeOK
  <2>. SUFFICES ASSUME Init PROVE TypeOK
    OBVIOUS
  <2>1. /\ collateral \in [Agents -> 0..MAX_I128]
        /\ float \in [Agents -> 0..MAX_I128]
        /\ haircut_bps \in [Agents -> 0..BPS]
        /\ last_settled \in [Agents -> 0..MAX_TIME]
    BY BPSAssumption, WidthAssumption, BoundAssumption DEF Init
  <2>2. /\ params \in {NoParams} \cup [max_haircut_bps : 1..BPS, min_collateral : Nat]
        /\ version \in 1..MAX_VERSION
    BY BoundAssumption DEF Init
  <2>3. /\ wallet \in [Agents -> Nat]
        /\ custody \in Nat
        /\ issued \in Int
        /\ vault_time \in 0..MAX_TIME
    BY EndowmentAssumption, BoundAssumption DEF Init
  <2>4. circuit_breaker = "none" /\ is_blocked \in BOOLEAN
    BY ZenonT(30) DEF Init
  <2>. QED
    BY <2>1, <2>2, <2>3, <2>4, ZenonT(30) DEF TypeOK
<1>. QED
  BY <1>1, TypeStep, PTL DEF Spec

-----------------------------------------------------------------------------
(* Collateral stays its owner's.                                           *)

\* No call moves USDC or collateral between two agents.
LEMMA OwnersStep == TypeOK /\ CollateralIsOwners /\ [Next]_vars => CollateralIsOwners'
<1>. SUFFICES ASSUME TypeOK, CollateralIsOwners, [Next]_vars PROVE CollateralIsOwners'
  OBVIOUS
<1>1. ASSUME UNCHANGED <<collateral, wallet>> PROVE CollateralIsOwners'
  BY <1>1, ZenonT(30) DEF CollateralIsOwners
<1>2. ASSUME NEW a \in Agents, NEW n \in Amounts,
             deposit_collateral(a, n) \/ withdraw_collateral(a, n)
      PROVE  CollateralIsOwners'
  <2>. SUFFICES ASSUME NEW b \in Agents
                PROVE  wallet'[b] + collateral'[b] = Endowment[b]
    BY ZenonT(30) DEF CollateralIsOwners
  <2>1. /\ n \in Int /\ wallet[b] \in Int /\ collateral[b] \in Int
        /\ wallet[b] + collateral[b] = Endowment[b]
    BY InputAssumption, WidthAssumption DEF TypeOK, CollateralIsOwners
  <2>2. CASE deposit_collateral(a, n)
    BY <2>1, <2>2 DEF deposit_collateral, TypeOK
  <2>3. CASE withdraw_collateral(a, n)
    BY <2>1, <2>3 DEF withdraw_collateral, TypeOK
  <2>. QED
    BY <1>2, <2>2, <2>3, ZenonT(30)
<1>. QED
  BY <1>1, <1>2, ZenonT(30) DEF Next, vars, vault, tokens, init, vault_upgrade, mint_float, burn_float,
     transfer_float, transfer_both, settle_net, set_haircut, vault_ledger_close, breaker_changes

\* Whatever is settled or transferred, an agent's USDC is where it put it.
THEOREM CollateralStaysOwners == Spec => []CollateralIsOwners
<1>1. Init => CollateralIsOwners
  BY EndowmentAssumption DEF Init, CollateralIsOwners
<1>. QED
  BY <1>1, OwnersStep, TypeCorrect, PTL DEF Spec

-----------------------------------------------------------------------------
(* Solvency.                                                               *)

\* The rule, for one vault.
Solvent(f, c, h) == f * BPS <= c * h

\* A vault whose float passed the check of max_float_of obeys the rule.
LEMMA CheckedIsSolvent ==
    ASSUME NoOverflow, TypeOK, CollateralIsOwners, NEW a \in Agents,
           NEW c \in 0..collateral[a], NEW h \in 0..BPS,
           NEW f \in Nat, f <= max_float_of(c, h)
    PROVE  Solvent(f, c, h)
  <1>1. /\ collateral[a] \in Nat /\ wallet[a] \in Nat /\ Endowment[a] \in Nat
        /\ wallet[a] + collateral[a] = Endowment[a]
    BY EndowmentAssumption, WidthAssumption DEF TypeOK, CollateralIsOwners
  <1>2. c \in Nat /\ c <= Endowment[a]
    BY <1>1
  <1>3. c * BPS <= Endowment[a] * BPS
    BY <1>1, <1>2, ProductMonotone, BPSAssumption, ZenonT(30)
  <1>4. Endowment[a] * BPS <= MAX_I128
    BY ZenonT(30) DEF NoOverflow
  <1>5. c * BPS \in Int /\ Endowment[a] * BPS \in Int
    BY <1>1, <1>2, BPSAssumption
  <1>6. c * BPS <= MAX_I128
    BY <1>3, <1>4, <1>5, WidthAssumption
  <1>. QED
    BY <1>2, <1>6, MaxFloatSolvent, ZenonT(30) DEF Solvent

\* A vault without float obeys the rule.
LEMMA NoFloatIsSolvent ==
    ASSUME NEW c \in Nat, NEW h \in Nat
    PROVE  Solvent(0, c, h)
  BY BPSAssumption, ProductMonotone DEF Solvent

\* Less float against as much collateral and haircut keeps the rule.
LEMMA SolventMonotone ==
    ASSUME NEW f \in Nat, NEW g \in 0..f, NEW c \in Nat, NEW d \in Nat, c <= d,
           NEW h \in Nat, Solvent(f, c, h)
    PROVE  Solvent(g, d, h)
  <1>1. g * BPS <= f * BPS /\ c * h <= d * h
    BY ProductMonotone, BPSAssumption
  <1>2. /\ g * BPS \in Int /\ f * BPS \in Int
        /\ c * h \in Int /\ d * h \in Int
    BY BPSAssumption
  <1>. QED
    BY <1>1, <1>2 DEF Solvent

\* Each call keeps every vault solvent: float rises, collateral falls and the
\* haircut changes only after the check of max_float_of.
LEMMA SolvencyStep ==
    ASSUME NoOverflow, TypeOK, CollateralIsOwners, Solvency, [Next]_vars
    PROVE  Solvency'
<1>. SUFFICES ASSUME NEW b \in Agents
              PROVE  Solvent(float'[b], collateral'[b], haircut_bps'[b])
  BY ZenonT(30) DEF Solvency, Solvent
<1>. DEFINE Same == UNCHANGED <<float, collateral, haircut_bps>>
<1>0. /\ float[b] \in Nat /\ collateral[b] \in Nat /\ collateral[b] \in 0..collateral[b]
      /\ haircut_bps[b] \in 0..BPS /\ haircut_bps[b] \in Nat
      /\ Solvent(float[b], collateral[b], haircut_bps[b])
  BY WidthAssumption, BPSAssumption DEF TypeOK, Solvency, Solvent
<1>1. CASE Same
  BY <1>0, <1>1, ZenonT(30)
<1>2. ASSUME NEW a \in Agents, NEW n \in Amounts, deposit_collateral(a, n)
      PROVE  Solvent(float'[b], collateral'[b], haircut_bps'[b])
  <2>1. /\ n \in Nat
        /\ float'[b] = float[b]
        /\ collateral'[b] = collateral[b] \/ collateral'[b] = collateral[b] + n
    BY <1>2, InputAssumption DEF deposit_collateral, TypeOK
  <2>2. CASE haircut_bps'[b] = haircut_bps[b]
    BY <1>0, <2>1, <2>2, SolventMonotone
  <2>3. CASE haircut_bps'[b] # haircut_bps[b]
    <3>1. haircut_bps[b] = 0 /\ haircut_bps'[b] \in Nat
      BY <1>2, <2>3, BPSAssumption DEF deposit_collateral, TypeOK
    <3>2. float[b] = 0
      BY <1>0, <3>1, BPSAssumption DEF Solvent
    <3>. QED
      BY <1>0, <2>1, <3>1, <3>2, NoFloatIsSolvent
  <2>. QED
    BY <2>2, <2>3, ZenonT(30)
<1>3. ASSUME NEW a \in Agents, NEW n \in Amounts, withdraw_collateral(a, n)
      PROVE  Solvent(float'[b], collateral'[b], haircut_bps'[b])
  <2>1. float'[b] = float[b] /\ haircut_bps'[b] = haircut_bps[b]
    BY <1>3, ZenonT(30) DEF withdraw_collateral
  <2>2. CASE b # a
    BY <1>0, <1>3, <2>1, <2>2, ZenonT(30) DEF withdraw_collateral, TypeOK
  <2>3. CASE b = a
    <3>1. /\ collateral'[b] = collateral[b] - n
          /\ n \in Int /\ n > 0 /\ collateral[b] - n >= 0
          /\ float[b] > 0 => float[b] <= max_float_of(collateral[b] - n, haircut_bps[b])
      BY <1>3, <2>3, InputAssumption, ZenonT(30) DEF withdraw_collateral, TypeOK
    <3>2. collateral[b] - n \in 0..collateral[b] /\ collateral[b] - n \in Nat
      BY <1>0, <3>1
    <3>3. CASE float[b] = 0
      BY <1>0, <2>1, <3>1, <3>2, <3>3, NoFloatIsSolvent, ZenonT(30)
    <3>4. CASE float[b] > 0
      BY <1>0, <2>1, <3>1, <3>2, <3>4, CheckedIsSolvent, ZenonT(30)
    <3>. QED
      BY <1>0, <3>3, <3>4
  <2>. QED
    BY <2>2, <2>3
\* Mints, incoming transfers and settlements: the new float was checked.
<1>4. ASSUME UNCHANGED <<collateral, haircut_bps>>, float'[b] \in Nat,
             float'[b] <= max_float(b)
      PROVE  Solvent(float'[b], collateral'[b], haircut_bps'[b])
  BY <1>0, <1>4, CheckedIsSolvent, ZenonT(30) DEF max_float
\* Burns and outgoing transfers: the float only falls.
<1>5. ASSUME UNCHANGED <<collateral, haircut_bps>>, float'[b] \in 0..float[b]
      PROVE  Solvent(float'[b], collateral'[b], haircut_bps'[b])
  BY <1>0, <1>5, SolventMonotone
<1>6. ASSUME NEW a \in Agents, NEW n \in Amounts, mint_float(a, n)
      PROVE  Solvent(float'[b], collateral'[b], haircut_bps'[b])
  <2>1. UNCHANGED <<collateral, haircut_bps>> /\ n \in Int /\ n > 0
    BY <1>6, InputAssumption, ZenonT(30) DEF mint_float
  <2>2. CASE b # a
    BY <1>0, <1>5, <1>6, <2>1, <2>2, ZenonT(30) DEF mint_float, TypeOK
  <2>3. CASE b = a
    <3>1. float'[b] = float[b] + n /\ float[b] + n <= max_float(b)
      BY <1>6, <2>3, ZenonT(30) DEF mint_float, TypeOK
    <3>2. float'[b] \in Nat
      BY <1>0, <2>1, <3>1
    <3>. QED
      BY <1>4, <2>1, <3>1, <3>2, ZenonT(30)
  <2>. QED
    BY <2>2, <2>3, ZenonT(30)
<1>7. ASSUME NEW a \in Agents, NEW n \in Amounts, burn_float(a, n)
      PROVE  Solvent(float'[b], collateral'[b], haircut_bps'[b])
  <2>1. UNCHANGED <<collateral, haircut_bps>> /\ n \in Int /\ n > 0
    BY <1>7, InputAssumption, ZenonT(30) DEF burn_float
  <2>2. float'[b] \in 0..float[b]
    BY <1>0, <1>7, <2>1 DEF burn_float, TypeOK
  <2>. QED
    BY <1>5, <2>1, <2>2, ZenonT(30)
<1>8. ASSUME NEW from \in Agents, NEW to \in Agents, NEW n \in Amounts,
              transfer_float(from, to, n)
       PROVE  Solvent(float'[b], collateral'[b], haircut_bps'[b])
  <2>1. /\ UNCHANGED <<collateral, haircut_bps>>
        /\ n \in Int /\ n > 0 /\ from # to
        /\ float[from] - n >= 0 /\ float[to] + n <= max_float(to)
        /\ float' = [float EXCEPT ![from] = float[from] - n, ![to] = float[to] + n]
    BY <1>8, InputAssumption, ZenonT(30) DEF transfer_float, transfer_both
  <2>2. CASE b # to
    <3>1. float'[b] \in 0..float[b]
      BY <1>0, <2>1, <2>2 DEF TypeOK
    <3>. QED
      BY <1>5, <2>1, <3>1, ZenonT(30)
  <2>3. CASE b = to
    <3>1. float'[b] = float[b] + n
      BY <2>1, <2>3, ZenonT(30) DEF TypeOK
    <3>2. float'[b] \in Nat
      BY <1>0, <2>1, <3>1
    <3>. QED
      BY <1>4, <2>1, <2>3, <3>1, <3>2, ZenonT(30)
  <2>. QED
    BY <2>2, <2>3, ZenonT(30)
<1>9. ASSUME NEW entries \in Batches, settle_net(entries)
       PROVE  Solvent(float'[b], collateral'[b], haircut_bps'[b])
  <2>1. UNCHANGED <<collateral, haircut_bps>>
    BY <1>9, ZenonT(30) DEF settle_net
  <2>2. CASE b \in touched(entries, Len(entries))
    <3>1. float'[b] = float[b] + delta(entries, b, Len(entries))
      BY <1>9, <2>2, ZenonT(30) DEF settle_net
    <3>2. float'[b] \in 0..max_float(b)
      BY <1>9, <2>2, <3>1, SettledInBounds, ZenonT(30)
    <3>3. max_float(b) \in Nat
      BY MaxFloatType, WidthAssumption
    <3>4. float'[b] \in Nat /\ float'[b] <= max_float(b)
      BY <3>2, <3>3
    <3>. QED
      BY <1>4, <2>1, <3>4, ZenonT(30)
  <2>3. CASE b \notin touched(entries, Len(entries))
    <3>1. float'[b] = float[b]
      BY <1>9, <2>3, ZenonT(30) DEF settle_net
    <3>. QED
      BY <1>0, <2>1, <3>1, ZenonT(30)
  <2>. QED
    BY <2>2, <2>3, ZenonT(30)
<1>10. ASSUME NEW a \in Agents, NEW h \in Haircuts, set_haircut(a, h)
       PROVE  Solvent(float'[b], collateral'[b], haircut_bps'[b])
  <2>1. UNCHANGED <<collateral, float>>
    BY <1>10, ZenonT(30) DEF set_haircut
  <2>2. CASE b # a
    BY <1>0, <1>10, <2>1, <2>2, ZenonT(30) DEF set_haircut, TypeOK
  <2>3. CASE b = a
    <3>1. haircut_bps'[b] = h /\ float[b] <= max_float_of(collateral[b], h)
      BY <1>10, <2>3, ZenonT(30) DEF set_haircut, TypeOK
    <3>2. h \in 0..BPS
      BY <1>10, BPSAssumption DEF set_haircut, TypeOK, NoParams
    <3>. QED
      BY <1>0, <2>1, <3>1, <3>2, CheckedIsSolvent, ZenonT(30)
  <2>. QED
    BY <2>2, <2>3, ZenonT(30)
<1>. QED
  BY <1>1, <1>2, <1>3, <1>6, <1>7, <1>8, <1>9, <1>10, ZenonT(30)
  DEF Next, vars, vault, init, vault_upgrade, vault_ledger_close, breaker_changes

\* The header's solvency rule holds at every commit, for every set of agents,
\* provided no one owns so much USDC that collateral * 10_000 overflows.
THEOREM VaultSolvent == NoOverflow => (Spec => []Solvency)
<1>. SUFFICES ASSUME NoOverflow PROVE Spec => []Solvency
  OBVIOUS
<1>1. Init => Solvency
  BY NoFloatIsSolvent, ZenonT(30) DEF Init, Solvency, Solvent
<1>2. TypeOK /\ CollateralIsOwners /\ Solvency /\ [Next]_vars => Solvency'
  BY SolvencyStep, ZenonT(30)
<1>. QED
  BY <1>1, <1>2, TypeCorrect, CollateralStaysOwners, PTL DEF Spec

-----------------------------------------------------------------------------
(* Submissions, for every number of requests, keys and Redis failures.  The   *)
(* one assumption on the constants is that a lock token differs from the mark *)
(* of a free lock.                                                            *)

Places == {"idle", "look", "reserve", "reread", "conflict", "check", "redundant", "handling",
           "finish", "release", "answered", "lost"}

SubmitTypeOK ==
    /\ DOMAIN attempt = Attempts
    /\ \A r \in Attempts : /\ DOMAIN attempt[r] = {"at", "status", "blind"}
                          /\ attempt[r].at \in Places /\ attempt[r].status \in Int
    /\ cached \in [Keys -> Int]
    /\ lock \in [Keys -> Attempts \cup {Unlocked}]
    /\ phase \in [Attempts -> {"send", "poll", "record"}]
    /\ network \in {"unknown", "pending", "applied", "failed"}

(* Only requests with a key go through the middleware's reads and locks. *)
KeyedPlaces == Places \ {"idle", "handling", "finish", "answered", "lost"}

OnlyKeyed == \A r \in Attempts : attempt[r].at \in KeyedPlaces => KeyOf[r] # NoKey

(* From taking the lock to giving it back the token in Redis is the           *)
(* request's own, so that deleteIfMatch and SET NX keep the others out.       *)
Holding == {"check", "redundant", "handling", "finish", "release"}

HoldsLock ==
    \A r \in Attempts :
        attempt[r].at \in Holding /\ KeyOf[r] # NoKey => lock[KeyOf[r]] = r

(* A handler records only what the network has applied, and what is replayed  *)
(* from the cache is as good as what was answered.                            *)
Settled == network = "applied" /\ recorded

AnswersSettled ==
    /\ \A r \in Attempts : attempt[r].status = 200 => Settled
    /\ \A k \in Keys : cached[k] = 200 => Settled
    /\ \A r \in Attempts : phase[r] = "record" => network = "applied"

SubmitInv == SubmitTypeOK /\ OnlyKeyed /\ HoldsLock /\ AnswersSettled

(* The key of a request that has one is a key of the Redis entries. *)
LEMMA KeyIsKey == \A r \in Attempts : KeyOf[r] # NoKey => KeyOf[r] \in Keys
BY ZenonT(30) DEF Keys

(* The invariant holds before any request arrives. *)
LEMMA SubmitInitially == SubmitInit => SubmitInv
BY DEF SubmitInit, IdempInit, SubmitInv, SubmitTypeOK, OnlyKeyed, HoldsLock, AnswersSettled,
       Settled, Places, KeyedPlaces, Holding, None, Unlocked

(* A step that moves one request, to a place and a status. *)
Moved(r, at, status) ==
    /\ DOMAIN attempt' = Attempts
    /\ \A s \in Attempts \ {r} : attempt'[s] = attempt[s]
    /\ DOMAIN attempt'[r] = {"at", "status", "blind"}
    /\ attempt'[r].at = at /\ attempt'[r].status = status

(* The moves of the middleware and of the handler are of that kind. *)
LEMMA Moves ==
    ASSUME SubmitTypeOK, NEW r \in Attempts
    PROVE  /\ \A at : goes(r, at) => Moved(r, at, attempt[r].status)
           /\ \A at : goes_on(r, at, TRUE) \/ goes_on(r, at, FALSE)
                        => Moved(r, at, attempt[r].status)
           /\ \A status : answered(r, status) => Moved(r, "answered", status)
           /\ \A status : responds(r, status) => Moved(r, "finish", status)
<1>1. ASSUME NEW at, goes(r, at) PROVE Moved(r, at, attempt[r].status)
  BY <1>1, ZenonT(30) DEF SubmitTypeOK, Moved, goes
<1>2. ASSUME NEW at, goes_on(r, at, TRUE) PROVE Moved(r, at, attempt[r].status)
  BY <1>2, ZenonT(30) DEF SubmitTypeOK, Moved, goes_on
<1>3. ASSUME NEW at, goes_on(r, at, FALSE) PROVE Moved(r, at, attempt[r].status)
  BY <1>3, ZenonT(30) DEF SubmitTypeOK, Moved, goes_on
<1>4. ASSUME NEW status, answered(r, status) PROVE Moved(r, "answered", status)
  BY <1>4, ZenonT(30) DEF SubmitTypeOK, Moved, answered
<1>5. ASSUME NEW status, responds(r, status) PROVE Moved(r, "finish", status)
  BY <1>5, ZenonT(30) DEF SubmitTypeOK, Moved, responds
<1> QED
  BY <1>1, <1>2, <1>3, <1>4, <1>5, ZenonT(30)

(* Such a step keeps the invariant if the request has the key, the lock and   *)
(* the settled transaction that its new place and status ask for.             *)
LEMMA AttemptKeeps ==
    ASSUME SubmitInv, NEW r \in Attempts, NEW at \in Places, NEW status \in Int,
           Moved(r, at, status), UNCHANGED <<cached, lock>>,
           phase' \in [Attempts -> {"send", "poll", "record"}],
           \A s \in Attempts : phase'[s] = "record" => network' = "applied",
           network' \in {"unknown", "pending", "applied", "failed"},
           Settled => Settled',
           status = 200 => Settled',
           at \in KeyedPlaces => KeyOf[r] # NoKey,
           at \in Holding /\ KeyOf[r] # NoKey => lock[KeyOf[r]] = r
    PROVE  SubmitInv'
<1>1. SubmitTypeOK'
  BY ZenonT(30) DEF SubmitInv, SubmitTypeOK, Moved
<1>2. OnlyKeyed' /\ HoldsLock'
  BY ZenonT(30) DEF SubmitInv, SubmitTypeOK, Moved, OnlyKeyed, HoldsLock
<1>3. AnswersSettled'
  BY DEF SubmitInv, SubmitTypeOK, Moved, AnswersSettled
<1> QED
  BY <1>1, <1>2, <1>3, ZenonT(30) DEF SubmitInv

(* The steps of the middleware's reads keep the invariant: they leave the     *)
(* lock, the cache and the database alone.                                    *)
LEMMA ReadsKeep ==
    ASSUME SubmitInv, NEW r \in Attempts,
           arrive(r) \/ look(r) \/ reread(r) \/ conflict(r) \/ check(r) \/ connection_lost(r),
           UNCHANGED <<phase, network, recorded>>
    PROVE  SubmitInv'
<1>1. /\ attempt[r].at \in Places /\ attempt[r].status \in Int /\ SubmitTypeOK
      /\ attempt[r].status = 200 => Settled'
      /\ KeyOf[r] # NoKey => /\ cached[KeyOf[r]] \in Int
                             /\ cached[KeyOf[r]] = 200 => Settled'
      /\ attempt[r].at \in KeyedPlaces => KeyOf[r] # NoKey
      /\ attempt[r].at \in Holding /\ KeyOf[r] # NoKey => lock[KeyOf[r]] = r
  BY KeyIsKey DEF SubmitInv, SubmitTypeOK, OnlyKeyed, HoldsLock, AnswersSettled, Settled
<1>2. (Settled => Settled') /\ UNCHANGED <<cached, lock>>
  BY ZenonT(30) DEF Settled, arrive, look, reread, conflict, check, connection_lost
<1>3. ASSUME NEW at \in Places, NEW status \in Int, Moved(r, at, status),
             status = 200 => Settled',
             at \in KeyedPlaces => KeyOf[r] # NoKey,
             at \in Holding /\ KeyOf[r] # NoKey => lock[KeyOf[r]] = r
      PROVE  SubmitInv'
  BY <1>2, <1>3, AttemptKeeps, ZenonT(30) DEF SubmitInv, SubmitTypeOK, AnswersSettled
<1>4. /\ \A status : answered(r, status) => Moved(r, "answered", status)
      /\ \A at : goes(r, at) => Moved(r, at, attempt[r].status)
  <2>1. SubmitTypeOK
    BY ZenonT(30) DEF SubmitInv
  <2> QED
    BY <2>1, Moves, ZenonT(30)
<1> USE DEF Places, KeyedPlaces, Holding
<1>5. CASE arrive(r)
  <2>1. CASE answered(r, 503)
    <3>1. Moved(r, "answered", 503)
      BY <1>4, <2>1, ZenonT(30)
    <3> QED
      BY <1>3, <3>1
  <2>2. CASE KeyOf[r] = NoKey /\ goes(r, "handling")
    BY <1>1, <1>3, <1>4, <2>2, ZenonT(30)
  <2>3. CASE KeyOf[r] # NoKey /\ goes(r, "look")
    BY <1>1, <1>3, <1>4, <2>3, ZenonT(30)
  <2> QED
    BY <1>5, <2>1, <2>2, <2>3, ZenonT(30) DEF arrive
<1>6. CASE look(r)
  BY <1>1, <1>3, <1>6, Moves, ZenonT(30) DEF look, get
<1>7. CASE reread(r)
  BY <1>1, <1>3, <1>7, Moves, ZenonT(30) DEF reread, get
<1>8. CASE conflict(r)
  <2>1. answered(r, 409)
    BY <1>8, ZenonT(30) DEF conflict
  <2>2. Moved(r, "answered", 409)
    BY <1>4, <2>1, ZenonT(30)
  <2> QED
    BY <1>3, <2>2
<1>9. CASE check(r)
  BY <1>1, <1>3, <1>9, Moves, ZenonT(30) DEF check, check_again, second_read
<1>10. CASE connection_lost(r)
  BY <1>1, <1>3, <1>10, Moves, ZenonT(30) DEF connection_lost
<1> QED
  BY <1>5, <1>6, <1>7, <1>8, <1>9, <1>10, ZenonT(30)

(* So do the steps that take the lock, give it back, or store an answer.      *)
LEMMA LockingKeeps ==
    ASSUME TokenConstants, SubmitInv, NEW r \in Attempts,
           reserve(r) \/ reserve_fails(r) \/ redundant(r) \/ finish(r) \/ release(r),
           UNCHANGED <<phase, network, recorded>>
    PROVE  SubmitInv'
<1> USE DEF SubmitInv, SubmitTypeOK, OnlyKeyed, HoldsLock, AnswersSettled, Settled, Places,
            KeyedPlaces, Holding, goes, answered, TokenConstants
<1>1. CASE reserve(r)
  BY <1>1, KeyIsKey DEF reserve
<1>2. CASE reserve_fails(r)
  BY <1>2 DEF reserve_fails, reserve_fails_to, reserve_refused
<1>3. CASE redundant(r)
  BY <1>3, KeyIsKey DEF redundant, released
<1>4. CASE finish(r)
  BY <1>4, KeyIsKey DEF finish
<1>5. CASE release(r)
  BY <1>5, KeyIsKey DEF release, released
<1> QED
  BY <1>1, <1>2, <1>3, <1>4, <1>5, ZenonT(30)

(* So do the steps of the handler: sending, polling, recording. *)
LEMMA HandlingKeeps ==
    ASSUME SubmitInv, NEW r \in Attempts,
           submitSignedTx(r) \/ pollTransaction(r) \/ withStellarAndDbTransaction(r)
    PROVE  SubmitInv'
<1> DEFINE Networks == {"unknown", "pending", "applied", "failed"}
           Phases == {"send", "poll", "record"}
<1>1. /\ SubmitTypeOK /\ phase \in [Attempts -> Phases] /\ network \in Networks
      /\ attempt[r].at = "handling" /\ attempt[r].status \in Int
      /\ KeyOf[r] # NoKey => lock[KeyOf[r]] = r
      /\ \A s \in Attempts : phase[s] = "record" => network = "applied"
  BY ZenonT(30) DEF SubmitInv, SubmitTypeOK, HoldsLock, Holding, AnswersSettled, submitSignedTx,
         pollTransaction, withStellarAndDbTransaction
<1>2. UNCHANGED <<cached, lock>>
  BY ZenonT(30) DEF submitSignedTx, pollTransaction, withStellarAndDbTransaction, kept
<1>3. ASSUME NEW status \in Int, responds(r, status), status = 200 => Settled',
             Settled => Settled', network' \in Networks, network = "applied" => network' = network
      PROVE  SubmitInv'
  <2>1. UNCHANGED phase /\ Moved(r, "finish", status)
    BY <1>1, <1>3, Moves, ZenonT(30) DEF responds
  <2>2. "finish" \in Places /\ "finish" \notin KeyedPlaces
    BY ZenonT(30) DEF Places, KeyedPlaces
  <2> QED
    BY <1>1, <1>2, <1>3, <2>1, <2>2, AttemptKeeps, ZenonT(30)
<1>4. ASSUME NEW p \in Phases, phase' = [phase EXCEPT ![r] = p], UNCHANGED attempt,
             p = "record" => network' = "applied",
             Settled => Settled', network' \in Networks, network = "applied" => network' = network
      PROVE  SubmitInv'
  BY <1>1, <1>2, <1>4 DEF SubmitInv, SubmitTypeOK, OnlyKeyed, HoldsLock, AnswersSettled
<1>5. CASE submitSignedTx(r)
  <2>1. PICK status \in {"PENDING", "DUPLICATE", "ERROR", "TRY_AGAIN_LATER", "throws"} :
           /\ sendTransaction(status)
           /\ \/ /\ status \in {"PENDING", "DUPLICATE"}
                 /\ phase' = [phase EXCEPT ![r] = "poll"]
                 /\ UNCHANGED attempt
              \/ /\ status \in {"ERROR", "TRY_AGAIN_LATER"}
                 /\ responds(r, transactionNotSuccessful(status))
              \/ status = "throws" /\ responds(r, 500)
    BY <1>5, ZenonT(30) DEF submitSignedTx
  <2>2. network' \in Networks /\ (network = "applied" => network' = network)
    BY <1>1, <2>1, ZenonT(30) DEF sendTransaction
  <2>3. Settled => Settled'
    BY <1>5, <2>2, ZenonT(30) DEF Settled, submitSignedTx
  <2> QED
    BY <1>3, <1>4, <2>1, <2>2, <2>3 DEF transactionNotSuccessful
<1>6. CASE pollTransaction(r)
  <2>1. UNCHANGED <<network, recorded>> /\ (Settled => Settled')
    BY <1>6, ZenonT(30) DEF pollTransaction, Settled
  <2>2. polled_status = "SUCCESS" => network = "applied"
    BY <1>1, ZenonT(30) DEF polled_status, poll_result
  <2>3. \/ polled_status = "SUCCESS" /\ phase' = [phase EXCEPT ![r] = "record"] /\ UNCHANGED attempt
        \/ responds(r, transactionNotSuccessful(polled_status))
        \/ responds(r, 500)
    BY <1>6, ZenonT(30) DEF pollTransaction
  <2>4. transactionNotSuccessful(polled_status) \in {503, 400}
    BY DEF transactionNotSuccessful
  <2> QED
    BY <1>1, <1>3, <1>4, <2>1, <2>2, <2>3, <2>4
<1>7. CASE withStellarAndDbTransaction(r)
  <2>1. UNCHANGED network /\ network = "applied"
    BY <1>1, <1>7, ZenonT(30) DEF withStellarAndDbTransaction
  <2>2. \/ recorded' = TRUE /\ responds(r, 200)
        \/ responds(r, 500) /\ UNCHANGED recorded
    BY <1>7, ZenonT(30) DEF withStellarAndDbTransaction
  <2>3. Settled => Settled'
    BY <2>1, <2>2, ZenonT(30) DEF Settled
  <2> QED
    BY <1>1, <1>3, <2>1, <2>2, <2>3 DEF Settled
<1> QED
  BY <1>5, <1>6, <1>7, ZenonT(30)

(* Every step keeps the invariant. *)
LEMMA SubmitStep ==
    ASSUME TokenConstants, SubmitInv, [SubmitNext]_submit_vars
    PROVE  SubmitInv'
<1>1. CASE \E r \in Attempts : IdempStep(r) /\ UNCHANGED <<phase, network, recorded>>
  BY <1>1, ReadsKeep, LockingKeeps, ZenonT(30) DEF IdempStep
<1>2. CASE \E r \in Attempts :
               submitSignedTx(r) \/ pollTransaction(r) \/ withStellarAndDbTransaction(r)
  BY <1>2, HandlingKeeps, ZenonT(30)
<1>3. CASE reset_timeout_passes /\ UNCHANGED <<phase, network, recorded>>
  BY <1>3 DEF reset_timeout_passes, SubmitInv, SubmitTypeOK, OnlyKeyed, HoldsLock,
              AnswersSettled, Settled
<1>4. CASE \E k \in Keys : lock_expires(k) /\ UNCHANGED <<phase, network, recorded>>
  <2> PICK k \in Keys : lock_expires(k) /\ UNCHANGED <<phase, network, recorded>>
    BY <1>4, ZenonT(30)
  <2>1. HoldsLock'
    BY KeyIsKey, ZenonT(30) DEF lock_expires, SubmitInv, SubmitTypeOK, HoldsLock, Holding
  <2>2. SubmitTypeOK' /\ OnlyKeyed' /\ AnswersSettled'
    BY DEF lock_expires, SubmitInv, SubmitTypeOK, OnlyKeyed, AnswersSettled, Settled
  <2> QED
    BY <2>1, <2>2, ZenonT(30) DEF SubmitInv
<1>5. CASE ledger_decides
  BY <1>5 DEF ledger_decides, idemp_vars, SubmitInv, SubmitTypeOK, OnlyKeyed, HoldsLock,
              AnswersSettled, Settled
<1>6. CASE UNCHANGED submit_vars
  BY <1>6 DEF submit_vars, idemp_vars, SubmitInv, SubmitTypeOK, OnlyKeyed, HoldsLock,
              AnswersSettled, Settled
<1> QED
  BY <1>1, <1>2, <1>3, <1>4, <1>5, <1>6, ZenonT(30) DEF SubmitNext

(* Types, the lock's ownership and the worth of a 200 hold in every state.    *)
THEOREM SubmissionInvariant ==
    ASSUME TokenConstants
    PROVE  SubmitSpec => []SubmitInv
<1>1. SubmitInit => SubmitInv
  BY SubmitInitially, ZenonT(30)
<1>2. SubmitInv /\ [SubmitNext]_submit_vars => SubmitInv'
  BY SubmitStep, ZenonT(30)
<1> QED
  BY <1>1, <1>2, PTL DEF SubmitSpec

(* Once an answer is stored under a key, a request with that key is executed  *)
(* again only if the read after taking the lock failed.                       *)
THEOREM StoredAnswerSpares ==
    ASSUME TokenConstants
    PROVE  SubmitSpec => [][ReExecutedBlind]_submit_vars
<1>1. SubmitInv /\ [SubmitNext]_submit_vars => [ReExecutedBlind]_submit_vars
  <2> SUFFICES ASSUME SubmitInv, SubmitNext, NEW s \in Attempts,
                      attempt[s].at # "handling", attempt'[s].at = "handling", KeyOf[s] # NoKey
               PROVE  cached[KeyOf[s]] = None \/ attempt'[s].blind
    BY ZenonT(30) DEF ReExecutedBlind
  <2> USE DEF SubmitInv, SubmitTypeOK
  <2>1. CASE \E r \in Attempts : IdempStep(r)
    <3> PICK r \in Attempts : IdempStep(r)
      BY <2>1, ZenonT(30)
    <3>1. ASSUME NEW at, NEW status, Moved(r, at, status)
          PROVE  s = r /\ at = "handling"
      BY <3>1, ZenonT(30) DEF Moved
    <3>2. /\ \A at : at # "handling" => ~goes(r, at)
          /\ \A at : at # "handling" => ~goes_on(r, at, TRUE) /\ ~goes_on(r, at, FALSE)
          /\ \A status : ~answered(r, status)
      <4>1. ASSUME NEW at, at # "handling" PROVE ~goes(r, at)
        BY <3>1, <4>1, Moves, ZenonT(30)
      <4>2. ASSUME NEW at, at # "handling" PROVE ~goes_on(r, at, TRUE) /\ ~goes_on(r, at, FALSE)
        BY <3>1, <4>2, Moves, ZenonT(30)
      <4>3. ASSUME NEW status PROVE ~answered(r, status)
        <5>1. SUFFICES ASSUME answered(r, status) PROVE FALSE
          OBVIOUS
        <5>2. Moved(r, "answered", status)
          BY <5>1, Moves, ZenonT(30)
        <5> QED
          BY <3>1, <5>2
      <4> QED
        BY <4>1, <4>2, <4>3, ZenonT(30)
    <3>3. CASE check(r)
      <4>1. CASE goes_on(r, "handling", TRUE)
        BY <3>1, <4>1, Moves, ZenonT(30) DEF goes_on
      <4>2. CASE cached[KeyOf[r]] = None /\ goes_on(r, "handling", FALSE)
        BY <3>1, <4>2, Moves, ZenonT(30)
      <4> QED
        BY <3>2, <3>3, <4>1, <4>2, ZenonT(30) DEF check, check_again, second_read
    <3>4. CASE arrive(r)
      <4>1. ASSUME goes(r, "handling") PROVE s = r
        <5>1. Moved(r, "handling", attempt[r].status)
          BY <4>1, Moves, ZenonT(30)
        <5> QED
          BY <3>1, <5>1, ZenonT(30)
      <4> QED
        BY <3>2, <3>4, <4>1, ZenonT(30) DEF arrive
    <3>5. CASE look(r) \/ reread(r) \/ conflict(r) \/ connection_lost(r)
      BY <3>2, <3>5, ZenonT(30) DEF look, reread, get, conflict, connection_lost
    <3>6. CASE reserve(r) \/ reserve_fails(r) \/ redundant(r) \/ finish(r) \/ release(r)
      BY <3>2, <3>6, ZenonT(30) DEF reserve, reserve_fails, reserve_fails_to, reserve_refused, redundant,
                        finish, release
    <3> QED
      BY <3>3, <3>4, <3>5, <3>6, ZenonT(30) DEF IdempStep
  <2>2. CASE \E r \in Attempts :
                 submitSignedTx(r) \/ pollTransaction(r) \/ withStellarAndDbTransaction(r)
    BY <2>2 DEF submitSignedTx, pollTransaction, withStellarAndDbTransaction, responds
  <2>3. CASE reset_timeout_passes \/ (\E k \in Keys : lock_expires(k)) \/ ledger_decides
    BY <2>3, ZenonT(30) DEF reset_timeout_passes, lock_expires, ledger_decides, idemp_vars
  <2> QED
    BY <2>1, <2>2, <2>3, ZenonT(30) DEF SubmitNext
<1> QED
  BY <1>1, SubmissionInvariant, PTL DEF SubmitSpec

(* Whatever Redis does, two requests with one Idempotency-Key are never       *)
(* executed at the same time (the lock would carry both tokens), and one with *)
(* a stored answer is executed again only if the read after taking the lock   *)
(* failed (idempotencyMiddleware).                                            *)
THEOREM NeverTwice ==
    ASSUME TokenConstants
    PROVE  SubmitSpec => OneAtATime
<1>1. SubmitInv /\ SubmitInv' /\ [ReExecutedBlind]_submit_vars
        => [ReExecutedBlind /\ HandledApart']_submit_vars
  <2>1. SubmitInv' => HandledApart'
    BY ZenonT(30) DEF SubmitInv, HoldsLock, Holding, HandledApart, Executing
  <2> QED BY <2>1, ZenonT(30)
<1> QED
  BY <1>1, SubmissionInvariant, StoredAnswerSpares, PTL DEF OneAtATime

(* A 200, fresh or replayed, is of a transaction the network applied and the  *)
(* database knows of.                                                         *)
THEOREM OkIsSettled ==
    ASSUME TokenConstants
    PROVE  SubmitSpec => []OkMeansSettled
<1>1. SubmitInv => OkMeansSettled
  BY ZenonT(30) DEF SubmitInv, AnswersSettled, Settled, OkMeansSettled
<1> QED
  BY <1>1, SubmissionInvariant, PTL

-----------------------------------------------------------------------------
(* Unsigned transactions: what the cache holds is what its key says, so that   *)
(* a transaction found there is the one this request asked for.                *)

(* The transaction is of this request: its source, its call and its values.   *)
AsAsked(ask, tx) ==
    /\ tx.source = ask.user
    /\ tx.call = builder[ask.endpoint]
    /\ tx.values = [i \in DOMAIN tx.call.args |-> ask[tx.call.args[i].field]]

Admitted(ask) == ask \in Asks /\ ask.claimed \in {ask.user, NoClaim}

(* A request that goes on was admitted, and what it found or built is its own. *)
RequestServed(r) ==
    /\ r.at \in {"build", "store", "answered"} => Admitted(r.ask)
    /\ r.at \in {"store", "answered"} => AsAsked(r.ask, r.tx)

CachedAsAsked(entry) ==
    \E ask \in Asks : /\ ask.endpoint \in DOMAIN key_fields
                      /\ entry.key = pending_key(ask)
                      /\ AsAsked(ask, entry.tx)

BuildInv ==
    /\ DOMAIN handling = Handlers
    /\ \A h \in Handlers : RequestServed(handling[h])
    /\ \A entry \in unsigned : CachedAsAsked(entry)

(* The key of an endpoint has its user and every field its call takes.        *)
LEMMA KeysCover ==
    ASSUME NEW e \in DOMAIN key_fields
    PROVE  /\ \E i \in DOMAIN key_fields[e] : key_fields[e][i] = "user"
           /\ \A j \in DOMAIN builder[e].args :
                  \E i \in DOMAIN key_fields[e] : key_fields[e][i] = builder[e].args[j].field
<1>1. CASE e = "requestLoan"
  <2>1. key_fields[e] = <<"user", "amount", "term">> /\ builder[e] = buildRequestLoanTx
    BY <1>1 DEF key_fields, builder
  <2> QED
    BY <2>1 DEF buildRequestLoanTx, Call, Arg
<1>2. CASE e = "repayLoan"
  <2>1. key_fields[e] = <<"user", "loan", "amount">> /\ builder[e] = buildRepayTx
    BY <1>2 DEF key_fields, builder
  <2> QED
    BY <2>1 DEF buildRepayTx, Call, Arg
<1>3. CASE e = "depositCollateral"
  <2>1. key_fields[e] = <<"user", "loan", "amount">> /\ builder[e] = buildDepositCollateralTx
    BY <1>3 DEF key_fields, builder
  <2> QED
    BY <2>1 DEF buildDepositCollateralTx, Call, Arg
<1>4. CASE e = "releaseCollateral"
  <2>1. key_fields[e] = <<"user", "loan">> /\ builder[e] = buildReleaseCollateralTx
    BY <1>4 DEF key_fields, builder
  <2> QED
    BY <2>1 DEF buildReleaseCollateralTx, Call, Arg
<1>5. CASE e = "refinanceLoan"
  <2>1. key_fields[e] = <<"user", "loan", "amount", "term">> /\ builder[e] = buildRefinanceLoanTx
    BY <1>5 DEF key_fields, builder
  <2> QED
    BY <2>1 DEF buildRefinanceLoanTx, Call, Arg
<1>6. CASE e = "extendLoan"
  <2>1. key_fields[e] = <<"user", "loan", "term">> /\ builder[e] = buildExtendLoanTx
    BY <1>6 DEF key_fields, builder
  <2> QED
    BY <2>1 DEF buildExtendLoanTx, Call, Arg
<1>7. CASE e = "buildLiquidateLoan"
  <2>1. key_fields[e] = <<"user", "loan">> /\ builder[e] = buildLiquidateTx
    BY <1>7 DEF key_fields, builder
  <2> QED
    BY <2>1 DEF buildLiquidateTx, Call, Arg
<1> QED
  BY <1>1, <1>2, <1>3, <1>4, <1>5, <1>6, <1>7, ZenonT(30) DEF key_fields

(* Two requests with one key want one transaction.                            *)
LEMMA SameKeySameAsk ==
    ASSUME NEW ask, NEW other, NEW tx, ask.endpoint \in DOMAIN key_fields,
           pending_key(ask) = pending_key(other), AsAsked(other, tx)
    PROVE  AsAsked(ask, tx)
<1> DEFINE e == ask.endpoint
           f == key_fields[e]
<1>1. other.endpoint = e /\ \A i \in DOMAIN f : ask[f[i]] = other[f[i]]
  <2> DEFINE g == key_fields[other.endpoint]
             mine == [i \in DOMAIN f |-> ask[f[i]]]
             its == [i \in DOMAIN g |-> other[g[i]]]
  <2>1. <<e, mine>> = <<other.endpoint, its>>
    BY ZenonT(30) DEF pending_key, key_of
  <2> HIDE DEF mine, its
  <2>2. other.endpoint = e /\ mine = its
    BY <2>1
  <2>3. [i \in DOMAIN f |-> ask[f[i]]] = [i \in DOMAIN f |-> other[f[i]]]
    BY <2>2, ZenonT(30) DEF mine, its
  <2> HIDE DEF f, e
  <2>4. ASSUME NEW i \in DOMAIN f PROVE ask[f[i]] = other[f[i]]
    <3>1. [j \in DOMAIN f |-> ask[f[j]]][i] = [j \in DOMAIN f |-> other[f[j]]][i]
      BY <2>3
    <3> QED BY <3>1
  <2> QED BY <2>2, <2>4
<1>2. ask.user = other.user
  BY <1>1, KeysCover
<1>3. \A j \in DOMAIN builder[e].args : ask[builder[e].args[j].field] = other[builder[e].args[j].field]
  BY <1>1, KeysCover
<1> HIDE DEF e, f
<1>4. /\ tx.source = other.user /\ tx.call = builder[e]
      /\ tx.values = [i \in DOMAIN tx.call.args |-> other[tx.call.args[i].field]]
  BY <1>1, ZenonT(30) DEF AsAsked
<1>5. tx.values = [i \in DOMAIN tx.call.args |-> ask[tx.call.args[i].field]]
  BY <1>3, <1>4
<1> QED
  BY <1>2, <1>4, <1>5, ZenonT(30) DEF AsAsked, e

(* A handler's move keeps the invariant if the record it moves to is sound.   *)
LEMMA HandlerMoves ==
    ASSUME BuildInv, NEW h \in Handlers, NEW r, moves(h, r), RequestServed(r),
           \A entry \in unsigned' : CachedAsAsked(entry)
    PROVE  BuildInv'
<1>1. handling' = [handling EXCEPT ![h] = r] /\ DOMAIN handling = Handlers
  BY ZenonT(30) DEF moves, BuildInv
<1>2. DOMAIN handling' = Handlers /\ \A g \in Handlers : handling'[g] = IF g = h THEN r ELSE handling[g]
  BY <1>1
<1>3. \A g \in Handlers : RequestServed(handling'[g])
  BY <1>2, ZenonT(30) DEF BuildInv
<1> QED
  BY <1>2, <1>3, ZenonT(30) DEF BuildInv, RequestServed, Admitted, AsAsked, CachedAsAsked, pending_key,
     key_of

(* Answers that carry no transaction need no more than the request.           *)
LEMMA Records ==
    ASSUME NEW ask, NEW tx
    PROVE  /\ Admitted(ask) => RequestServed([at |-> "build", ask |-> ask])
           /\ RequestServed([at |-> "refused", ask |-> ask])
           /\ RequestServed([at |-> "failed", ask |-> ask])
           /\ Admitted(ask) /\ AsAsked(ask, tx) =>
                  /\ RequestServed([at |-> "store", ask |-> ask, tx |-> tx])
                  /\ RequestServed([at |-> "answered", ask |-> ask, tx |-> tx])
<1> HIDE DEF Admitted, AsAsked
<1> QED
  BY DEF RequestServed

(* What arrives is refused, sent on to build, or answered from the cache, and *)
(* the cache has it under the key of a request that wanted the same.          *)
LEMMA ArrivalServed ==
    ASSUME BuildConstants, BuildInv, NEW h \in Handlers, NEW ask \in Asks,
           \/ requestLoan(h, ask) \/ repayLoan(h, ask)
           \/ depositCollateral(h, ask) \/ releaseCollateral(h, ask)
           \/ refinanceLoan(h, ask) \/ extendLoan(h, ask) \/ buildLiquidateLoan(h, ask)
           \/ depositToPool(h, ask) \/ withdrawFromPool(h, ask)
           \/ emergencyWithdrawFromPool(h, ask)
           \/ cancelLoan(h, ask) \/ rejectLoan(h, ask)
    PROVE  BuildInv'
<1>1. unsigned' = unsigned
  BY ZenonT(30) DEF requestLoan, repayLoan, depositCollateral, releaseCollateral, refinanceLoan,
     extendLoan, buildLiquidateLoan, depositToPool, withdrawFromPool, emergencyWithdrawFromPool,
     cancelLoan, rejectLoan, cached_endpoint, uncached_endpoint, rest
<1>2. \A entry \in unsigned' : CachedAsAsked(entry)
  BY <1>1, ZenonT(30) DEF BuildInv
<1>3. ASSUME NEW r, moves(h, r), RequestServed(r) PROVE BuildInv'
  BY <1>2, <1>3, HandlerMoves, ZenonT(30)
<1>4. CASE refuses(h, ask)
  BY <1>3, <1>4, Records, ZenonT(30) DEF refuses
<1>5. CASE own_wallet(ask) /\ moves(h, [at |-> "build", ask |-> ask])
  <2>1. Admitted(ask)
    BY <1>5, ZenonT(30) DEF Admitted, own_wallet
  <2> QED BY <1>3, <1>5, <2>1, Records, ZenonT(30)
<1>6. CASE own_wallet(ask) /\ ask.endpoint \in DOMAIN key_fields /\ lookup(h, ask)
  <2>1. Admitted(ask)
    BY <1>6, ZenonT(30) DEF Admitted, own_wallet
  <2>2. ASSUME NEW entry \in unsigned, entry.key = pending_key(ask), answers(h, ask, entry.tx)
        PROVE  BuildInv'
    <3>1. PICK other \in Asks : entry.key = pending_key(other) /\ AsAsked(other, entry.tx)
      BY ZenonT(30) DEF BuildInv, CachedAsAsked
    <3>2. AsAsked(ask, entry.tx)
      BY <1>6, <2>2, <3>1, SameKeySameAsk, ZenonT(30)
    <3> QED BY <1>3, <2>1, <2>2, <3>2, Records, ZenonT(30) DEF answers
  <2> QED BY <1>5, <1>6, <2>2, ZenonT(30) DEF lookup
<1>7. CASE ask.endpoint \in {"cancelLoan", "rejectLoan"} /\ moves(h, [at |-> "build", ask |-> ask])
  <2>1. Admitted(ask)
    BY <1>7, ZenonT(30) DEF Admitted, BuildConstants
  <2> QED BY <1>3, <1>7, <2>1, Records, ZenonT(30)
<1>8. CASE requestLoan(h, ask)
  <2>1. ask.endpoint \in DOMAIN key_fields
    BY <1>8 DEF requestLoan, key_fields
  <2> QED BY <1>4, <1>6, <1>8, <2>1, ZenonT(30) DEF requestLoan
<1>9. CASE \/ repayLoan(h, ask) \/ depositCollateral(h, ask) \/ releaseCollateral(h, ask)
           \/ refinanceLoan(h, ask) \/ extendLoan(h, ask) \/ buildLiquidateLoan(h, ask)
  <2>1. cached_endpoint(h, ask)
    BY <1>9, ZenonT(30) DEF repayLoan, depositCollateral, releaseCollateral, refinanceLoan, extendLoan,
       buildLiquidateLoan
  <2>2. ask.endpoint \in DOMAIN key_fields
    BY <1>9 DEF repayLoan, depositCollateral, releaseCollateral, refinanceLoan, extendLoan,
       buildLiquidateLoan, key_fields
  <2> QED BY <1>4, <1>6, <2>1, <2>2, ZenonT(30) DEF cached_endpoint
<1>10. CASE depositToPool(h, ask) \/ withdrawFromPool(h, ask) \/ emergencyWithdrawFromPool(h, ask)
  BY <1>4, <1>5, <1>10, ZenonT(30) DEF depositToPool, withdrawFromPool, emergencyWithdrawFromPool,
     uncached_endpoint
<1>11. CASE cancelLoan(h, ask) \/ rejectLoan(h, ask)
  BY <1>4, <1>7, <1>11, ZenonT(30) DEF cancelLoan, rejectLoan
<1> QED
  BY <1>8, <1>9, <1>10, <1>11, ZenonT(30)

(* What is built is built from the request, and stored under its key.         *)
LEMMA BuildingServed ==
    ASSUME BuildInv, NEW h \in Handlers, build(h) \/ store(h)
    PROVE  BuildInv'
<1> DEFINE ask == handling[h].ask
           tx == handling[h].tx
<1>1. RequestServed(handling[h])
  BY ZenonT(30) DEF BuildInv
<1>2. CASE build(h)
  <2>1. Admitted(ask) /\ unsigned' = unsigned
    BY <1>1, <1>2, ZenonT(30) DEF build, rest, RequestServed
  <2>2. \A entry \in unsigned' : CachedAsAsked(entry)
    BY <2>1, ZenonT(30) DEF BuildInv
  <2>3. CASE failed(h, ask)
    BY <2>2, <2>3, HandlerMoves, Records, ZenonT(30) DEF failed
  <2>4. CASE moves(h, [at |-> "store", ask |-> ask, tx |-> Transaction(ask, builder[ask.endpoint])])
    <3>1. AsAsked(ask, Transaction(ask, builder[ask.endpoint]))
      BY DEF AsAsked, Transaction
    <3>2. RequestServed([at |-> "store", ask |-> ask, tx |-> Transaction(ask, builder[ask.endpoint])])
      BY <2>1, <3>1, Records, ZenonT(30)
    <3> QED BY <2>2, <2>4, <3>2, HandlerMoves, ZenonT(30)
  <2> QED BY <1>2, <2>3, <2>4, ZenonT(30) DEF build
<1>3. CASE store(h)
  <2>1. Admitted(ask) /\ AsAsked(ask, tx)
    BY <1>1, <1>3, ZenonT(30) DEF store, RequestServed
  <2>2. CachedAsAsked([key |-> pending_key(ask), tx |-> tx, until |-> time + PENDING_TTL])
        \/ ask.endpoint \notin DOMAIN key_fields
    <3> HIDE DEF ask, tx
    <3> QED BY <2>1, ZenonT(30) DEF CachedAsAsked, Admitted
  <2>3. \A entry \in unsigned' : CachedAsAsked(entry)
    BY <1>3, <2>2, ZenonT(30) DEF store, BuildInv
  <2> QED BY <1>3, <2>1, <2>3, HandlerMoves, Records, ZenonT(30) DEF store, answers
<1> QED
  BY <1>2, <1>3

(* Whatever is asked for at the same time, missed in Redis, applied or let    *)
(* expire: what goes on is admitted, and what is cached is what its key says. *)
THEOREM BuildingInvariant ==
    ASSUME BuildConstants
    PROVE  BuildSpec => []BuildInv
<1>1. BuildInit => BuildInv
  BY DEF BuildInit, BuildInv, RequestServed, NoAsk
<1>2. BuildInv /\ [BuildNext]_tx_vars => BuildInv'
  <2> SUFFICES ASSUME BuildInv, [BuildNext]_tx_vars PROVE BuildInv'
    OBVIOUS
  <2>1. ASSUME UNCHANGED <<handling, unsigned>> PROVE BuildInv'
    BY <2>1, ZenonT(30) DEF BuildInv
  <2>2. ASSUME NEW h \in Handlers, applies(h) PROVE BuildInv'
    BY <2>1, <2>2, ZenonT(30) DEF applies
  <2>3. CASE analytics_miss \/ getAnalytics \/ time_passes \/ UNCHANGED tx_vars
    BY <2>1, <2>3, ZenonT(30) DEF analytics_miss, getAnalytics, time_passes, tx_vars
  <2> QED
    BY <2>2, <2>3, ArrivalServed, BuildingServed, ZenonT(30) DEF BuildNext
<1> QED
  BY <1>1, <1>2, PTL DEF BuildSpec

(* A transaction that is handed out, fresh or from the cache, is the caller's *)
(* own and invokes what this very request asked for with the values it gave,  *)
(* for every set of requests: no cache key leaves out a field that the call   *)
(* takes.                                                                     *)
THEOREM BuiltAsAsked ==
    ASSUME BuildConstants
    PROVE  BuildSpec => []HandedOutAsAsked
<1>1. BuildInv => HandedOutAsAsked
  BY ZenonT(30) DEF BuildInv, RequestServed, Admitted, AsAsked, HandedOutAsAsked
<1> QED
  BY <1>1, BuildingInvariant, PTL
===============================================================================
