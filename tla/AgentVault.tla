----------------------------- MODULE AgentVault -----------------------------
(***************************************************************************)
(* contracts/agent_vault/src/lib.rs: every agent's USDC collateral and the *)
(* float (e-money) the operator has issued against it.                     *)
(*                                                                         *)
(* A contract call is one atomic step: the host rolls every write of a     *)
(* call that returns Err or panics back, so an action is a call that       *)
(* returns Ok and a refused call is a stuttering step.  The reentrancy     *)
(* lock is therefore false in every state and is left out.                 *)
(***************************************************************************)
EXTENDS Integers, Sequences, FiniteSets, FiniteSetsExt

CONSTANTS
    Agents,       \* addresses that hold vaults
    Endowment,    \* USDC each agent owns at the start
    BPS,          \* 10_000 in the code
    MAX_I128,     \* i128::MAX, the width of every amount
    BATCH_MAX,    \* longest batch settle_net accepts, 100 in the code
    Amounts,      \* amounts callers pass, zero and negative ones included
    Haircuts,     \* haircuts passed to init and set_haircut
    Floors,       \* min_collateral values passed to init
    Batches,      \* entry lists the operator passes to settle_net
    MAX_TIME,     \* bound: last ledger timestamp explored
    MAX_VERSION   \* bound: last code version explored

Entry == [agent : Agents, delta : Int]

ASSUME AgentsAssumption == IsFiniteSet(Agents)
ASSUME EndowmentAssumption == Endowment \in [Agents -> Nat]
ASSUME BPSAssumption == BPS \in Nat \ {0}
ASSUME WidthAssumption == MAX_I128 \in Nat /\ BATCH_MAX \in Nat
ASSUME InputAssumption ==
    /\ Amounts \subseteq Int
    /\ Haircuts \subseteq Nat
    /\ Floors \subseteq Int
    /\ Batches \subseteq Seq(Entry)
ASSUME BoundAssumption == MAX_TIME \in Nat /\ MAX_VERSION \in Nat \ {0}

VARIABLES
    params,           \* DataKey::Params; NoParams before init
    collateral,       \* the fields of DataKey::Vault(agent), a function of the
    float,            \* agent each; a missing entry reads as zeros
    haircut_bps,
    last_settled,
    version,          \* DataKey::Version
    circuit_breaker,  \* DataKey::CircuitBreaker
    wallet,           \* USDC held by each agent (external token)
    custody,          \* USDC held by the vault contract (external token)
    issued,           \* history: float minted minus float burned
    vault_time,              \* ledger timestamp
    is_blocked        \* answer of the deployed CircuitBreaker (external)

tokens == <<wallet, custody>>
vault == <<collateral, float, haircut_bps, last_settled>>
vars == <<params, vault, version, circuit_breaker, tokens, issued, vault_time, is_blocked>>

\* init refuses max_haircut_bps = 0, so this value is never a stored one.
NoParams == [max_haircut_bps |-> 0, min_collateral |-> 0]

Init ==
    /\ params = NoParams
    /\ collateral = [a \in Agents |-> 0]
    /\ float = [a \in Agents |-> 0]
    /\ haircut_bps = [a \in Agents |-> 0]
    /\ last_settled = [a \in Agents |-> 0]
    /\ version = 1
    /\ circuit_breaker = "none"
    /\ wallet = Endowment
    /\ custody = 0
    /\ issued = 0
    /\ vault_time = 0
    /\ is_blocked = FALSE

-----------------------------------------------------------------------------

clamped(haircut) == IF haircut > BPS THEN BPS ELSE haircut

\* MUTANT of max_float_of: the haircut is not applied.
max_float_of_no_haircut(backing, haircut) == backing

\* checked_mul, and the saturation to i128::MAX when it overflows.
max_float_of(backing, haircut) ==
    IF backing * clamped(haircut) > MAX_I128
      THEN MAX_I128
      ELSE (backing * clamped(haircut)) \div BPS

max_float(a) == max_float_of(collateral[a], haircut_bps[a])

\* No function of the contract writes DataKey::CircuitBreaker.
assert_circuit_ok == circuit_breaker = "none" \/ ~is_blocked

fits(n) == n <= MAX_I128 /\ n >= -MAX_I128 - 1

-----------------------------------------------------------------------------

init(max_haircut_bps, min_collateral) ==
    /\ params = NoParams
    /\ max_haircut_bps \in 1..BPS
    /\ min_collateral >= 0
    /\ params' = [max_haircut_bps |-> max_haircut_bps, min_collateral |-> min_collateral]
    /\ version' = 1
    /\ UNCHANGED <<vault, circuit_breaker, tokens, issued, vault_time, is_blocked>>

vault_upgrade ==
    /\ params # NoParams
    /\ version < MAX_VERSION
    /\ version' = version + 1
    /\ UNCHANGED <<params, vault, circuit_breaker, tokens, issued, vault_time, is_blocked>>

deposit_collateral(a, amount) ==
    /\ assert_circuit_ok
    /\ amount > 0
    /\ params # NoParams
    /\ fits(collateral[a] + amount)
    /\ wallet[a] >= amount
    /\ haircut_bps' = [haircut_bps EXCEPT ![a] = IF @ = 0 THEN params.max_haircut_bps ELSE @]
    /\ collateral' = [collateral EXCEPT ![a] = @ + amount]
    /\ wallet' = [wallet EXCEPT ![a] = @ - amount]
    /\ custody' = custody + amount
    /\ UNCHANGED <<params, float, last_settled, version, circuit_breaker, issued, vault_time, is_blocked>>

\* MUTANT of withdraw_collateral: write_vault is forgotten before the payment.
withdraw_unwritten(a, amount) ==
    /\ amount \in 1..collateral[a]
    /\ float[a] = 0
    /\ custody >= amount
    /\ wallet' = [wallet EXCEPT ![a] = @ + amount]
    /\ custody' = custody - amount
    /\ UNCHANGED <<params, vault, version, circuit_breaker, issued, vault_time, is_blocked>>

withdraw_collateral(a, amount) ==
    LET remaining == collateral[a] - amount IN
    /\ assert_circuit_ok
    /\ amount > 0
    /\ params # NoParams
    /\ remaining >= 0
    /\ float[a] > 0 =>
          /\ remaining >= params.min_collateral
          /\ float[a] <= max_float_of(remaining, haircut_bps[a])
    /\ custody >= amount
    /\ collateral' = [collateral EXCEPT ![a] = remaining]
    /\ wallet' = [wallet EXCEPT ![a] = @ + amount]
    /\ custody' = custody - amount
    /\ UNCHANGED <<params, float, haircut_bps, last_settled, version, circuit_breaker, issued,
                   vault_time, is_blocked>>

mint_float(a, amount) ==
    LET new_float == float[a] + amount IN
    /\ params # NoParams
    /\ assert_circuit_ok
    /\ amount > 0
    /\ fits(new_float)
    /\ new_float <= max_float(a)
    /\ float' = [float EXCEPT ![a] = new_float]
    /\ issued' = issued + amount
    /\ UNCHANGED <<params, collateral, haircut_bps, last_settled, version, circuit_breaker, tokens,
                   vault_time, is_blocked>>

burn_float(a, amount) ==
    /\ assert_circuit_ok
    /\ amount > 0
    /\ float[a] - amount >= 0
    /\ float' = [float EXCEPT ![a] = @ - amount]
    /\ issued' = issued - amount
    /\ UNCHANGED <<params, collateral, haircut_bps, last_settled, version, circuit_breaker, tokens,
                   vault_time, is_blocked>>

\* Both vaults are read before either is written.
transfer_both(from, to, amount) ==
    LET from_float == float[from] - amount
        to_float == float[to] + amount IN
    /\ assert_circuit_ok
    /\ amount > 0
    /\ from_float >= 0
    /\ fits(to_float)
    /\ to_float <= max_float(to)
    /\ float' = [float EXCEPT ![from] = from_float, ![to] = to_float]
    /\ UNCHANGED <<params, collateral, haircut_bps, last_settled, version, circuit_breaker, tokens,
                   issued, vault_time, is_blocked>>

\* MUTANT of transfer_float: the guard against self-transfers is dropped.
transfer_float_self(from, to, amount) == transfer_both(from, to, amount)

\* transfer_to_agent is the same call under another name.
transfer_float(from, to, amount) == from # to /\ transfer_both(from, to, amount)

-----------------------------------------------------------------------------

\* What the first k entries of a batch add to the float of agent a.
delta(entries, a, k) ==
    MapThenSumSet(LAMBDA j : entries[j].delta, {j \in 1..k : entries[j].agent = a})

net(entries, k) == MapThenSumSet(LAMBDA j : entries[j].delta, 1..k)

touched(entries, k) == {entries[j].agent : j \in 1..k}

\* The k-th iteration reads the float the earlier ones wrote; after it every
\* vault written so far is within its bounds.
entry_ok(entries, k) ==
    \A a \in touched(entries, k) : float[a] + delta(entries, a, k) \in 0 .. max_float(a)

batch_nets_to_zero(entries) ==
    /\ \A k \in DOMAIN entries : fits(net(entries, k))
    /\ net(entries, Len(entries)) = 0

settle_net(entries) ==
    /\ params # NoParams
    /\ assert_circuit_ok
    /\ Len(entries) <= BATCH_MAX
    /\ batch_nets_to_zero(entries)
    /\ \A k \in DOMAIN entries : entry_ok(entries, k)
    /\ float' = [a \in Agents |->
          IF a \in touched(entries, Len(entries))
            THEN float[a] + delta(entries, a, Len(entries))
            ELSE float[a]]
    /\ last_settled' = [a \in Agents |->
          IF a \in touched(entries, Len(entries)) THEN vault_time ELSE last_settled[a]]
    /\ UNCHANGED <<params, collateral, haircut_bps, version, circuit_breaker, tokens, issued, vault_time,
                   is_blocked>>

\* set_haircut does not consult the breaker.
set_haircut(a, new_haircut_bps) ==
    /\ params # NoParams
    /\ new_haircut_bps \in 1..params.max_haircut_bps
    /\ float[a] <= max_float_of(collateral[a], new_haircut_bps)
    /\ haircut_bps' = [haircut_bps EXCEPT ![a] = new_haircut_bps]
    /\ UNCHANGED <<params, collateral, float, last_settled, version, circuit_breaker, tokens,
                   issued, vault_time, is_blocked>>

\* The ledger closes with a later timestamp (external).
vault_ledger_close ==
    /\ vault_time < MAX_TIME
    /\ vault_time' = vault_time + 1
    /\ UNCHANGED <<params, vault, version, circuit_breaker, tokens, issued, is_blocked>>

\* The breaker contract starts or stops reporting a pause (external).
breaker_changes ==
    /\ is_blocked' = ~is_blocked
    /\ UNCHANGED <<params, vault, version, circuit_breaker, tokens, issued, vault_time>>

Next ==
    \/ \E h \in Haircuts, m \in Floors : init(h, m)
    \/ vault_upgrade
    \/ \E a \in Agents, n \in Amounts : deposit_collateral(a, n)
    \/ \E a \in Agents, n \in Amounts : withdraw_collateral(a, n)
    \/ \E a \in Agents, n \in Amounts : mint_float(a, n)
    \/ \E a \in Agents, n \in Amounts : burn_float(a, n)
    \/ \E from, to \in Agents, n \in Amounts : transfer_float(from, to, n)
    \/ \E entries \in Batches : settle_net(entries)
    \/ \E a \in Agents, h \in Haircuts : set_haircut(a, h)
    \/ vault_ledger_close
    \/ breaker_changes

Spec == Init /\ [][Next]_vars

-----------------------------------------------------------------------------

\* Every stored value has its type: amounts are non-negative and fit an i128,
\* haircuts are at most 100%.
TypeOK ==
    /\ params \in {NoParams} \cup [max_haircut_bps : 1..BPS, min_collateral : Nat]
    /\ collateral \in [Agents -> 0..MAX_I128]
    /\ float \in [Agents -> 0..MAX_I128]
    /\ haircut_bps \in [Agents -> 0..BPS]
    /\ last_settled \in [Agents -> 0..MAX_TIME]
    /\ version \in 1..MAX_VERSION
    /\ circuit_breaker = "none"
    /\ wallet \in [Agents -> Nat]
    /\ custody \in Nat
    /\ issued \in Int
    /\ vault_time \in 0..MAX_TIME
    /\ is_blocked \in BOOLEAN

\* The solvency rule of the module's header (lines 5-7): no sequence of mints,
\* transfers, settlements, withdrawals and haircut changes leaves an agent with
\* more float than collateral * haircut / 10_000.
Solvency == \A a \in Agents : float[a] * BPS <= collateral[a] * haircut_bps[a]

\* Float is created by mint_float and destroyed by burn_float only: transfers
\* and net settlements (repeated agents included) move it and conserve the sum.
FloatConserved == MapThenSumSet(LAMBDA a : float[a], Agents) = issued

\* The USDC the contract holds is exactly the collateral it owes, so every
\* withdrawal the books allow can be paid, and it covers all the float issued.
CustodyCoversClaims ==
    /\ custody = MapThenSumSet(LAMBDA a : collateral[a], Agents)
    /\ custody >= MapThenSumSet(LAMBDA a : float[a], Agents)

\* The books of the vault: typed amounts within the width of i128, float that
\* only mints and burns change in sum, and custody equal to what is owed.
VaultBooks == TypeOK /\ FloatConserved /\ CustodyCoversClaims

\* Collateral is its owner's: whatever the operator settles or other agents
\* transfer, an agent's wallet and collateral add up to what it brought.
CollateralIsOwners == \A a \in Agents : wallet[a] + collateral[a] = Endowment[a]
=============================================================================
