----------------------------- MODULE MCContracts -----------------------------
(* The contracts that stand by themselves, on small instances: two agents and   *)
(* their vaults, the registry, the upgrade timelock and the circuit breaker.    *)
(* They share no state: each behaviour moves the one contract that part names,  *)
(* or in "network" the registry and the vault, deployed side by side.           *)
EXTENDS AgentVault, AgentRegistry, UpgradeTimelock

CONSTANTS a1, a2,               \* agents
          k1, k2,               \* keys of signers and admins
          VaultCode, mint

VARIABLES
    part,
    breaker_admin, signers, threshold, override_timelock, expires_at, proposals, override_count,
    tripped_at, breaker_now

-----------------------------------------------------------------------------
(* Vaults: empty, two-legged, one agent twice, order that matters, not netting   *)
(* to zero, and one entry too long.                                              *)
MCEndowment == [a \in Agents |-> 4]
MCAmounts == {-1, 0, 1, 2}
MCFloors == {-1, 2}

leg(a, d) == [agent |-> a, delta |-> d]

MCBatches ==
    {<<>>,
     <<leg(a1, 1)>>,
     <<leg(a1, -1), leg(a1, 1)>>,
     <<leg(a1, 2), leg(a1, -2)>>,
     <<leg(a1, 1), leg(a2, -1)>>,
     <<leg(a1, -1), leg(a2, 1)>>,
     <<leg(a1, 1), leg(a2, -2), leg(a1, 1)>>,
     <<leg(a2, 2), leg(a1, -1), leg(a1, -1)>>,
     <<leg(a1, 1), leg(a2, 0), leg(a2, -1), leg(a1, 0)>>}

\* Registry: bonds at and around zero.
MCBondAmounts == {-1, 0, 1, 2}

\* Upgrades of one administered contract, with admin transfers in between.
MCSignerLists == {<<k1>>}
MCUpgradeSignerLists == {<<>>, <<k1>>, <<k1, k2>>, <<k2, k2>>}

\* One contract with one guarded function.
Breaker == INSTANCE CircuitBreaker WITH
    admin <- breaker_admin, now <- breaker_now, Symbols <- {mint}, PAUSE_DURATION_SECONDS <- 2,
    MIN_OVERRIDE_TIMELOCK <- 1, SignerLists <- MCUpgradeSignerLists, Thresholds <- {0, 1, 2},
    Timelocks <- {0, 1}, HORIZON <- 3, MAX_OVERRIDES <- 1

ASSUME ConstantsFit ==
    RegistryConstants /\ UpgradeConstants /\ Breaker!BreakerConstants

-----------------------------------------------------------------------------
circuit == <<breaker_admin, signers, threshold, override_timelock, expires_at, proposals,
             override_count, tripped_at, breaker_now>>
\* A contract at rest is in one of its initial states.
ContractsInit ==
    /\ part \in {"vault", "registry", "upgrade", "breaker"}
    /\ Init /\ (part # "vault" => ~is_blocked)
    /\ UpgradeInit /\ (part # "upgrade" => target_admin = k1)
    /\ RegistryInit /\ Breaker!Init

ContractsNext ==
    \/ part = "vault" /\ Next /\ UNCHANGED <<part, registryVars, allVars, circuit>>
    \/ part = "registry" /\ RegistryNext /\ UNCHANGED <<part, vars, allVars, circuit>>
    \/ part = "upgrade" /\ UpgradeNext /\ UNCHANGED <<part, vars, registryVars, circuit>>
    \/ part = "breaker" /\ Breaker!Next /\ UNCHANGED <<part, vars, registryVars, allVars>>

contractVars == <<part, vars, registryVars, allVars, circuit>>

ContractsSpec == ContractsInit /\ [][ContractsNext]_contractVars

-----------------------------------------------------------------------------
\* What the storage of each contract keeps true: the vaults' books balance; an
\* active agent has a bond and a KYC reference, although a Pending agent's bond
\* can be withdrawn between register and activate; a rotation of the signers
\* strands no approval of a pending upgrade; and a function is blocked for 72
\* hours after the last pause at most, however pauses are repeated and cleaned up.
StorageSound ==
    /\ VaultBooks
    /\ RegistryTypeOK /\ ActiveIsBonded
    /\ UpgradeTypeOK /\ ApprovalsAreCurrent
    /\ Breaker!TypeOK /\ Breaker!BlockedMeansRecentlyTripped

\* A pause ends before its time by a governance override only (execute_override,
\* and the cleaning up of what has expired).
LiftedByOverride == [][part = "breaker" => Breaker!LiftedEarlyByOverride]_circuit

-----------------------------------------------------------------------------
(* The agent network.  Neither contract calls the other, so a step is a step    *)
(* of one of them and their states meet only in the agents' addresses.          *)
NetworkInit == part = "network" /\ Init /\ RegistryInit /\ UpgradeInit /\ Breaker!Init

NetworkNext ==
    /\ \/ Next /\ UNCHANGED registryVars
       \/ RegistryNext /\ UNCHANGED vars
    /\ UNCHANGED <<part, allVars, circuit>>

NetworkSpec == NetworkInit /\ [][NetworkNext]_contractVars

\* ARCHITECTURE.md:44 says "Bond frozen while the agent carries float
\* (enforced on the withdraw path; `agent-vault` refuses `withdraw_bond` while
\* `float > 0`)"; withdraw_bond is the registry's and never reads the vault.
BondFrozenWhileFloat ==
    [][\A a \in Agents : float[a] > 0 => bond_amount'[a] >= bond_amount[a]]_contractVars
=============================================================================
