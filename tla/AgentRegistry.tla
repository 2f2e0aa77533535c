---------------------------- MODULE AgentRegistry ----------------------------
(***************************************************************************)
(* contracts/agent_registry/src/lib.rs: who is an agent, with which KYC    *)
(* reference, licence, reputation and bond.  A call that returns Err is    *)
(* rolled back and is a stuttering step.                                   *)
(***************************************************************************)
EXTENDS Integers

CONSTANTS
    Registrants,   \* addresses agents may have
    KycRefs,       \* KYC references, NoKyc (the empty symbol) among them
    NoKyc,
    BondAmounts,   \* bonds and top-ups callers pass, not only positive ones
    Expiries,      \* license_expiry values
    Reputations,   \* reputation values
    MAX_BOND,      \* i128::MAX, the width of a bond
    MAX_REGISTRY_VERSION   \* bound: last code version explored

\* What the deployment gives the constants.
RegistryConstants ==
    /\ NoKyc \in KycRefs
    /\ BondAmounts \subseteq Int /\ \A b \in BondAmounts : b <= MAX_BOND
    /\ MAX_BOND \in Nat
    /\ 0 \in Reputations
    /\ MAX_REGISTRY_VERSION \in Nat \ {0}

VARIABLES
    initialized,       \* DataKey::Owner is present
    status,            \* the fields of DataKey::Agent(agent), functions of the
    kyc_ref,           \* agent; "none" is an agent never registered
    bond_amount,
    license_expiry,
    reputation,
    registry_version

agentInfo == <<status, kyc_ref, bond_amount, license_expiry, reputation>>
registryVars == <<initialized, agentInfo, registry_version>>

RegistryInit ==
    /\ initialized = FALSE
    /\ status = [a \in Registrants |-> "none"]
    /\ kyc_ref = [a \in Registrants |-> NoKyc]
    /\ bond_amount = [a \in Registrants |-> 0]
    /\ license_expiry = [a \in Registrants |-> 0]
    /\ reputation = [a \in Registrants |-> 0]
    /\ registry_version = 0

registry_init ==
    /\ ~initialized
    /\ initialized' = TRUE
    /\ registry_version' = 1
    /\ UNCHANGED agentInfo

registry_upgrade ==
    /\ initialized
    /\ registry_version < MAX_REGISTRY_VERSION
    /\ registry_version' = registry_version + 1
    /\ UNCHANGED <<initialized, agentInfo>>

\* require_operator and get_info, the preamble of every call below.
registered(a) == initialized /\ status[a] # "none"

register(a, kyc, bond, expiry) ==
    /\ initialized
    /\ bond > 0
    /\ status[a] = "none"
    /\ status' = [status EXCEPT ![a] = "Pending"]
    /\ kyc_ref' = [kyc_ref EXCEPT ![a] = kyc]
    /\ bond_amount' = [bond_amount EXCEPT ![a] = bond]
    /\ license_expiry' = [license_expiry EXCEPT ![a] = expiry]
    /\ reputation' = [reputation EXCEPT ![a] = 0]
    /\ UNCHANGED <<initialized, registry_version>>

\* MUTANT of activate: it also reactivates.
activate_any(a) ==
    /\ registered(a)
    /\ kyc_ref[a] # NoKyc
    /\ bond_amount[a] > 0
    /\ status' = [status EXCEPT ![a] = "Active"]
    /\ UNCHANGED <<initialized, kyc_ref, bond_amount, license_expiry, reputation, registry_version>>

activate(a) ==
    /\ registered(a)
    /\ status[a] = "Pending"
    /\ kyc_ref[a] # NoKyc
    /\ bond_amount[a] > 0
    /\ status' = [status EXCEPT ![a] = "Active"]
    /\ UNCHANGED <<initialized, kyc_ref, bond_amount, license_expiry, reputation, registry_version>>

suspend(a) ==
    /\ registered(a)
    /\ status[a] # "Suspended"
    /\ status' = [status EXCEPT ![a] = "Suspended"]
    /\ UNCHANGED <<initialized, kyc_ref, bond_amount, license_expiry, reputation, registry_version>>

set_reputation(a, r) ==
    /\ registered(a)
    /\ reputation' = [reputation EXCEPT ![a] = r]
    /\ UNCHANGED <<initialized, status, kyc_ref, bond_amount, license_expiry, registry_version>>

renew_license(a, expiry) ==
    /\ registered(a)
    /\ license_expiry' = [license_expiry EXCEPT ![a] = expiry]
    /\ UNCHANGED <<initialized, status, kyc_ref, bond_amount, reputation, registry_version>>

top_up_bond(a, amount) ==
    /\ registered(a)
    /\ amount > 0
    /\ bond_amount[a] + amount <= MAX_BOND
    /\ bond_amount' = [bond_amount EXCEPT ![a] = @ + amount]
    /\ UNCHANGED <<initialized, status, kyc_ref, license_expiry, reputation, registry_version>>

withdraw_bond(a) ==
    /\ registered(a)
    /\ status[a] # "Active"
    /\ bond_amount' = [bond_amount EXCEPT ![a] = 0]
    /\ UNCHANGED <<initialized, status, kyc_ref, license_expiry, reputation, registry_version>>

RegistryNext ==
    \/ registry_init
    \/ registry_upgrade
    \/ \E a \in Registrants, k \in KycRefs, b \in BondAmounts, x \in Expiries : register(a, k, b, x)
    \/ \E a \in Registrants : activate(a) \/ suspend(a) \/ withdraw_bond(a)
    \/ \E a \in Registrants, r \in Reputations : set_reputation(a, r)
    \/ \E a \in Registrants, x \in Expiries : renew_license(a, x)
    \/ \E a \in Registrants, b \in BondAmounts : top_up_bond(a, b)

RegistrySpec == RegistryInit /\ [][RegistryNext]_registryVars

-----------------------------------------------------------------------------

\* The registry's records are well typed and only exist after init.
RegistryTypeOK ==
    /\ initialized \in BOOLEAN
    /\ status \in [Registrants -> {"none", "Pending", "Active", "Suspended"}]
    /\ kyc_ref \in [Registrants -> KycRefs]
    /\ bond_amount \in [Registrants -> 0..MAX_BOND]
    /\ registry_version \in 0..MAX_REGISTRY_VERSION

\* "No active agent without a bond and a kyc_ref" (lib.rs:149-150), although a
\* Pending agent's bond can be withdrawn between register and activate.
ActiveIsBonded ==
    \A a \in Registrants : status[a] = "Active" => bond_amount[a] > 0 /\ kyc_ref[a] # NoKyc

\* A suspended agent never works again and never gets a fresh record: no
\* call leads out of Suspended, and register refuses a known address.
SuspensionStands ==
    \A a \in Registrants : status[a] = "Suspended" => status'[a] = "Suspended" /\ kyc_ref'[a] = kyc_ref[a]

\* The same, of every step (activate, register).
SuspensionIsFinal == [][SuspensionStands]_registryVars
=============================================================================
