---------------------------- MODULE CircuitBreaker ----------------------------
(***************************************************************************)
(* contracts/circuit_breaker/src/lib.rs: pauses any signer can trip, that  *)
(* expire by themselves, and that only an override proposal lifts early.   *)
(*                                                                         *)
(* A scope is the whole protocol, one contract or one function; the three  *)
(* storage shapes (KEY_GLOBAL and the two levels of KEY_STATE) are one     *)
(* function from scopes to expiry times, 0 where no entry is stored.       *)
(***************************************************************************)
EXTENDS Integers, Sequences, FiniteSets, Functions, FiniteSetTheorems, TLAPS

CONSTANTS
    Accounts,
    NoAccount,
    Contracts,               \* guarded contracts
    Symbols,                 \* guarded function symbols
    PAUSE_DURATION_SECONDS,
    MIN_OVERRIDE_TIMELOCK,
    MAX_SIGNERS,
    MAX_U64,
    SignerLists,             \* signer lists passed to initialize and set_signers
    Thresholds,              \* thresholds passed to them
    Timelocks,               \* override timelocks passed to the setters
    HORIZON,                 \* bound: last ledger timestamp explored
    MAX_OVERRIDES            \* bound: override proposals in one behaviour

\* What the deployment gives the constants.
BreakerConstants ==
    /\ NoAccount \notin Accounts /\ IsFiniteSet(Accounts)
    /\ PAUSE_DURATION_SECONDS \in Nat \ {0}
    /\ MIN_OVERRIDE_TIMELOCK \in Nat \ {0}
    /\ MAX_SIGNERS \in Nat /\ MAX_U64 \in Nat /\ HORIZON \in Nat /\ MAX_OVERRIDES \in Nat
    /\ HORIZON + MIN_OVERRIDE_TIMELOCK + PAUSE_DURATION_SECONDS <= MAX_U64
    /\ SignerLists \subseteq Seq(Accounts)
    /\ Thresholds \subseteq Nat /\ Timelocks \subseteq 0..MAX_U64

VARIABLES
    admin,              \* KEY_ADMIN
    signers,            \* KEY_SIGNERS
    threshold,          \* KEY_THRESHOLD
    override_timelock,  \* KEY_TIMELOCK
    expires_at,         \* KEY_GLOBAL and KEY_STATE
    proposals,          \* KEY_OVERRIDES; status "none" where no entry is stored
    override_count,     \* KEY_OVERRIDE_COUNT
    tripped_at,         \* history: when each scope was last paused, -1 if never
    now                 \* ledger timestamp

config == <<admin, signers, threshold, override_timelock>>
vars == <<config, expires_at, proposals, override_count, tripped_at, now>>

WILDCARD == "__all__"
Global == <<"global">>
Scopes == {Global} \cup (Contracts \X (Symbols \cup {WILDCARD}))

NoProposal == [status |-> "none", target |-> Global, proposed_at |-> 0,
               executable_after |-> 0, approvals |-> {}]

saturating_add(x, y) == IF x + y > MAX_U64 THEN MAX_U64 ELSE x + y

Init ==
    /\ admin = NoAccount
    /\ signers = {}
    /\ threshold = 0
    /\ override_timelock = 0
    /\ expires_at = [s \in Scopes |-> 0]
    /\ proposals = [id \in 1..MAX_OVERRIDES |-> NoProposal]
    /\ override_count = 0
    /\ tripped_at = [s \in Scopes |-> -1]
    /\ now = 0

-----------------------------------------------------------------------------

valid_quorum(list, t) ==
    /\ Len(list) \in 1..MAX_SIGNERS
    /\ IsInjective(list)
    /\ t \in 1..Len(list)

initialize(a, list, t, timelock) ==
    /\ admin = NoAccount
    /\ valid_quorum(list, t)
    /\ timelock >= MIN_OVERRIDE_TIMELOCK
    /\ admin' = a
    /\ signers' = Range(list)
    /\ threshold' = t
    /\ override_timelock' = timelock
    /\ override_count' = 0
    /\ expires_at' = [s \in Scopes |-> IF s = Global THEN expires_at[s] ELSE 0]
    /\ UNCHANGED <<proposals, tripped_at, now>>

set_admin(a) ==
    /\ admin # NoAccount
    /\ admin' = a
    /\ UNCHANGED <<signers, threshold, override_timelock, expires_at, proposals, override_count,
                   tripped_at, now>>

\* Proposals keep the approvals of signers that are replaced.
set_signers(list, t) ==
    /\ admin # NoAccount
    /\ valid_quorum(list, t)
    /\ signers' = Range(list)
    /\ threshold' = t
    /\ UNCHANGED <<admin, override_timelock, expires_at, proposals, override_count, tripped_at, now>>

set_override_timelock(timelock) ==
    /\ admin # NoAccount
    /\ timelock >= MIN_OVERRIDE_TIMELOCK
    /\ override_timelock' = timelock
    /\ UNCHANGED <<admin, signers, threshold, expires_at, proposals, override_count, tripped_at, now>>

-----------------------------------------------------------------------------

pause_expiry == saturating_add(now, PAUSE_DURATION_SECONDS)

\* pause_all, pause_contract and pause_function, by the scope.
pause(caller, scope) ==
    /\ caller \in signers
    /\ expires_at' = [expires_at EXCEPT ![scope] = pause_expiry]
    /\ tripped_at' = [tripped_at EXCEPT ![scope] = now]
    /\ UNCHANGED <<config, proposals, override_count, now>>

active(scope) == now < expires_at[scope]

is_blocked(c, f) == active(Global) \/ active(<<c, WILDCARD>>) \/ active(<<c, f>>)

\* MUTANT of cleaned: the entries go although one of them is active.
cleaned_always(c, f) == {Global, <<c, WILDCARD>>, <<c, f>>}

\* The entries that a call of is_blocked removes: each early return keeps the
\* entries behind it, and the inner map is written back only at the end.
cleaned(c, f) ==
    IF active(Global) THEN {}
    ELSE IF active(<<c, WILDCARD>>) \/ active(<<c, f>>) THEN {Global}
    ELSE {Global, <<c, WILDCARD>>, <<c, f>>}

\* A guarded contract asks; expired entries are dropped on the way.
ask_is_blocked(c, f) ==
    /\ expires_at' = [s \in Scopes |-> IF s \in cleaned(c, f) THEN 0 ELSE expires_at[s]]
    /\ UNCHANGED <<config, proposals, override_count, tripped_at, now>>

-----------------------------------------------------------------------------

propose_override(proposer, target) ==
    /\ proposer \in signers
    /\ override_count < MAX_OVERRIDES
    /\ override_count' = override_count + 1
    /\ proposals' = [proposals EXCEPT ![override_count + 1] =
          [status |-> "Active", target |-> target, proposed_at |-> now,
           executable_after |-> saturating_add(now, override_timelock), approvals |-> {}]]
    /\ UNCHANGED <<config, expires_at, tripped_at, now>>

approve_override(signer, id) ==
    /\ signer \in signers
    /\ proposals[id].status = "Active"
    /\ signer \notin proposals[id].approvals
    /\ proposals' = [proposals EXCEPT ![id].approvals = @ \cup {signer}]
    /\ UNCHANGED <<config, expires_at, override_count, tripped_at, now>>

\* Anyone may call it; the quorum is the threshold of the moment.
execute_override(id) ==
    LET p == proposals[id] IN
    /\ p.status = "Active"
    /\ now >= p.executable_after
    /\ now < saturating_add(p.executable_after, PAUSE_DURATION_SECONDS)
    /\ Cardinality(p.approvals) >= threshold
    /\ expires_at' = [expires_at EXCEPT ![p.target] = 0]
    /\ proposals' = [proposals EXCEPT ![id].status = "Executed"]
    /\ UNCHANGED <<config, override_count, tripped_at, now>>

cancel_override(id) ==
    /\ admin # NoAccount
    /\ proposals[id].status = "Active"
    /\ proposals' = [proposals EXCEPT ![id].status = "Cancelled"]
    /\ UNCHANGED <<config, expires_at, override_count, tripped_at, now>>

\* The ledger closes with a later timestamp (external).
ledger_close ==
    /\ now < HORIZON
    /\ now' = now + 1
    /\ UNCHANGED <<config, expires_at, proposals, override_count, tripped_at>>

Next ==
    \/ \E a \in Accounts, l \in SignerLists, t \in Thresholds, d \in Timelocks :
          initialize(a, l, t, d)
    \/ \E a \in Accounts : set_admin(a)
    \/ \E l \in SignerLists, t \in Thresholds : set_signers(l, t)
    \/ \E d \in Timelocks : set_override_timelock(d)
    \/ \E a \in Accounts, s \in Scopes : pause(a, s)
    \/ \E c \in Contracts, f \in Symbols : ask_is_blocked(c, f)
    \/ \E a \in Accounts, s \in Scopes : propose_override(a, s)
    \/ \E a \in Accounts, id \in 1..MAX_OVERRIDES : approve_override(a, id)
    \/ \E id \in 1..MAX_OVERRIDES : execute_override(id) \/ cancel_override(id)
    \/ ledger_close

Spec == Init /\ [][Next]_vars

-----------------------------------------------------------------------------

OverrideProposal ==
    [status : {"none", "Active", "Executed", "Cancelled"}, target : Scopes,
     proposed_at : 0..HORIZON, executable_after : 0..MAX_U64, approvals : SUBSET Accounts]

\* Every stored value has its type and the signers can reach the threshold.
TypeOK ==
    /\ admin \in Accounts \cup {NoAccount}
    /\ signers \subseteq Accounts
    /\ threshold \in 0..Cardinality(signers)
    /\ override_timelock \in 0..MAX_U64
    /\ expires_at \in [Scopes -> 0..MAX_U64]
    /\ proposals \in [1..MAX_OVERRIDES -> OverrideProposal]
    /\ override_count \in 0..MAX_OVERRIDES
    /\ tripped_at \in [Scopes -> -1..HORIZON]
    /\ now \in 0..HORIZON

\* "Every pause carries a 72-hour automatic expiry" (lines 17-19): a function
\* is blocked only if a signer tripped one of its three scopes less than 72
\* hours ago, however often pauses were repeated, cleaned up and lifted.
BlockedMeansRecentlyTripped ==
    \A c \in Contracts, f \in Symbols : is_blocked(c, f) =>
        \E s \in {Global, <<c, WILDCARD>>, <<c, f>>} :
            tripped_at[s] >= 0 /\ now - tripped_at[s] < PAUSE_DURATION_SECONDS

\* "Lifting a pause requires a 3-of-5 governance override": an active pause
\* ends before its time only in a step that spends a live proposal for that
\* scope, at least the minimum timelock old and not past its window, with a
\* quorum of approvals.
LiftedEarlyByOverride ==
    \A s \in Scopes : active(s) /\ expires_at'[s] <= now =>
        \E id \in 1..MAX_OVERRIDES :
            /\ proposals[id].status = "Active" /\ proposals'[id].status = "Executed"
            /\ proposals[id].target = s
            /\ now >= proposals[id].proposed_at + MIN_OVERRIDE_TIMELOCK
            /\ now < proposals[id].executable_after + PAUSE_DURATION_SECONDS
            /\ threshold >= 1
            /\ Cardinality(proposals[id].approvals) >= threshold

\* In every step of the contract.
LiftedByOverride == [][LiftedEarlyByOverride]_vars

-----------------------------------------------------------------------------
(* Proofs, for every set of accounts, contracts and functions.  Before     *)
(* initialize nothing is paused or proposed; afterwards there are a        *)
(* threshold and a timelock; a stored expiry is that of the scope's last   *)
(* pause; and a proposal waits for the minimum timelock.                   *)

Uninitialized ==
    admin = NoAccount => signers = {} /\ \A s \in Scopes : expires_at[s] = 0

Configured ==
    admin # NoAccount => threshold >= 1 /\ override_timelock >= MIN_OVERRIDE_TIMELOCK

LastPause ==
    \A s \in Scopes : expires_at[s] # 0 =>
        tripped_at[s] >= 0 /\ expires_at[s] = tripped_at[s] + PAUSE_DURATION_SECONDS

Waiting ==
    \A id \in 1..MAX_OVERRIDES : proposals[id].status = "Active" =>
        /\ signers # {}
        /\ proposals[id].executable_after >= proposals[id].proposed_at + MIN_OVERRIDE_TIMELOCK

BreakerInv == TypeOK /\ Uninitialized /\ Configured /\ LastPause /\ Waiting

\* The time a leaf is given, by each of the two provers that try it.
USE SMTT(20), ZenonT(30)

\* A valid list names as many signers as it has entries, and at least one.
LEMMA QuorumOfList ==
    ASSUME BreakerConstants, NEW l \in SignerLists, NEW t \in Thresholds, valid_quorum(l, t)
    PROVE  /\ Range(l) \subseteq Accounts /\ Range(l) # {}
           /\ t \in 1..Cardinality(Range(l)) /\ Cardinality(Range(l)) \in Nat
  <1>1. /\ l \in [1..Len(l) -> Accounts] /\ Len(l) \in Nat /\ 1 \in 1..Len(l)
        /\ t \in 1..Len(l) /\ IsInjective(l)
    BY DEF BreakerConstants, valid_quorum
  <1>2. l \in Surjection(1..Len(l), Range(l))
    BY <1>1, ZenonT(30) DEF Surjection, Range
  <1>3. l \in Injection(1..Len(l), Range(l))
    BY <1>1, <1>2, ZenonT(30) DEF Injection, IsInjective, Surjection
  <1>4. IsFiniteSet(1..Len(l)) /\ Cardinality(1..Len(l)) = Len(l)
    <2>1. 1 \in Int /\ Len(l) \in Int
      BY <1>1
    <2>2. /\ IsFiniteSet(1..Len(l))
          /\ Cardinality(1..Len(l)) = IF 1 > Len(l) THEN 0 ELSE Len(l) - 1 + 1
      BY <2>1, FS_Interval, ZenonT(30)
    <2>. QED
      BY <1>1, <2>2
  <1>5. Cardinality(Range(l)) = Len(l)
    BY <1>1, <1>2, <1>3, <1>4, FS_Surjection, ZenonT(30) DEF Range
  <1>. QED
    BY <1>1, <1>5, ZenonT(30) DEF Range

\* No deadline reaches the end of u64, and one that would stays in the future.
LEMMA Deadlines ==
    ASSUME BreakerConstants, NEW t \in 0..HORIZON
    PROVE  /\ saturating_add(t, PAUSE_DURATION_SECONDS) = t + PAUSE_DURATION_SECONDS
           /\ t + PAUSE_DURATION_SECONDS \in 0..MAX_U64
           /\ \A d \in 0..MAX_U64 :
                  /\ saturating_add(t, d) \in 0..MAX_U64
                  /\ d >= MIN_OVERRIDE_TIMELOCK => saturating_add(t, d) >= t + MIN_OVERRIDE_TIMELOCK
  BY DEF BreakerConstants, saturating_add

\* The invariant holds when the contract is deployed.
LEMMA BreakerInitially == BreakerConstants /\ Init => BreakerInv
  <1>. SUFFICES ASSUME BreakerConstants, Init PROVE BreakerInv
    OBVIOUS
  <1>1. Cardinality({}) = 0
    BY FS_EmptySet, ZenonT(30)
  <1>2. NoProposal \in OverrideProposal /\ NoProposal.status = "none"
    BY DEF NoProposal, OverrideProposal, Scopes, BreakerConstants
  <1>3. TypeOK
    BY <1>1, <1>2 DEF Init, TypeOK, BreakerConstants
  <1>. QED
    BY <1>2, <1>3, ZenonT(30) DEF Init, BreakerInv, Uninitialized, Configured, LastPause, Waiting

\* The setters keep it: what they set is checked.
LEMMA ConfigureKeeps ==
    ASSUME BreakerConstants, BreakerInv,
           \/ \E a \in Accounts, l \in SignerLists, t \in Thresholds, d \in Timelocks :
                 initialize(a, l, t, d)
           \/ \E a \in Accounts : set_admin(a)
           \/ \E l \in SignerLists, t \in Thresholds : set_signers(l, t)
           \/ \E d \in Timelocks : set_override_timelock(d)
    PROVE  BreakerInv' /\ LiftedEarlyByOverride
  <1>1. ASSUME NEW a \in Accounts, NEW l \in SignerLists, NEW t \in Thresholds, NEW d \in Timelocks,
               initialize(a, l, t, d)
        PROVE  BreakerInv' /\ LiftedEarlyByOverride
    <2>1. /\ Range(l) \subseteq Accounts /\ Range(l) # {}
          /\ t \in 1..Cardinality(Range(l)) /\ Cardinality(Range(l)) \in Nat
          /\ d \in 0..MAX_U64 /\ d >= MIN_OVERRIDE_TIMELOCK
      BY <1>1, QuorumOfList, ZenonT(30) DEF initialize, BreakerConstants
    <2>2. \A s \in Scopes : expires_at[s] = 0
      BY <1>1, ZenonT(30) DEF initialize, BreakerInv, Uninitialized
    <2>3. expires_at' = expires_at
      BY <1>1, <2>2, ZenonT(30) DEF initialize, BreakerInv, TypeOK
    <2>4. TypeOK'
      <3>1. /\ admin' \in Accounts /\ signers' \subseteq Accounts
            /\ threshold' \in 0..Cardinality(signers') /\ override_timelock' \in 0..MAX_U64
            /\ override_count' \in 0..MAX_OVERRIDES
        BY <1>1, <2>1 DEF initialize, BreakerConstants
      <3>2. UNCHANGED <<proposals, tripped_at, now>>
        BY <1>1, ZenonT(30) DEF initialize
      <3>. QED
        BY <2>3, <3>1, <3>2, ZenonT(30) DEF BreakerInv, TypeOK
    <2>5. Uninitialized' /\ Configured' /\ LastPause' /\ Waiting'
      BY <1>1, <2>1, <2>3
      DEF initialize, BreakerInv, Uninitialized, Configured, LastPause, Waiting, BreakerConstants
    <2>6. LiftedEarlyByOverride
      BY <2>2 DEF LiftedEarlyByOverride, active, BreakerInv, TypeOK
    <2>. QED
      BY <2>4, <2>5, <2>6, ZenonT(30) DEF BreakerInv
  <1>2. ASSUME expires_at' = expires_at PROVE LiftedEarlyByOverride
    BY <1>2 DEF LiftedEarlyByOverride, active, BreakerInv, TypeOK
  <1>3. ASSUME NEW a \in Accounts, set_admin(a) PROVE BreakerInv' /\ LiftedEarlyByOverride
    BY <1>2, <1>3, ZenonT(30) DEF set_admin, BreakerInv, TypeOK, Uninitialized, Configured, LastPause, Waiting,
                      BreakerConstants
  <1>4. ASSUME NEW l \in SignerLists, NEW t \in Thresholds, set_signers(l, t)
        PROVE  BreakerInv' /\ LiftedEarlyByOverride
    <2>1. /\ Range(l) \subseteq Accounts /\ Range(l) # {}
          /\ t \in 1..Cardinality(Range(l)) /\ Cardinality(Range(l)) \in Nat
      BY <1>4, QuorumOfList, ZenonT(30) DEF set_signers
    <2>2. TypeOK'
      BY <1>4, <2>1 DEF set_signers, BreakerInv, TypeOK
    <2>3. Uninitialized' /\ LastPause' /\ Waiting'
      BY <1>4, <2>1, ZenonT(30) DEF set_signers, BreakerInv, Uninitialized, LastPause, Waiting
    <2>. QED
      BY <1>2, <1>4, <2>1, <2>2, <2>3 DEF set_signers, BreakerInv, Configured
  <1>5. ASSUME NEW d \in Timelocks, set_override_timelock(d) PROVE BreakerInv' /\ LiftedEarlyByOverride
    BY <1>2, <1>5, ZenonT(30) DEF set_override_timelock, BreakerInv, TypeOK, Uninitialized, Configured, LastPause,
                      Waiting, BreakerConstants
  <1>. QED
    BY <1>1, <1>3, <1>4, <1>5, ZenonT(30)

\* Pauses keep it, and what is_blocked cleans up has expired.
LEMMA PauseKeeps ==
    ASSUME BreakerConstants, BreakerInv,
           \/ \E a \in Accounts, s \in Scopes : pause(a, s)
           \/ \E c \in Contracts, f \in Symbols : ask_is_blocked(c, f)
           \/ ledger_close
    PROVE  BreakerInv' /\ LiftedEarlyByOverride
  <1>1. ASSUME NEW a \in Accounts, NEW s \in Scopes, pause(a, s)
        PROVE  BreakerInv' /\ LiftedEarlyByOverride
    <2>1. /\ now \in 0..HORIZON /\ signers # {} /\ admin # NoAccount
          /\ UNCHANGED <<config, proposals, override_count, now>>
      BY <1>1, ZenonT(30) DEF pause, BreakerInv, TypeOK, Uninitialized
    <2>2. /\ expires_at' = [expires_at EXCEPT ![s] = now + PAUSE_DURATION_SECONDS]
          /\ tripped_at' = [tripped_at EXCEPT ![s] = now]
          /\ now + PAUSE_DURATION_SECONDS \in 0..MAX_U64
      BY <1>1, <2>1, Deadlines, ZenonT(30) DEF pause, pause_expiry
    <2>3. TypeOK'
      BY <2>1, <2>2 DEF BreakerInv, TypeOK, config
    <2>4. Uninitialized' /\ Configured' /\ Waiting'
      BY <2>1, ZenonT(30) DEF BreakerInv, Uninitialized, Configured, Waiting, config
    <2>5. LastPause'
      BY <2>1, <2>2 DEF BreakerInv, TypeOK, LastPause, BreakerConstants
    <2>6. LiftedEarlyByOverride
      BY <2>1, <2>2 DEF BreakerInv, TypeOK, LiftedEarlyByOverride, active, BreakerConstants
    <2>. QED
      BY <2>3, <2>4, <2>5, <2>6, ZenonT(30) DEF BreakerInv
  <1>2. ASSUME NEW c \in Contracts, NEW f \in Symbols, ask_is_blocked(c, f)
        PROVE  BreakerInv' /\ LiftedEarlyByOverride
    <2>1. \A s \in cleaned(c, f) : ~active(s)
      BY ZenonT(30) DEF cleaned
    <2>2. /\ \A s \in Scopes : \/ expires_at'[s] = expires_at[s]
                               \/ ~active(s) /\ expires_at'[s] = 0
          /\ expires_at' \in [Scopes -> 0..MAX_U64]
          /\ UNCHANGED <<config, proposals, override_count, tripped_at, now>>
      BY <1>2, <2>1 DEF ask_is_blocked, BreakerInv, TypeOK, BreakerConstants
    <2>3. TypeOK'
      BY <2>2, ZenonT(30) DEF BreakerInv, TypeOK, config
    <2>4. Uninitialized' /\ Configured' /\ LastPause' /\ Waiting'
      BY <2>2, ZenonT(30) DEF BreakerInv, Uninitialized, Configured, LastPause, Waiting, config
    <2>5. LiftedEarlyByOverride
      BY <2>2 DEF BreakerInv, TypeOK, LiftedEarlyByOverride, active
    <2>. QED
      BY <2>3, <2>4, <2>5, ZenonT(30) DEF BreakerInv
  <1>3. CASE ledger_close
    <2>1. /\ now' \in 0..HORIZON
          /\ UNCHANGED <<config, expires_at, proposals, override_count, tripped_at>>
      BY <1>3 DEF ledger_close, BreakerInv, TypeOK, BreakerConstants
    <2>. QED
      BY <2>1 DEF BreakerInv, TypeOK, Uninitialized, Configured, LastPause, Waiting, config,
                  LiftedEarlyByOverride, active
  <1>. QED
    BY <1>1, <1>2, <1>3, ZenonT(30)

\* Override proposals keep it, and one that is executed has waited and has its
\* quorum.
LEMMA OverrideKeeps ==
    ASSUME BreakerConstants, BreakerInv,
           \/ \E a \in Accounts, s \in Scopes : propose_override(a, s)
           \/ \E a \in Accounts, id \in 1..MAX_OVERRIDES : approve_override(a, id)
           \/ \E id \in 1..MAX_OVERRIDES : execute_override(id) \/ cancel_override(id)
    PROVE  BreakerInv' /\ LiftedEarlyByOverride
  <1>1. ASSUME expires_at' = expires_at PROVE LiftedEarlyByOverride
    BY <1>1 DEF LiftedEarlyByOverride, active, BreakerInv, TypeOK
  <1>2. ASSUME NEW id \in 1..MAX_OVERRIDES, NEW p \in OverrideProposal,
               proposals' = [proposals EXCEPT ![id] = p],
               p.status = "Active" => /\ signers # {}
                                      /\ p.executable_after >= p.proposed_at + MIN_OVERRIDE_TIMELOCK,
               override_count' \in 0..MAX_OVERRIDES, expires_at' = expires_at,
               UNCHANGED <<config, tripped_at, now>>
        PROVE  BreakerInv'
    <2>1. TypeOK'
      BY <1>2, ZenonT(30) DEF BreakerInv, TypeOK, config
    <2>2. Uninitialized' /\ Configured' /\ LastPause'
      BY <1>2, ZenonT(30) DEF BreakerInv, Uninitialized, Configured, LastPause, config
    <2>3. Waiting'
      BY <1>2, ZenonT(30) DEF BreakerInv, TypeOK, Waiting, config
    <2>. QED
      BY <2>1, <2>2, <2>3, ZenonT(30) DEF BreakerInv
  <1>3. ASSUME NEW a \in Accounts, NEW s \in Scopes, propose_override(a, s)
        PROVE  BreakerInv' /\ LiftedEarlyByOverride
    <2> DEFINE p == [status |-> "Active", target |-> s, proposed_at |-> now,
                     executable_after |-> saturating_add(now, override_timelock), approvals |-> {}]
    <2>1. /\ override_count + 1 \in 1..MAX_OVERRIDES /\ override_count' = override_count + 1
          /\ signers # {} /\ now \in 0..HORIZON /\ override_timelock \in 0..MAX_U64
          /\ override_timelock >= MIN_OVERRIDE_TIMELOCK
      BY <1>3 DEF propose_override, BreakerInv, TypeOK, Uninitialized, Configured, BreakerConstants
    <2>2. /\ saturating_add(now, override_timelock) \in 0..MAX_U64
          /\ saturating_add(now, override_timelock) >= now + MIN_OVERRIDE_TIMELOCK
      BY <2>1, Deadlines, ZenonT(30)
    <2>3. p \in OverrideProposal
      BY <2>1, <2>2, ZenonT(30) DEF OverrideProposal
    <2>4. /\ p.executable_after >= p.proposed_at + MIN_OVERRIDE_TIMELOCK
          /\ proposals' = [proposals EXCEPT ![override_count + 1] = p]
          /\ expires_at' = expires_at /\ UNCHANGED <<config, tripped_at, now>>
      BY <1>3, <2>2, ZenonT(30) DEF propose_override
    <2>5. override_count' \in 0..MAX_OVERRIDES
      BY <2>1 DEF BreakerConstants
    <2> HIDE DEF p
    <2>6. BreakerInv'
      BY <1>2, <2>1, <2>3, <2>4, <2>5, ZenonT(30)
    <2>. QED
      BY <1>1, <2>4, <2>6, ZenonT(30)
  <1>4. ASSUME NEW a \in Accounts, NEW id \in 1..MAX_OVERRIDES, approve_override(a, id)
        PROVE  BreakerInv' /\ LiftedEarlyByOverride
    <2> DEFINE p == [proposals[id] EXCEPT !.approvals = @ \cup {a}]
    <2>1. proposals[id] \in OverrideProposal /\ override_count \in 0..MAX_OVERRIDES
      BY ZenonT(30) DEF BreakerInv, TypeOK
    <2>2. /\ p \in OverrideProposal /\ p.status = proposals[id].status
          /\ p.executable_after = proposals[id].executable_after
          /\ p.proposed_at = proposals[id].proposed_at
      BY <2>1, ZenonT(30) DEF OverrideProposal
    <2>3. proposals' = [proposals EXCEPT ![id] = p]
      BY <1>4, ZenonT(30) DEF approve_override, BreakerInv, TypeOK
    <2>4. BreakerInv'
      BY <1>2, <1>4, <2>1, <2>2, <2>3, ZenonT(30) DEF approve_override, BreakerInv, Waiting
    <2>. QED
      BY <1>1, <1>4, <2>4, ZenonT(30) DEF approve_override
  <1>5. ASSUME NEW id \in 1..MAX_OVERRIDES, cancel_override(id)
        PROVE  BreakerInv' /\ LiftedEarlyByOverride
    <2> DEFINE p == [proposals[id] EXCEPT !.status = "Cancelled"]
    <2>1. proposals[id] \in OverrideProposal /\ override_count \in 0..MAX_OVERRIDES
      BY ZenonT(30) DEF BreakerInv, TypeOK
    <2>2. p \in OverrideProposal /\ p.status = "Cancelled"
      BY <2>1, ZenonT(30) DEF OverrideProposal
    <2>3. proposals' = [proposals EXCEPT ![id] = p]
      BY <1>5, ZenonT(30) DEF cancel_override, BreakerInv, TypeOK
    <2>4. BreakerInv'
      BY <1>2, <1>5, <2>1, <2>2, <2>3, ZenonT(30) DEF cancel_override
    <2>. QED
      BY <1>1, <1>5, <2>4, ZenonT(30) DEF cancel_override
  <1>6. ASSUME NEW id \in 1..MAX_OVERRIDES, execute_override(id)
        PROVE  BreakerInv' /\ LiftedEarlyByOverride
    <2> DEFINE p == [proposals[id] EXCEPT !.status = "Executed"]
    <2>1. proposals[id] \in OverrideProposal /\ now \in 0..HORIZON
      BY ZenonT(30) DEF BreakerInv, TypeOK
    <2>2. p \in OverrideProposal /\ p.status = "Executed"
      BY <2>1, ZenonT(30) DEF OverrideProposal
    <2>3. proposals' = [proposals EXCEPT ![id] = p]
      BY <1>6, ZenonT(30) DEF execute_override, BreakerInv, TypeOK
    <2>4. /\ expires_at' = [expires_at EXCEPT ![proposals[id].target] = 0]
          /\ UNCHANGED <<config, override_count, tripped_at, now>>
      BY <1>6, ZenonT(30) DEF execute_override
    <2> HIDE DEF p
    <2>5. TypeOK'
      <3>1. expires_at' \in [Scopes -> 0..MAX_U64]
        <4>1. 0 \in 0..MAX_U64
          BY DEF BreakerConstants
        <4>2. expires_at \in [Scopes -> 0..MAX_U64]
          BY ZenonT(30) DEF BreakerInv, TypeOK
        <4>. QED
          BY <2>4, <4>1, <4>2, ZenonT(30)
      <3>2. proposals' \in [1..MAX_OVERRIDES -> OverrideProposal]
        BY <2>2, <2>3, ZenonT(30) DEF BreakerInv, TypeOK
      <3>. QED
        BY <2>4, <3>1, <3>2, ZenonT(30) DEF BreakerInv, TypeOK, config
    <2>6. Uninitialized' /\ Configured' /\ LastPause'
      BY <2>4, ZenonT(30) DEF BreakerInv, TypeOK, Uninitialized, Configured, LastPause, config
    <2>7. Waiting'
      BY <2>2, <2>3, <2>4, ZenonT(30) DEF BreakerInv, TypeOK, Waiting, config
    <2>8. /\ proposals[id].status = "Active" /\ proposals'[id].status = "Executed"
          /\ threshold >= 1 /\ Cardinality(proposals[id].approvals) >= threshold
      BY <1>6, <2>2, <2>3, ZenonT(30) DEF execute_override, BreakerInv, TypeOK, Waiting, Uninitialized, Configured
    <2>9. /\ now >= proposals[id].proposed_at + MIN_OVERRIDE_TIMELOCK
          /\ now < proposals[id].executable_after + PAUSE_DURATION_SECONDS
      <3>1. /\ proposals[id].proposed_at \in Int /\ proposals[id].executable_after \in Int
            /\ now >= proposals[id].executable_after
            /\ now < saturating_add(proposals[id].executable_after, PAUSE_DURATION_SECONDS)
            /\ proposals[id].executable_after >= proposals[id].proposed_at + MIN_OVERRIDE_TIMELOCK
        BY <1>6, <2>1 DEF execute_override, OverrideProposal, BreakerInv, Waiting
      <3>. QED
        BY <2>1, <3>1 DEF saturating_add, BreakerConstants
    <2>10. \A s \in Scopes : s # proposals[id].target => expires_at'[s] = expires_at[s]
      BY <2>4, ZenonT(30) DEF BreakerInv, TypeOK
    <2>11. LiftedEarlyByOverride
      BY <2>8, <2>9, <2>10 DEF LiftedEarlyByOverride, active, BreakerInv, TypeOK
    <2>. QED
      BY <2>5, <2>6, <2>7, <2>11, ZenonT(30) DEF BreakerInv
  <1>. QED
    BY <1>3, <1>4, <1>5, <1>6, ZenonT(30)

\* Every step keeps it and lifts an active pause by an override only.
LEMMA BreakerStep ==
    ASSUME BreakerConstants, BreakerInv, [Next]_vars
    PROVE  BreakerInv' /\ LiftedEarlyByOverride
  <1>1. CASE Next
    BY <1>1, ConfigureKeeps, PauseKeeps, OverrideKeeps, ZenonT(30) DEF Next
  <1>2. CASE UNCHANGED vars
    BY <1>2 DEF vars, config, BreakerInv, TypeOK, Uninitialized, Configured, LastPause, Waiting,
                LiftedEarlyByOverride, active
  <1>. QED
    BY <1>1, <1>2, ZenonT(30)

\* A function is blocked only within 72 hours of a pause of one of its scopes.
THEOREM BlocksAreRecent ==
    ASSUME BreakerConstants
    PROVE  Spec => [](TypeOK /\ BlockedMeansRecentlyTripped)
  <1>1. Init => BreakerInv
    BY BreakerInitially, ZenonT(30)
  <1>2. BreakerInv /\ [Next]_vars => BreakerInv'
    BY BreakerStep, ZenonT(30)
  <1>3. BreakerInv => TypeOK /\ BlockedMeansRecentlyTripped
    <2> SUFFICES ASSUME BreakerInv, NEW c \in Contracts, NEW f \in Symbols, is_blocked(c, f)
                 PROVE  \E s \in {Global, <<c, WILDCARD>>, <<c, f>>} :
                            tripped_at[s] >= 0 /\ now - tripped_at[s] < PAUSE_DURATION_SECONDS
      BY ZenonT(30) DEF BreakerInv, BlockedMeansRecentlyTripped
    <2>1. PICK s \in {Global, <<c, WILDCARD>>, <<c, f>>} : active(s)
      BY ZenonT(30) DEF is_blocked
    <2>2. s \in Scopes
      BY <2>1 DEF Scopes
    <2>3. /\ now \in Int /\ expires_at[s] \in Int /\ tripped_at[s] \in Int /\ now >= 0
          /\ now < expires_at[s]
      BY <2>1, <2>2 DEF BreakerInv, TypeOK, active
    <2>4. tripped_at[s] >= 0 /\ expires_at[s] = tripped_at[s] + PAUSE_DURATION_SECONDS
      BY <2>2, <2>3 DEF BreakerInv, LastPause
    <2>. QED
      BY <2>1, <2>3, <2>4 DEF BreakerConstants
  <1>. QED
    BY <1>1, <1>2, <1>3, PTL DEF Spec

\* A pause ends before its time only by a live proposal for its scope that has
\* waited for the minimum timelock and has its quorum of approvals.
THEOREM LiftsAreOverrides ==
    ASSUME BreakerConstants
    PROVE  Spec => LiftedByOverride
  <1>1. Init => BreakerInv
    BY BreakerInitially, ZenonT(30)
  <1>2. BreakerInv /\ [Next]_vars => BreakerInv' /\ [LiftedEarlyByOverride]_vars
    BY BreakerStep, ZenonT(30)
  <1>. QED
    BY <1>1, <1>2, PTL DEF Spec, LiftedByOverride
=============================================================================
