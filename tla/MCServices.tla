------------------------------ MODULE MCServices ------------------------------
(* The backend's request handlers, its migrations, the web app and the SDK, on   *)
(* small instances.  They share no state here: each behaviour moves the one that *)
(* part names, and the others rest.  Two modules keep their variables in the     *)
(* registers m1 .. m6, which each reads under its own names.                     *)
EXTENDS Gateway, Migrations, TransactionBuilding, TransactionSubmission, FloatTransfers,
        Remittances, Sessions, SdkClient, WalletSession

VARIABLES part, m1, m2, m3, m4, m5, m6

registers == <<m1, m2, m3, m4, m5, m6>>

-----------------------------------------------------------------------------
(* Every route, called by every role, and with every kind of API key. *)
MCCallers ==
    {[wallet |-> r, role |-> r, key |-> "none"] : r \in USER_ROLES} \cup
    {[wallet |-> "none", role |-> "nobody", key |-> k] : k \in {"none", "legacy", "admin:loans"}}
MCAsked == 1..Len(Routes)

(* Unsigned transactions: two requests that differ in the last field of their    *)
(* key, in the user, in the endpoint, and refused ones.                          *)
ask(e, u, c, l, t) ==
    [endpoint |-> e, user |-> u, claimed |-> c, loan |-> l, amount |-> 1, term |-> t,
     token |-> "t", reason |-> "r"]

MCAsks ==
    {ask("requestLoan", "ana", "ana", 0, t) : t \in 1..2}
    \cup {ask("requestLoan", "ben", "ana", 0, 1), ask("repayLoan", "ana", "ana", 0, 0)}
    \cup {ask("repayLoan", u, u, 1, 0) : u \in {"ana", "ben"}}
    \cup {ask(e, "ana", "ana", 1, 1) : e \in {"depositCollateral", "releaseCollateral",
                                             "extendLoan", "refinanceLoan", "buildLiquidateLoan"}}
    \cup {ask(e, "ben", "ben", 1, 1) : e \in {"depositToPool", "withdrawFromPool",
                                             "emergencyWithdrawFromPool"}}
    \cup {ask(e, "ana", "nobody", 1, 1) : e \in {"cancelLoan", "rejectLoan"}}

\* Two requests under one key, and one without.
MCKeyOf == <<"k", "k", "none">>

MCPairs == {<<"ana", "ben">>, <<"ana", "ana">>}
MCLimits == {[daily |-> 1, weekly |-> 2]}

Paging == INSTANCE Pagination WITH
    feed <- m1, ticks <- m2, walk <- m3,
    TICKS_PER_MS <- 1, LIMIT <- 1, MAX_ROWS <- 4, MAX_TICKS <- 2

Cache == INSTANCE ClientCache WITH
    page <- m1, cache <- m2, ops <- m3, status <- m4, profile <- m5, applied <- m6,
    Attempts <- {1, 2, 3, 4}, KindOf <- <<"deposit", "withdraw", "save", "save">>

ASSUME ConstantsFit ==
    /\ ReadsFit /\ BuildersFit /\ BuildConstants /\ TokenConstants
    /\ Cache!CacheConstants /\ Cache!CallsServed /\ WalletConstants /\ SdkConstants

-----------------------------------------------------------------------------
\* A part starts with its own variables, and the registers it does not use blank.
RegisterInit ==
    \/ part = "paging" /\ Paging!PageInit /\ m4 = 0 /\ m5 = 0 /\ m6 = 0
    \/ part = "cache" /\ Cache!CacheInit
    \/ /\ part \in {"building", "submission", "floats", "remits", "signing", "wallet", "sdk", "gate",
                   "migrations"}
       /\ m1 = 0 /\ m2 = 0 /\ m3 = 0 /\ m4 = 0 /\ m5 = 0 /\ m6 = 0

\* The wallets that rest hold one account.
ServicesInit ==
    /\ RegisterInit /\ GateInit /\ MigrationsInit
    /\ BuildInit /\ SubmitInit /\ FloatInit /\ RemitInit /\ SessionInit
    /\ SdkInit /\ (part # "sdk" => extension = "ana")
    /\ WalletInit /\ (part # "wallet" => freighter = [account |-> "ana", supported |-> TRUE])

backend == <<tx_vars, submit_vars, float_vars, remit_vars, session_vars>>
clients == <<sdkVars, walletVars>>
surface == <<part, gate_vars, schemaVars>>

ServicesNext ==
    \/ part = "paging" /\ Paging!PageNext /\ UNCHANGED <<surface, backend, clients, m4, m5, m6>>
    \/ part = "cache" /\ Cache!CacheNext /\ UNCHANGED <<surface, backend, clients>>
    \/ /\ UNCHANGED <<surface, registers, clients>>
       /\ \/ part = "building" /\ BuildNext
             /\ UNCHANGED <<submit_vars, float_vars, remit_vars, session_vars>>
          \/ part = "submission" /\ SubmitNext
             /\ UNCHANGED <<tx_vars, float_vars, remit_vars, session_vars>>
          \/ part = "floats" /\ FloatNext
             /\ UNCHANGED <<tx_vars, submit_vars, remit_vars, session_vars>>
          \/ part = "remits" /\ RemitNext
             /\ UNCHANGED <<tx_vars, submit_vars, float_vars, session_vars>>
          \/ part = "signing" /\ SessionNext
             /\ UNCHANGED <<tx_vars, submit_vars, float_vars, remit_vars>>
    \/ part = "wallet" /\ WalletNext /\ UNCHANGED <<surface, registers, backend, sdkVars>>
    \/ part = "sdk" /\ SdkNext /\ UNCHANGED <<surface, registers, backend, walletVars>>
    \/ part = "gate" /\ GateNext /\ UNCHANGED <<part, registers, schemaVars, backend, clients>>
    \/ part = "migrations" /\ MigrationsNext
         /\ UNCHANGED <<part, registers, gate_vars, backend, clients>>

ServicesSpec == ServicesInit /\ [][ServicesNext]_<<surface, registers, backend, clients>>

-----------------------------------------------------------------------------
(* What the modules that use the registers state, for the behaviours that move *)
(* them.                                                                       *)

\* A client that follows the cursors sees every row of its snapshot once
\* (buildKeysetClause).
FeedIsStable == part = "paging" => Paging!FeedIsStable

\* Once no operation is under way no view shows what the backend never took
\* (onMutate, onError, onSettled).
NoOptimisticResidue == part = "cache" => Cache!NoOptimisticResidue
=============================================================================
