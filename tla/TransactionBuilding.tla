------------------------- MODULE TransactionBuilding -------------------------
(* Unsigned transactions: the endpoints of loanController and poolController  *)
(* that build one for the caller's wallet, the 60 second cache most of them   *)
(* answer from, the wallet and the network that apply what was built, and the *)
(* read caches the build endpoints invalidate.                                *)
(*                                                                            *)
(* A request is a record of the fields its endpoint reads.  An awaited call   *)
(* (cache, RPC, database) ends a step.  Time is counted in units of 30 s.     *)
EXTENDS Integers, FiniteSets, Sequences

(* The invocations SorobanService puts into transactions and simulations, and *)
(* the parameters the contracts declare.  An argument is the type its ScVal   *)
(* is built with and the request field its value is taken from.               *)

Call(contract, function, args) ==
    [contract |-> contract, function |-> function, args |-> args]

Arg(type, field) == [type |-> type, field |-> field]

Types(call) == [i \in DOMAIN call.args |-> call.args[i].type]

-----------------------------------------------------------------------------
(* Loan manager. *)

buildRequestLoanTx ==
    Call("LoanManager", "request_loan",
         <<Arg("address", "user"), Arg("i128", "amount"), Arg("u32", "term")>>)

buildRepayTx ==
    Call("LoanManager", "repay",
         <<Arg("address", "user"), Arg("u32", "loan"), Arg("i128", "amount")>>)

buildCancelLoanTx ==
    Call("LoanManager", "cancel_loan",
         <<Arg("address", "user"), Arg("symbol", "loan")>>)

buildRejectLoanTx ==
    Call("LoanManager", "reject_loan",
         <<Arg("address", "user"), Arg("symbol", "loan"), Arg("string", "reason")>>)

buildApproveLoanTx ==
    Call("LoanManager", "approve_loan", <<Arg("u32", "loan")>>)

buildDepositCollateralTx ==
    Call("LoanManager", "deposit_collateral",
         <<Arg("u32", "loan"), Arg("i128", "amount")>>)

buildReleaseCollateralTx ==
    Call("LoanManager", "release_collateral", <<Arg("u32", "loan")>>)

buildRefinanceLoanTx ==
    Call("LoanManager", "refinance_loan",
         <<Arg("u32", "loan"), Arg("i128", "amount"), Arg("u32", "term")>>)

buildExtendLoanTx ==
    Call("LoanManager", "extend_loan",
         <<Arg("address", "user"), Arg("u32", "loan"), Arg("u32", "term")>>)

buildLiquidateTx ==
    Call("LoanManager", "liquidate", <<Arg("address", "user"), Arg("u32", "loan")>>)

(* Lending pool and agent vault. *)

buildDepositTx ==
    Call("LendingPool", "deposit",
         <<Arg("address", "user"), Arg("address", "token"), Arg("i128", "amount")>>)

buildWithdrawTx ==
    Call("LendingPool", "withdraw",
         <<Arg("address", "user"), Arg("address", "token"), Arg("i128", "amount")>>)

buildEmergencyWithdrawTx ==
    Call("LendingPool", "emergency_withdraw",
         <<Arg("address", "user"), Arg("address", "token"), Arg("i128", "amount")>>)

buildTransferToAgentTx ==
    Call("AgentVault", "transfer_to_agent",
         <<Arg("address", "user"), Arg("address", "agent"), Arg("i128", "amount")>>)

(* The reads, simulated and never submitted. *)

getOnChainCreditScore == Call("RemittanceNFT", "get_score", <<Arg("address", "user")>>)

getOnChainScoreHistory ==
    Call("RemittanceNFT", "get_score_history",
         <<Arg("address", "user"), Arg("u32", "offset"), Arg("u32", "limit")>>)

getRemittanceNftMetadata ==
    { Call("RemittanceNFT", name, <<Arg("address", "user")>>) :
          name \in {"get_metadata", "get_default_count", "get_transfer_cooldown_remaining"} }

getSharePrice == Call("LendingPool", "get_share_price", <<Arg("address", "token")>>)

getPoolBalance == Call("Token", "balance", <<Arg("address", "pool")>>)

getWithdrawalCooldownLedgers == Call("LendingPool", "get_withdrawal_cooldown", <<>>)

Reads == {getOnChainCreditScore, getOnChainScoreHistory, getSharePrice, getPoolBalance,
          getWithdrawalCooldownLedgers} \cup getRemittanceNftMetadata

-----------------------------------------------------------------------------
(* The parameters of the contract functions, Env aside. *)

LoanManagerFunctions ==
    [ request_loan       |-> <<"address", "i128", "u32">>,
      repay              |-> <<"address", "u32", "i128">>,
      cancel_loan        |-> <<"address", "u32">>,
      reject_loan        |-> <<"u32", "string">>,
      approve_loan       |-> <<"u32">>,
      deposit_collateral |-> <<"u32", "i128">>,
      release_collateral |-> <<"u32">>,
      refinance_loan     |-> <<"u32", "i128", "u32">>,
      extend_loan        |-> <<"address", "u32", "u32">>,
      liquidate          |-> <<"address", "u32">> ]

LendingPoolFunctions ==
    [ deposit                 |-> <<"address", "address", "i128", "i128">>,
      withdraw                |-> <<"address", "address", "i128", "i128">>,
      emergency_withdraw      |-> <<"address", "address", "i128", "i128">>,
      get_share_price         |-> <<"address">>,
      get_withdrawal_cooldown |-> <<>> ]

RemittanceNFTFunctions ==
    [ get_score                       |-> <<"address">>,
      get_score_history               |-> <<"address", "u32", "u32">>,
      get_metadata                    |-> <<"address">>,
      get_default_count               |-> <<"address">>,
      get_transfer_cooldown_remaining |-> <<"address">> ]

AgentVaultFunctions == [ transfer_to_agent |-> <<"address", "address", "i128">> ]

TokenFunctions == [ balance |-> <<"address">> ]

Declared(contract) ==
    CASE contract = "LoanManager"   -> LoanManagerFunctions
      [] contract = "LendingPool"   -> LendingPoolFunctions
      [] contract = "RemittanceNFT" -> RemittanceNFTFunctions
      [] contract = "AgentVault"    -> AgentVaultFunctions
      [] contract = "Token"         -> TokenFunctions

(* The host rejects a call whose arguments do not fit the declared ones, so  *)
(* its simulation fails.                                                     *)
well_typed(call) == Types(call) = Declared(call.contract)[call.function]

(* Every read the service simulates has the parameters its contract declares, *)
(* and so have the two transactions that no endpoint builds for a wallet.     *)
ReadsFit == \A call \in Reads \cup {buildApproveLoanTx, buildTransferToAgentTx} : well_typed(call)

-----------------------------------------------------------------------------
(* The build endpoints. *)

CONSTANTS Handlers,        \* concurrent requests
          Asks,            \* the requests that may arrive
          TX_TIMEOUT,      \* setTimeout(30)
          PENDING_TTL,     \* 60 s
          ANALYTICS_TTL,   \* 300 s, or fewer units where only the order matters
          MAX_CLOCK, MAX_SEQUENCE

VARIABLES handling,   \* handler -> its request, where it is, the transaction it found
          unsigned,   \* the pending_*_tx cache: key -> [tx, until]
          account,    \* user -> sequence number of the account
          transacted, \* transactions the network has applied
          views,      \* the pool:analytics cache: [of, until], of = how much was applied when read
          filling,    \* what a GET /pool/analytics in progress has read
          time

tx_vars == <<handling, unsigned, account, transacted, views, filling, time>>

Users == { ask.user : ask \in Asks }
NoClaim == "nobody"
Absent == [of |-> 0, until |-> -1]
NotReading == -1
NoAsk == [at |-> "idle"]

(* One field tuple per endpoint: the parts of the cache key after the prefix. *)
key_fields ==
    [ requestLoan        |-> <<"user", "amount", "term">>,
      repayLoan          |-> <<"user", "loan", "amount">>,
      depositCollateral  |-> <<"user", "loan", "amount">>,
      releaseCollateral  |-> <<"user", "loan">>,
      refinanceLoan      |-> <<"user", "loan", "amount", "term">>,
      extendLoan         |-> <<"user", "loan", "term">>,
      buildLiquidateLoan |-> <<"user", "loan">> ]

key_of(ask) ==
    <<ask.endpoint, [i \in DOMAIN key_fields[ask.endpoint] |-> ask[key_fields[ask.endpoint][i]]]>>

(* The key without the last field, as CacheKeys.pendingLoanTx has it. *)
key_of_short(ask) ==
    LET fields == key_fields[ask.endpoint]
    IN  <<ask.endpoint, [i \in 1..(Len(fields) - 1) |-> ask[fields[i]]]>>

pending_key(ask) == key_of(ask)

Transaction(ask, call) ==
    [ source  |-> ask.user,
      call    |-> call,
      values  |-> [i \in DOMAIN call.args |-> ask[call.args[i].field]],
      seq     |-> account[ask.user] + 1,
      expires |-> time + TX_TIMEOUT ]

BuildInit ==
    /\ handling = [h \in Handlers |-> NoAsk]
    /\ unsigned = {}
    /\ account = [u \in Users |-> 0]
    /\ transacted = {}
    /\ views = Absent
    /\ filling = NotReading
    /\ time = 0

moves(h, to) == handling' = [handling EXCEPT ![h] = to]
rest == UNCHANGED <<unsigned, account, transacted, views, filling, time>>

answers(h, ask, tx) == moves(h, [at |-> "answered", ask |-> ask, tx |-> tx])
refuses(h, ask) == moves(h, [at |-> "refused", ask |-> ask])
failed(h, ask) == moves(h, [at |-> "failed", ask |-> ask])

request_arrives(h, ask) == handling[h] = NoAsk /\ ask \in Asks

(* The key in the body must be the authenticated one: 403 otherwise. *)
own_wallet(ask) == ask.claimed = ask.user

(* parseInt of the path parameter must give a positive number: 400. *)
valid_loan(ask) == ask.loan > 0

(* cacheService.get answers null when Redis fails, so a lookup may miss what *)
(* is there.                                                                 *)
lookup(h, ask) ==
    \/ \E entry \in unsigned :
           /\ entry.key = pending_key(ask)
           /\ entry.until >= time
           /\ answers(h, ask, entry.tx)
    \/ moves(h, [at |-> "build", ask |-> ask])

cached_endpoint(h, ask) ==
    /\ IF own_wallet(ask) /\ valid_loan(ask) THEN lookup(h, ask) ELSE refuses(h, ask)
    /\ rest

(* requestLoan has no loan yet; it first compares the amount with the pool's *)
(* balance, whatever that is when read.                                      *)
requestLoan(h, ask) ==
    /\ request_arrives(h, ask) /\ ask.endpoint = "requestLoan"
    /\ IF own_wallet(ask) THEN lookup(h, ask) \/ refuses(h, ask) ELSE refuses(h, ask)
    /\ rest

repayLoan(h, ask) ==
    request_arrives(h, ask) /\ ask.endpoint = "repayLoan" /\ cached_endpoint(h, ask)

depositCollateral(h, ask) ==
    request_arrives(h, ask) /\ ask.endpoint = "depositCollateral" /\ cached_endpoint(h, ask)

releaseCollateral(h, ask) ==
    request_arrives(h, ask) /\ ask.endpoint = "releaseCollateral" /\ cached_endpoint(h, ask)

refinanceLoan(h, ask) ==
    request_arrives(h, ask) /\ ask.endpoint = "refinanceLoan" /\ cached_endpoint(h, ask)

extendLoan(h, ask) ==
    request_arrives(h, ask) /\ ask.endpoint = "extendLoan" /\ cached_endpoint(h, ask)

buildLiquidateLoan(h, ask) ==
    request_arrives(h, ask) /\ ask.endpoint = "buildLiquidateLoan" /\ cached_endpoint(h, ask)

(* The pool endpoints build afresh every time. *)
uncached_endpoint(h, ask) ==
    /\ IF own_wallet(ask) /\ ask.amount > 0
       THEN moves(h, [at |-> "build", ask |-> ask])
       ELSE refuses(h, ask)
    /\ rest

depositToPool(h, ask) ==
    request_arrives(h, ask) /\ ask.endpoint = "depositToPool" /\ uncached_endpoint(h, ask)

withdrawFromPool(h, ask) ==
    request_arrives(h, ask) /\ ask.endpoint = "withdrawFromPool" /\ uncached_endpoint(h, ask)

emergencyWithdrawFromPool(h, ask) ==
    request_arrives(h, ask) /\ ask.endpoint = "emergencyWithdrawFromPool" /\ uncached_endpoint(h, ask)

(* Cancelling and rejecting act for the session's own key and ask the loans  *)
(* table whether the loan is still open to it.                               *)
cancelLoan(h, ask) ==
    /\ request_arrives(h, ask) /\ ask.endpoint = "cancelLoan"
    /\ \E status \in {"missing", "PENDING", "OPEN", "other"} :
           IF status \in {"PENDING", "OPEN"}
           THEN moves(h, [at |-> "build", ask |-> ask])
           ELSE refuses(h, ask)
    /\ rest

rejectLoan(h, ask) ==
    /\ request_arrives(h, ask) /\ ask.endpoint = "rejectLoan"
    /\ \E status \in {"missing", "PENDING", "OPEN", "other"} :
           IF status = "PENDING"
           THEN moves(h, [at |-> "build", ask |-> ask])
           ELSE refuses(h, ask)
    /\ rest

builder ==
    [ requestLoan               |-> buildRequestLoanTx,
      repayLoan                 |-> buildRepayTx,
      depositCollateral         |-> buildDepositCollateralTx,
      releaseCollateral         |-> buildReleaseCollateralTx,
      refinanceLoan             |-> buildRefinanceLoanTx,
      extendLoan                |-> buildExtendLoanTx,
      buildLiquidateLoan        |-> buildLiquidateTx,
      depositToPool             |-> buildDepositTx,
      withdrawFromPool          |-> buildWithdrawTx,
      emergencyWithdrawFromPool |-> buildEmergencyWithdrawTx,
      cancelLoan                |-> buildCancelLoanTx,
      rejectLoan                |-> buildRejectLoanTx ]

(* The endpoints whose call has not the arguments the contract declares: they *)
(* build nothing.                                                             *)
BuildersFit ==
    \A e \in DOMAIN builder : well_typed(builder[e]) <=>
        e \notin {"depositToPool", "withdrawFromPool", "emergencyWithdrawFromPool",
                 "cancelLoan", "rejectLoan"}

(* What the router and the schemas let through: cancelling and rejecting take *)
(* no key from the body.                                                      *)
BuildConstants ==
    \A ask \in Asks :
        /\ ask.endpoint \in DOMAIN builder
        /\ ask.endpoint \in {"cancelLoan", "rejectLoan"} => ask.claimed = NoClaim

(* getAccount, TransactionBuilder and prepareTransaction.  The simulation    *)
(* refuses a call that does not fit the contract, and any call the contract  *)
(* would revert.                                                             *)
build(h) ==
    /\ handling[h].at = "build"
    /\ LET ask == handling[h].ask
           call == builder[ask.endpoint]
       IN  \/ well_typed(call) /\ moves(h, [at |-> "store", ask |-> ask,
                                      tx |-> Transaction(ask, call)])
           \/ failed(h, ask)
    /\ rest

invalidateOnLoanRequest == {"poolStats", "borrowerLoans", "analytics"}
invalidateOnRepay == {"poolStats", "borrowerLoans", "scoreBreakdown", "analytics"}
invalidateOnDeposit == {"poolStats", "analytics"}
invalidateOnWithdraw == {"poolStats", "analytics"}

invalidated(endpoint) ==
    CASE endpoint = "requestLoan"      -> invalidateOnLoanRequest
      [] endpoint = "repayLoan"        -> invalidateOnRepay
      [] endpoint = "depositToPool"    -> invalidateOnDeposit
      [] endpoint = "withdrawFromPool" -> invalidateOnWithdraw
      [] OTHER                         -> {}

(* Of these keys only pool:analytics is one a read endpoint fills.           *)
(* cacheService.set and delete swallow a Redis failure; the answer follows.  *)
store(h) ==
    /\ handling[h].at = "store"
    /\ LET ask == handling[h].ask
           tx == handling[h].tx
       IN  /\ \/ /\ ask.endpoint \in DOMAIN key_fields
                 /\ unsigned' = {e \in unsigned : e.key # pending_key(ask)}
                       \cup {[key |-> pending_key(ask), tx |-> tx, until |-> time + PENDING_TTL]}
              \/ UNCHANGED unsigned
           /\ \/ "analytics" \in invalidated(ask.endpoint) /\ views' = Absent
              \/ UNCHANGED views
           /\ answers(h, ask, tx)
    /\ UNCHANGED <<account, transacted, filling, time>>

(* GET /pool/analytics answers from the cache for as long as that lasts;    *)
(* otherwise it reads the database and stores what it read.                  *)
analytics_miss ==
    /\ filling = NotReading
    /\ views.until < time
    /\ filling' = Cardinality(transacted)
    /\ UNCHANGED <<handling, unsigned, account, transacted, views, time>>

getAnalytics ==
    /\ filling # NotReading
    /\ \/ views' = [of |-> filling, until |-> time + ANALYTICS_TTL]
       \/ UNCHANGED views
    /\ filling' = NotReading
    /\ UNCHANGED <<handling, unsigned, account, transacted, time>>

(* The wallet signs what it was handed and the network applies it: once, in  *)
(* sequence, and before it expires.                                          *)
applies(h) ==
    /\ handling[h].at = "answered"
    /\ LET tx == handling[h].tx
       IN  /\ tx.seq = account[tx.source] + 1
           /\ tx.expires >= time
           /\ tx.seq <= MAX_SEQUENCE
           /\ account' = [account EXCEPT ![tx.source] = tx.seq]
           /\ transacted' = transacted \cup {tx}
    /\ UNCHANGED <<handling, unsigned, views, filling, time>>

time_passes ==
    /\ time < MAX_CLOCK
    /\ time' = time + 1
    /\ UNCHANGED <<handling, unsigned, account, transacted, views, filling>>

BuildNext ==
    \/ \E h \in Handlers, ask \in Asks :
           \/ requestLoan(h, ask) \/ repayLoan(h, ask)
           \/ depositCollateral(h, ask) \/ releaseCollateral(h, ask)
           \/ refinanceLoan(h, ask) \/ extendLoan(h, ask) \/ buildLiquidateLoan(h, ask)
           \/ depositToPool(h, ask) \/ withdrawFromPool(h, ask)
           \/ emergencyWithdrawFromPool(h, ask)
           \/ cancelLoan(h, ask) \/ rejectLoan(h, ask)
    \/ \E h \in Handlers : build(h) \/ store(h) \/ applies(h)
    \/ analytics_miss \/ getAnalytics
    \/ time_passes

BuildSpec == BuildInit /\ [][BuildNext]_tx_vars

-----------------------------------------------------------------------------
(* A transaction the API hands out, fresh or from the cache, is the caller's *)
(* own, and invokes what this very request asked for with the values it      *)
(* gave: a cache key leaves nothing out that the transaction depends on.     *)
HandedOutAsAsked ==
    \A h \in Handlers :
        handling[h].at = "answered" =>
            LET ask == handling[h].ask
                tx == handling[h].tx
            IN  /\ tx.source = ask.user /\ ask.claimed \in {ask.user, NoClaim}
                /\ tx.call = builder[ask.endpoint]
                /\ tx.values = [i \in DOMAIN tx.call.args |-> ask[tx.call.args[i].field]]
=============================================================================
