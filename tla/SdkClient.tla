------------------------------ MODULE SdkClient ------------------------------
(***************************************************************************)
(* The SDK (sdk/src): the HTTP client with its retries, the wallet login   *)
(* and logout of DukaPayClient, and the React hooks over it: useAsync as   *)
(* useLoans uses it, useWallet, and repay with its sign-and-submit.  The   *)
(* API and the wallet are the environment: they answer, refuse or fail.    *)
(***************************************************************************)
EXTENDS Naturals, Sequences

CONSTANTS
  Accounts,      \* accounts the wallet may give
  ADAPTER,       \* "freighter" or "albedo"
  MAX_RETRIES,   \* HttpClientOptions.maxRetries
  MAX_RUNS,      \* bound: times useAsync's effect runs
  MAX_LOGINS     \* bound: connections, logins and logouts

NoAccount == "nobody"

SdkConstants == ADAPTER \in {"freighter", "albedo"} /\ NoAccount \notin Accounts

VARIABLES
  extension,     \* the account that is active in the wallet
  cachedAddress, \* AlbedoAdapter.cachedAddress
  session,       \* the client's session: whose it is
  task,          \* useWallet's action in flight: kind, step, address
  address,       \* useWallet's address
  deps,          \* what useAsync's last effect ran for: borrower and nonce
  nonce,
  runs,          \* the effect's runs: borrower, request, cancelled
  view,          \* useAsync's data, error and isLoading
  repay,         \* the repayment in flight: step, and how often each POST was sent
  logins

sdkVars == <<extension, cachedAddress, session, task, address, deps, nonce, runs, view, repay, logins>>

walletState == <<extension, cachedAddress, session, task, address, logins>>
asyncState == <<deps, nonce, runs, view>>

NoTask == [kind |-> "none", at |-> "none", address |-> NoAccount]
NoView == [data |-> NoAccount, error |-> FALSE, loading |-> FALSE]
NoRepay == [at |-> "none", built |-> 0, submitted |-> 0]

SdkInit ==
  /\ extension \in Accounts /\ cachedAddress = NoAccount /\ session = NoAccount
  /\ task = NoTask /\ address = NoAccount
  /\ deps = [borrower |-> NoAccount, nonce |-> 0] /\ nonce = 0
  /\ runs = <<>> /\ view = NoView /\ repay = NoRepay /\ logins = 0

(***************************************************************************)
(* HttpClient.request                                                      *)
(***************************************************************************)
attempts_of(method) == IF method \in {"GET", "HEAD", "OPTIONS"} THEN MAX_RETRIES ELSE 1

(* A transport failure, 429 or 5xx is retried while attempts are left.     *)
may_retry(method, sent) == sent < attempts_of(method)

(***************************************************************************)
(* Wallet adapters and DukaPayClient                                       *)
(***************************************************************************)
getAddress == IF ADAPTER = "freighter" THEN extension ELSE cachedAddress

(* client.address(): the session's, or the wallet's.                       *)
client_address(s, w) == IF s # NoAccount THEN s ELSE w

disconnected_cache == IF ADAPTER = "albedo" THEN NoAccount ELSE cachedAddress

(* run: one action at a time is started from the page.                     *)
start(kind) ==
  /\ task = NoTask /\ logins < MAX_LOGINS
  /\ logins' = logins + 1
  /\ task' = [kind |-> kind, at |-> IF kind = "logout" THEN "logout" ELSE "connect",
              address |-> NoAccount]
  /\ UNCHANGED <<extension, cachedAddress, session, address, repay, asyncState>>

(* connectWallet, or loginWithWallet's getAddress() ?? connect().          *)
connects ==
  /\ task.at = "connect"
  /\ LET a == IF task.kind = "login" /\ getAddress # NoAccount THEN getAddress ELSE extension IN
     /\ cachedAddress' = IF ADAPTER = "albedo" THEN a ELSE cachedAddress
     /\ IF task.kind = "login"
          THEN task' = [task EXCEPT !.at = "sign", !.address = a] /\ UNCHANGED address
          ELSE task' = NoTask /\ address' = client_address(session, a)
  /\ UNCHANGED <<extension, session, logins, repay, asyncState>>

(* challenge, signMessage, login: the session is of the address asked for. *)
logs_in ==
  /\ task.at = "sign"
  /\ session' = task.address
  /\ address' = task.address
  /\ task' = NoTask
  /\ UNCHANGED <<extension, cachedAddress, logins, repay, asyncState>>

(* A login that fails clears the session and disconnects the wallet.       *)
task_fails ==
  /\ task.at \in {"connect", "sign"}
  /\ task' = NoTask
  /\ IF task.kind = "login" THEN session' = NoAccount /\ cachedAddress' = disconnected_cache
                            ELSE UNCHANGED <<session, cachedAddress>>
  /\ UNCHANGED <<extension, address, logins, repay, asyncState>>

(* logout clears the session even when the API call fails (the failure is  *)
(* then thrown); run reads the wallet's address again after it.            *)
logs_out(ok) ==
  /\ task.at = "logout"
  /\ session' = NoAccount /\ cachedAddress' = disconnected_cache
  /\ address' = IF ok \/ session = NoAccount
                  THEN (IF ADAPTER = "freighter" THEN extension ELSE NoAccount) ELSE address
  /\ task' = NoTask
  /\ UNCHANGED <<extension, logins, repay, asyncState>>

account_switched(a) ==
  /\ a # extension
  /\ extension' = a
  /\ UNCHANGED <<cachedAddress, session, task, address, logins, repay, asyncState>>

(***************************************************************************)
(* useAsync                                                                *)
(***************************************************************************)
current == [borrower |-> session, nonce |-> nonce]

(* The cleanup cancels the run before; a disabled hook starts none, and    *)
(* leaves data, error and isLoading as they are.                           *)
effect_runs ==
  /\ deps # current /\ Len(runs) < MAX_RUNS
  /\ deps' = current
  /\ LET stopped == [i \in DOMAIN runs |-> [runs[i] EXCEPT !.cancelled = TRUE]] IN
     IF session = NoAccount
       THEN runs' = stopped /\ UNCHANGED view
       ELSE /\ runs' = Append(stopped, [borrower |-> session, at |-> "sent", sent |-> 1,
                                        cancelled |-> FALSE])
            /\ view' = [view EXCEPT !.loading = TRUE, !.error = FALSE]
  /\ UNCHANGED <<walletState, nonce, repay>>

heeded_always(run) == TRUE
heeded(run) == ~ run.cancelled

list_answered(i) ==
  /\ runs[i].at = "sent"
  /\ runs' = [runs EXCEPT ![i].at = "done"]
  /\ view' = IF heeded(runs[i])
               THEN [view EXCEPT !.data = runs[i].borrower, !.loading = FALSE] ELSE view
  /\ UNCHANGED <<walletState, deps, nonce, repay>>

list_retried(i) ==
  /\ runs[i].at = "sent" /\ may_retry("GET", runs[i].sent)
  /\ runs' = [runs EXCEPT ![i].sent = @ + 1]
  /\ UNCHANGED <<walletState, deps, nonce, view, repay>>

(* Refused, or the last attempt failed.                                    *)
list_fails(i) ==
  /\ runs[i].at = "sent"
  /\ runs' = [runs EXCEPT ![i].at = "done"]
  /\ view' = IF heeded(runs[i]) THEN [view EXCEPT !.error = TRUE, !.loading = FALSE] ELSE view
  /\ UNCHANGED <<walletState, deps, nonce, repay>>

(***************************************************************************)
(* repay: build, simulate, sign, submit, refetch                           *)
(***************************************************************************)
repay_starts ==
  /\ repay = NoRepay /\ client_address(session, getAddress) # NoAccount
  /\ repay' = [repay EXCEPT !.at = "build", !.built = 1]
  /\ UNCHANGED <<walletState, asyncState>>

next_step == [build |-> "simulate", simulate |-> "sign", sign |-> "submit", submit |-> "none"]

repay_proceeds ==
  /\ repay.at # "none"
  /\ repay' = [repay EXCEPT !.at = next_step[@],
                            !.submitted = IF repay.at = "sign" THEN 1 ELSE @]
  /\ nonce' = IF repay.at = "submit" THEN nonce + 1 ELSE nonce
  /\ UNCHANGED <<walletState, deps, runs, view>>

(* The answer is lost or is a 5xx: a POST is not sent again.               *)
repay_retried ==
  /\ repay.at \in {"build", "submit"}
  /\ LET sent == IF repay.at = "build" THEN repay.built ELSE repay.submitted IN
     repay' = IF may_retry("POST", sent)
                THEN IF repay.at = "build" THEN [repay EXCEPT !.built = @ + 1]
                                           ELSE [repay EXCEPT !.submitted = @ + 1]
                ELSE [repay EXCEPT !.at = "none"]
  /\ UNCHANGED <<walletState, asyncState>>

repay_fails ==
  /\ repay.at # "none"
  /\ repay' = [repay EXCEPT !.at = "none"]
  /\ UNCHANGED <<walletState, asyncState>>

SdkNext ==
  \/ \E k \in {"connect", "login", "logout"} : start(k)
  \/ connects \/ logs_in \/ task_fails
  \/ \E ok \in BOOLEAN : logs_out(ok)
  \/ \E a \in Accounts : account_switched(a)
  \/ effect_runs
  \/ \E i \in DOMAIN runs : list_answered(i) \/ list_retried(i) \/ list_fails(i)
  \/ repay_starts \/ repay_proceeds \/ repay_retried \/ repay_fails

SdkSpec == SdkInit /\ [][SdkNext]_sdkVars

(* What useLoans shows without loading or an error is of the borrower it   *)
(* is shown for: an answer that arrives after the user changed, however    *)
(* often it was retried, is dropped.                                       *)
LatestShown ==
  (deps = current /\ session # NoAccount /\ ~ view.loading /\ ~ view.error)
    => view.data = session

(* A repayment is submitted once: a lost answer is an error to the caller, *)
(* never a second submission.                                              *)
WritesSentOnce == repay.built <= 1 /\ repay.submitted <= 1

(* What useLoans shows is of the borrower it is shown for, and a repayment *)
(* is submitted once (useAsync, HttpClient.request).                       *)
ShownAndSentOnce == LatestShown /\ WritesSentOnce
=============================================================================
