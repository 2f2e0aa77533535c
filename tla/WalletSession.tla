---------------------------- MODULE WalletSession ----------------------------
(***************************************************************************)
(* The web app's wallet: WalletProvider.tsx (connect with sign-in, silent  *)
(* reconnection, Freighter's watchers, disconnect with its clean-up and    *)
(* reload), the persisted store useWalletStore.ts, and the logout that a   *)
(* 401 forces.  Freighter and the session cookie are the environment.      *)
(***************************************************************************)
EXTENDS Naturals

CONSTANTS
  FreighterAccounts,  \* the accounts of the Freighter extension
  MAX_SWITCHES        \* bound: account and network changes in Freighter

NoAddress == "none"

WalletConstants == NoAddress \notin FreighterAccounts

VARIABLES
  wallet,     \* the store: status, address, shouldAutoReconnect
  stored,     \* its copy in localStorage
  sync,       \* the sync task in flight: where it is and what it has read
  checked,    \* the effect at mount has looked for Freighter
  cleaning,   \* disconnectWallet's clean-up: "no", "clearing" or "reloading"
  freighter,  \* the extension: the account it gives, whether its network is supported
  cookie,     \* whose session the httpOnly cookie holds
  switches

walletVars == <<wallet, stored, sync, checked, cleaning, freighter, cookie, switches>>

Disconnected == [status |-> "disconnected", address |-> NoAddress, auto |-> FALSE]

NoSync == [at |-> "none", interactive |-> FALSE, address |-> NoAddress, supported |-> FALSE]

WalletInit ==
  /\ wallet = Disconnected /\ stored = Disconnected
  /\ sync = NoSync /\ checked = FALSE /\ cleaning = "no"
  /\ freighter \in [account : FreighterAccounts \union {NoAddress}, supported : BOOLEAN]
  /\ cookie = NoAddress /\ switches = 0

(* Every set of the store is written to localStorage.                      *)
set(w) == wallet' = w /\ stored' = w

setConnected(w, a) == [w EXCEPT !.status = "connected", !.address = a, !.auto = TRUE]

(* setError(e, status) and setStatus.                                      *)
with_status(w, s) == [w EXCEPT !.status = s]

begin(interactive) == [NoSync EXCEPT !.at = "address", !.interactive = interactive]

(* syncWallet joins the task in flight, whatever kind it is.               *)
syncWallet(interactive) ==
  sync' = IF sync.at = "none" THEN begin(interactive) ELSE sync

(***************************************************************************)
(* What starts a sync                                                      *)
(***************************************************************************)
connectWallet ==
  /\ wallet.status # "connected" /\ wallet.status # "connecting"
  /\ set(with_status(wallet, "connecting"))
  /\ syncWallet(TRUE)
  /\ UNCHANGED <<checked, cleaning, freighter, cookie, switches>>

(* refreshWallet: nothing to refresh without an address or a past one.     *)
refreshWallet == IF wallet.auto \/ wallet.address # NoAddress THEN syncWallet(FALSE) ELSE UNCHANGED sync

mount_effect ==
  /\ ~ checked
  /\ checked' = TRUE
  /\ IF wallet.auto THEN refreshWallet ELSE UNCHANGED sync
  /\ UNCHANGED <<wallet, stored, cleaning, freighter, cookie, switches>>

watchAddress(a) ==
  /\ switches < MAX_SWITCHES /\ a # freighter.account
  /\ switches' = switches + 1
  /\ freighter' = [freighter EXCEPT !.account = a]
  /\ IF a = NoAddress
       THEN /\ IF wallet.address # NoAddress THEN set(Disconnected) ELSE UNCHANGED <<wallet, stored>>
            /\ UNCHANGED sync
       ELSE /\ IF a # wallet.address THEN refreshWallet ELSE UNCHANGED sync
            /\ UNCHANGED <<wallet, stored>>
  /\ UNCHANGED <<checked, cleaning, cookie>>

watchNetwork ==
  /\ switches < MAX_SWITCHES
  /\ switches' = switches + 1
  /\ freighter' = [freighter EXCEPT !.supported = ~ @]
  /\ refreshWallet
  /\ UNCHANGED <<wallet, stored, checked, cleaning, cookie>>

(***************************************************************************)
(* syncWallet, step by step                                                *)
(***************************************************************************)
(* The catch block: an interactive sync disconnects and reports; a silent  *)
(* one leaves the store as it is.                                          *)
sync_fails ==
  /\ sync.at \in {"address", "network", "signin"}
  /\ sync' = NoSync
  /\ IF sync.interactive THEN set(with_status(Disconnected, "error"))
                         ELSE UNCHANGED <<wallet, stored>>
  /\ UNCHANGED <<checked, cleaning, freighter, cookie, switches>>

(* requestAccess or getAddress; a silent sync with no address disconnects. *)
get_address ==
  /\ sync.at = "address"
  /\ freighter.account = NoAddress => ~ sync.interactive
  /\ IF freighter.account = NoAddress
       THEN sync' = NoSync /\ set(Disconnected)
       ELSE /\ sync' = [sync EXCEPT !.at = "network", !.address = freighter.account]
            /\ UNCHANGED <<wallet, stored>>
  /\ UNCHANGED <<checked, cleaning, freighter, cookie, switches>>

(* The rest of the task once it may mark the wallet connected.             *)
mark_connected(s) ==
  /\ set(IF s.supported THEN setConnected(wallet, s.address)
                        ELSE with_status(setConnected(wallet, s.address), "error"))
  /\ sync' = [s EXCEPT !.at = "balances"]

after_network_at_once(s) == mark_connected(s)
after_network(s) ==
  IF s.interactive /\ s.supported
    THEN sync' = [s EXCEPT !.at = "signin"] /\ UNCHANGED <<wallet, stored>>
    ELSE mark_connected(s)

get_network ==
  /\ sync.at = "network"
  /\ after_network([sync EXCEPT !.supported = freighter.supported])
  /\ UNCHANGED <<checked, cleaning, freighter, cookie, switches>>

(* The challenge is signed and exchanged for the session cookie.           *)
signIn ==
  /\ sync.at = "signin"
  /\ cookie' = sync.address
  /\ mark_connected(sync)
  /\ UNCHANGED <<checked, cleaning, freighter, switches>>

(* Horizon answers: the status is written again, except for an account     *)
(* Horizon does not know.                                                  *)
refreshBalances ==
  /\ sync.at = "balances"
  /\ sync' = NoSync
  /\ \/ UNCHANGED <<wallet, stored>>
     \/ set(with_status(wallet, IF sync.supported THEN "connected" ELSE "error"))
  /\ UNCHANGED <<checked, cleaning, freighter, cookie, switches>>

(***************************************************************************)
(* Leaving                                                                 *)
(***************************************************************************)
disconnectWallet ==
  /\ wallet.address # NoAddress /\ cleaning = "no"
  /\ set(Disconnected)
  /\ cleaning' = "clearing"
  /\ UNCHANGED <<sync, checked, freighter, cookie, switches>>

clear_storage ==
  /\ cleaning = "clearing"
  /\ stored' = Disconnected
  /\ cleaning' = "reloading"
  /\ UNCHANGED <<wallet, sync, checked, freighter, cookie, switches>>

(* A page load: the store comes from localStorage, tasks are gone.         *)
reload == wallet' = stored /\ sync' = NoSync /\ checked' = FALSE /\ cleaning' = "no"

clean_reload ==
  /\ cleaning = "reloading"
  /\ reload
  /\ UNCHANGED <<stored, freighter, cookie, switches>>

(* The user reloads the page or comes back to it later.                    *)
page_reload ==
  /\ cleaning = "no" /\ checked
  /\ reload
  /\ UNCHANGED <<stored, freighter, cookie, switches>>

session_expires ==
  /\ cookie # NoAddress
  /\ cookie' = NoAddress
  /\ UNCHANGED <<wallet, stored, sync, checked, cleaning, freighter, switches>>

(* A connected page calls the API without a session: 401, logoutUser, and  *)
(* the browser is sent to the home page.                                   *)
logoutUser ==
  /\ wallet.status = "connected" /\ cookie = NoAddress
  /\ wallet' = Disconnected /\ stored' = Disconnected
  /\ sync' = NoSync /\ checked' = FALSE /\ cleaning' = "no"
  /\ UNCHANGED <<freighter, cookie, switches>>

WalletNext ==
  \/ connectWallet \/ mount_effect \/ watchNetwork
  \/ \E a \in FreighterAccounts \union {NoAddress} : watchAddress(a)
  \/ sync_fails \/ get_address \/ get_network \/ signIn \/ refreshBalances
  \/ disconnectWallet \/ clear_storage \/ clean_reload \/ page_reload
  \/ session_expires \/ logoutUser

WalletSpec == WalletInit /\ [][WalletNext]_walletVars

(* A connection that the user asks for is not marked before the session of *)
(* that very account is there (WalletProvider.tsx:213-216), although the   *)
(* account and the network may change in Freighter while it is made.       *)
SignedInFirst ==
  (wallet'.status = "connected" /\ wallet.address = NoAddress /\ wallet'.address # NoAddress
     /\ sync.interactive) => cookie' = wallet'.address

(* A connection the user asks for is marked only once that very account is *)
(* signed in (syncWallet of WalletProvider.tsx).                           *)
SignedInBeforeConnected == [][SignedInFirst]_walletVars
=============================================================================
