------------------------------ MODULE Sessions ------------------------------
(***************************************************************************)
(* Sign-in and sessions of one wallet (services/authService.ts,            *)
(* controllers/authController.ts, middleware/jwtAuth.ts): a challenge is   *)
(* signed and consumed, a token pair is issued in a family, refresh tokens *)
(* rotate, and logging out revokes a token, a family or every family.      *)
(* Each backend process keeps its own maps; Redis is shared, a read of it  *)
(* may time out and a write may be lost.                                   *)
(***************************************************************************)
EXTENDS Integers, Sequences, FiniteSets

CONSTANTS
  Processes,     \* backend processes
  Clients,       \* requests that may be under way at the same time
  MAX_NONCES,    \* bound: challenges issued
  MAX_PAIRS,     \* bound: token pairs issued
  MAX_ROLES      \* bound: changes of the wallet's role

VARIABLES
  nonces,        \* challenges in Redis
  issued,        \* challenges issued so far
  pairs,         \* the token pairs in the client's hands, oldest first
  memory,        \* per process: [meta, families]
  redis,         \* [meta, families, jtis]
  client,        \* per client: the request it has under way
  role, roles_changed,
  outs,          \* <<process, family>>: revocations that process has completed
  admitted       \* the last request requireJwtAuth let through

session_vars == <<nonces, issued, pairs, memory, redis, client, role,
                  roles_changed, outs, admitted>>

Roles == {"borrower", "admin"}
Quiet == [at |-> "idle"]
Nobody == [pair |-> 0, process |-> 0, role |-> "borrower", late |-> FALSE]
NoMeta == [used |-> TRUE, revoked |-> TRUE]

SessionInit ==
  /\ nonces = {} /\ issued = 0 /\ pairs = <<>>
  /\ memory = [n \in Processes |-> [meta |-> <<>>, families |-> {}]]
  /\ redis = [meta |-> <<>>, families |-> {}, jtis |-> {}]
  /\ client = [c \in Clients |-> Quiet]
  /\ role = "borrower" /\ roles_changed = 0
  /\ outs = {} /\ admitted = Nobody

put(table, k, v) == [i \in DOMAIN table \cup {k} |-> IF i = k THEN v ELSE table[i]]
becomes(c, state) == client' = [client EXCEPT ![c] = state]

(***************************************************************************)
(* Challenge and login.                                                    *)
(***************************************************************************)
storeChallenge ==
  /\ issued < MAX_NONCES
  /\ issued' = issued + 1
  /\ nonces' = nonces \cup {issued + 1}
  /\ UNCHANGED <<pairs, memory, redis, client, role, roles_changed, outs, admitted>>

challenge_expires ==
  /\ \E x \in nonces : nonces' = nonces \ {x}
  /\ UNCHANGED <<issued, pairs, memory, redis, client, role, roles_changed, outs,
                 admitted>>

(* login up to getIssuedChallenge and the signature check.                 *)
getIssuedChallenge(c, n, x) ==
  /\ client[c] = Quiet /\ x \in nonces
  /\ becomes(c, [at |-> "login", process |-> n, nonce |-> x])
  /\ UNCHANGED <<nonces, issued, pairs, memory, redis, role, roles_changed, outs,
                 admitted>>

deleteIfMatch_blind(x) == TRUE

(* The compare-and-delete that decides which of two logins goes on.        *)
deleteIfMatch(x) == x \in nonces

consumeIssuedChallenge(c) ==
  /\ client[c].at = "login"
  /\ nonces' = nonces \ {client[c].nonce}
  /\ IF deleteIfMatch(client[c].nonce)
     THEN becomes(c, [at |-> "issue", process |-> client[c].process,
                      family |-> 0, nonce |-> client[c].nonce])
     ELSE becomes(c, Quiet)
  /\ UNCHANGED <<issued, pairs, memory, redis, role, roles_changed, outs, admitted>>

(* A new family for a login, the old one for a refresh.  The metadata goes *)
(* to this process's map; the write to Redis may be lost or too late.      *)
generateTokenPair(c) ==
  LET p == Len(pairs) + 1
      n == client[c].process
      fresh == [used |-> FALSE, revoked |-> FALSE]
  IN
  /\ client[c].at = "issue" /\ p <= MAX_PAIRS
  /\ pairs' = Append(pairs,
       [family |-> IF client[c].family = 0 THEN p ELSE client[c].family,
        role |-> role, nonce |-> client[c].nonce])
  /\ memory' = [memory EXCEPT ![n].meta = put(@, p, fresh)]
  /\ \/ redis' = [redis EXCEPT !.meta = put(@, p, fresh)]
     \/ UNCHANGED redis
  /\ becomes(c, Quiet)
  /\ UNCHANGED <<nonces, issued, role, roles_changed, outs, admitted>>

(***************************************************************************)
(* Refresh: the family, the metadata, the mark and the new pair are four   *)
(* steps with an await between any two.                                    *)
(***************************************************************************)
revoked_here(n, f) == f \in memory[n].families

isFamilyRevoked(n, f) ==
  {revoked_here(n, f), revoked_here(n, f) \/ f \in redis.families}

rotateRefreshToken(c, n, p) ==
  /\ client[c] = Quiet /\ p \in 1..Len(pairs)
  /\ FALSE \in isFamilyRevoked(n, pairs[p].family)
  /\ becomes(c, [at |-> "rotate", process |-> n, pair |-> p])
  /\ UNCHANGED <<nonces, issued, pairs, memory, redis, role, roles_changed, outs,
                 admitted>>

getRefreshTokenMetadata(n, p) ==
  {IF p \in DOMAIN memory[n].meta THEN memory[n].meta[p] ELSE NoMeta} \cup
  (IF p \in DOMAIN redis.meta THEN {redis.meta[p]} ELSE {})

(* Redis is written with a 50 ms race, so the write may be lost.           *)
revokeTokenFamily(n, f) ==
  /\ memory' = [memory EXCEPT ![n].families = @ \cup {f}]
  /\ \/ redis' = [redis EXCEPT !.families = @ \cup {f}]
     \/ UNCHANGED redis
  /\ outs' = outs \cup {<<n, f>>}

replay_or_mark(c) ==
  LET n == client[c].process
      p == client[c].pair
  IN
  /\ client[c].at = "rotate"
  /\ \E meta \in getRefreshTokenMetadata(n, p) :
       IF meta.used \/ meta.revoked
       THEN /\ revokeTokenFamily(n, pairs[p].family)
            /\ becomes(c, Quiet)
       ELSE /\ memory' = [memory EXCEPT ![n].meta = put(@, p, [meta EXCEPT !.used = TRUE])]
            /\ \/ redis' = [redis EXCEPT !.meta = put(@, p, [meta EXCEPT !.used = TRUE])]
               \/ UNCHANGED redis
            /\ becomes(c, [at |-> "issue", process |-> n,
                           family |-> pairs[p].family, nonce |-> 0])
            /\ UNCHANGED outs
  /\ UNCHANGED <<nonces, issued, pairs, role, roles_changed, admitted>>

(***************************************************************************)
(* Who is let through (requireJwtAuth), with the wallet's current role.    *)
(***************************************************************************)
isSessionRevoked(n, p) ==
  LET families == isFamilyRevoked(n, pairs[p].family) IN
  families \cup {(f \/ p \in redis.jtis) : f \in families}

capPayloadToCurrentRole(p) == role

requireJwtAuth(n, p) ==
  /\ p \in 1..Len(pairs)
  /\ FALSE \in isSessionRevoked(n, p)
  /\ admitted' = [pair |-> p, process |-> n, role |-> capPayloadToCurrentRole(p),
                  late |-> <<n, pairs[p].family>> \in outs]

verify(n, p) ==
  /\ requireJwtAuth(n, p)
  /\ UNCHANGED <<nonces, issued, pairs, memory, redis, client, role, roles_changed,
                 outs>>

(***************************************************************************)
(* Logging out.                                                            *)
(***************************************************************************)
logout(c, n, p) ==
  /\ client[c] = Quiet
  /\ requireJwtAuth(n, p)
  /\ \/ redis' = [redis EXCEPT !.jtis = @ \cup {p}]
     \/ UNCHANGED redis
  /\ becomes(c, [at |-> "logout", process |-> n, pair |-> p])
  /\ UNCHANGED <<nonces, issued, pairs, memory, role, roles_changed, outs>>

logout_family(c) ==
  /\ client[c].at = "logout"
  /\ revokeTokenFamily(client[c].process, pairs[client[c].pair].family)
  /\ becomes(c, Quiet)
  /\ UNCHANGED <<nonces, issued, pairs, role, roles_changed, admitted>>

logoutAllSessions(c, n, p) ==
  /\ client[c] = Quiet
  /\ requireJwtAuth(n, p)
  /\ becomes(c, [at |-> "logout all", process |-> n])
  /\ UNCHANGED <<nonces, issued, pairs, memory, redis, role, roles_changed, outs>>

unrevoked(n) == {p \in DOMAIN memory[n].meta : ~memory[n].meta[p].revoked}

(* One turn of the loop over this process's map.                           *)
invalidateAllFamilies(c) ==
  LET n == client[c].process IN
  /\ client[c].at = "logout all"
  /\ IF unrevoked(n) = {}
     THEN /\ becomes(c, Quiet)
          /\ UNCHANGED <<memory, redis, outs>>
     ELSE \E p \in unrevoked(n) :
            /\ memory' = [memory EXCEPT ![n].meta[p].revoked = TRUE,
                                        ![n].families = @ \cup {pairs[p].family}]
            /\ \/ redis' = [redis EXCEPT !.families = @ \cup {pairs[p].family}]
               \/ UNCHANGED redis
            /\ outs' = outs \cup {<<n, pairs[p].family>>}
            /\ UNCHANGED client
  /\ UNCHANGED <<nonces, issued, pairs, role, roles_changed, admitted>>

(* The wallet is added to or removed from the list of admin wallets.       *)
role_changes ==
  /\ roles_changed < MAX_ROLES
  /\ role' \in Roles \ {role}
  /\ roles_changed' = roles_changed + 1
  /\ admitted' = Nobody
  /\ UNCHANGED <<nonces, issued, pairs, memory, redis, client, outs>>

SessionNext ==
  \/ storeChallenge
  \/ challenge_expires
  \/ role_changes
  \/ \E n \in Processes, p \in 1..Len(pairs) : verify(n, p)
  \/ \E c \in Clients :
       \/ \E n \in Processes, x \in nonces : getIssuedChallenge(c, n, x)
       \/ consumeIssuedChallenge(c)
       \/ generateTokenPair(c)
       \/ \E n \in Processes, p \in 1..Len(pairs) :
            rotateRefreshToken(c, n, p) \/ logout(c, n, p) \/ logoutAllSessions(c, n, p)
       \/ replay_or_mark(c)
       \/ logout_family(c)
       \/ invalidateAllFamilies(c)

SessionSpec == SessionInit /\ [][SessionNext]_session_vars

(***************************************************************************)
(* Properties.                                                             *)
(***************************************************************************)
(* A signed challenge signs in once, however many logins carry it at the   *)
(* same time: consumeIssuedChallenge decides, not the earlier read.        *)
ChallengeUsedOnce ==
  \A p, q \in 1..Len(pairs) :
    pairs[p].nonce # 0 /\ pairs[p].nonce = pairs[q].nonce => p = q

(* Once a process has completed a revocation of a family (log-out, log-out *)
(* everywhere or a replayed refresh token), that process lets no token of  *)
(* it through, not even one a refresh that was already past its own check  *)
(* issued afterwards, and whatever Redis loses; and a request is served    *)
(* with the wallet's role of now, not with the one its token was minted    *)
(* with.                                                                   *)
RevokedStaysOut ==
  ~admitted.late /\ (admitted.pair # 0 => admitted.role = role)

(* A challenge signs in once, and a process that has completed a revocation *)
(* lets no token of the family through (consumeIssuedChallenge,             *)
(* requireJwtAuth).                                                         *)
SessionsHold == ChallengeUsedOnce /\ RevokedStaysOut
=============================================================================
