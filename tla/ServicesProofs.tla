---------------------------- MODULE ServicesProofs ----------------------------
(* What three services of the backend and two clients of it keep true, each   *)
(* for every number of requests in flight: float transfers between agents,    *)
(* remittances and sessions; the SDK's hooks and the web app's wallet.  They  *)
(* share no state.                                                            *)
EXTENDS FloatTransfers, Remittances, Sessions, SdkClient, WalletSession, FiniteSetTheorems, TLAPS

-----------------------------------------------------------------------------
(* Proof that ConfirmedNeedsTwo holds for every number of requests in flight, *)
(* agents and transfers.  The bounds play no part in it.                      *)

TransferRow(t) == DOMAIN t = {"pair", "amount", "created_by", "status", "required_approvals",
                      "approval_count", "age"}

FloatTypeOK ==
    /\ \E n \in Nat : DOMAIN transfers = 1..n /\ DOMAIN approvers = 1..n
    /\ \A t \in DOMAIN transfers : TransferRow(transfers[t]) /\ IsFiniteSet(approvers[t])
    /\ confirmed \subseteq DOMAIN transfers
    /\ DOMAIN desk = Desks
    /\ \A d \in Desks : /\ desk[d].at \in {"idle", "insert", "own", "count", "reject"}
                        /\ desk[d].at \in {"own", "count", "reject"} => desk[d].id \in DOMAIN transfers

Executed(t) == transfers[t].status \in {"COMPLETED", "FAILED"}

(* The 201 is sent once the creator's approval is in; a request that has      *)
(* inserted an approval is not the creator's if the creator's was confirmed;  *)
(* and an executed transfer has an approval that is not the creator's.        *)
ApprovalsDiffer ==
    /\ \A t \in confirmed : transfers[t].created_by \in approvers[t]
    /\ \A d \in Desks : desk[d].at = "count" =>
           /\ desk[d].by \in approvers[desk[d].id]
           /\ desk[d].id \in confirmed => desk[d].by # transfers[desk[d].id].created_by
    /\ \A t \in DOMAIN transfers : Executed(t) =>
           \E a \in approvers[t] : t \in confirmed => a # transfers[t].created_by

FloatInv == FloatTypeOK /\ ApprovalsDiffer

\* The time a leaf is given, by each of the two provers that try it.
USE SMTT(20), ZenonT(30)

(* Two different approvers are at least two. *)
LEMMA TwoApprovers ==
    ASSUME NEW S, IsFiniteSet(S), NEW a \in S, NEW b \in S, a # b
    PROVE  Cardinality(S) >= 2
<1>1. IsFiniteSet({a}) /\ Cardinality({a}) = 1
  BY FS_Singleton, ZenonT(30)
<1>2. Cardinality({a} \cup {b}) = 2
  <2>1. Cardinality({a} \cup {b}) = Cardinality({a}) + 1
    BY <1>1, FS_AddElement, b \notin {a}, ZenonT(30)
  <2> QED
    BY <1>1, <2>1
<1>3. {a} \cup {b} \subseteq S
  OBVIOUS
<1>4. Cardinality({a} \cup {b}) <= Cardinality(S)
  BY <1>3, FS_Subset, ZenonT(30)
<1>5. Cardinality(S) \in Nat
  BY FS_CardinalityType, ZenonT(30)
<1> QED
  BY <1>2, <1>4, <1>5, ZenonT(30)

(* The next id is one past the ids in use. *)
LEMMA NextId ==
    ASSUME NEW n \in Nat, DOMAIN transfers = 1..n
    PROVE  Cardinality(DOMAIN transfers) = n
<1>1. 1 \in Int /\ n \in Int
  OBVIOUS
<1> QED
  BY <1>1, FS_Interval

(* The invariant holds while there is no transfer. *)
LEMMA FloatInitially == FloatInit => FloatInv
<1> SUFFICES ASSUME FloatInit PROVE FloatInv
  OBVIOUS
<1>1. DOMAIN transfers = 1..0 /\ DOMAIN approvers = 1..0
  BY DEF FloatInit
<1> QED
  BY <1>1 DEF FloatInit, FloatInv, FloatTypeOK, ApprovalsDiffer, Idle

(* The INSERT of a transfer keeps it: nobody has approved the new row. *)
LEMMA InsertKeeps ==
    ASSUME FloatInv, NEW d \in Desks, insert_transfer(d)
    PROVE  FloatInv'
<1>1. PICK n \in Nat : DOMAIN transfers = 1..n /\ DOMAIN approvers = 1..n
  BY ZenonT(30) DEF FloatInv, FloatTypeOK
<1> DEFINE id == n + 1
<1>2. Cardinality(DOMAIN transfers) + 1 = id
  BY <1>1, NextId, ZenonT(30)
<1>3. PICK new : /\ TransferRow(new) /\ new.status = "PENDING_APPROVAL"
                 /\ transfers' = [t \in 1..id |-> IF t = id THEN new ELSE transfers[t]]
  BY <1>2, ZenonT(30) DEF insert_transfer, TransferRow
<1>4. /\ approvers' = [t \in 1..id |-> IF t = id THEN {} ELSE approvers[t]]
      /\ desk' = [desk EXCEPT ![d] = [at |-> "own", id |-> id]]
      /\ confirmed' = confirmed
  BY <1>2, ZenonT(30) DEF insert_transfer
<1>5. 1..id = 1..n \cup {id} /\ id \notin 1..n /\ id \in Nat
  OBVIOUS
<1> HIDE DEF id
<1>6. FloatTypeOK'
  <2>1. DOMAIN transfers' = 1..id /\ DOMAIN approvers' = 1..id /\ DOMAIN transfers \subseteq 1..id
    BY <1>1, <1>3, <1>4, <1>5, ZenonT(30)
  <2>2. \A t \in 1..id : TransferRow(transfers'[t]) /\ IsFiniteSet(approvers'[t])
    BY <1>1, <1>3, <1>4, <1>5, FS_EmptySet, ZenonT(30) DEF FloatInv, FloatTypeOK
  <2>3. confirmed' \subseteq 1..id
    BY <1>1, <1>4, <1>5, ZenonT(30) DEF FloatInv, FloatTypeOK
  <2>4. DOMAIN desk' = Desks
    BY <1>4, ZenonT(30) DEF FloatInv, FloatTypeOK
  <2>5. ASSUME NEW e \in Desks
        PROVE  /\ desk'[e].at \in {"idle", "insert", "own", "count", "reject"}
               /\ desk'[e].at \in {"own", "count", "reject"} => desk'[e].id \in 1..id
    <3>1. CASE e = d
      BY <1>4, <1>5, <3>1, ZenonT(30) DEF FloatInv, FloatTypeOK
    <3>2. CASE e # d
      BY <1>1, <1>4, <1>5, <3>2, ZenonT(30) DEF FloatInv, FloatTypeOK
    <3> QED
      BY <3>1, <3>2, ZenonT(30)
  <2> QED
    BY <1>5, <2>1, <2>2, <2>3, <2>4, <2>5, ZenonT(30) DEF FloatTypeOK
<1>7. ApprovalsDiffer'
  <2>1. \A t \in 1..n : transfers'[t] = transfers[t] /\ approvers'[t] = approvers[t]
    BY <1>3, <1>4, <1>5, ZenonT(30)
  <2>2. ~Executed(id)' /\ transfers'[id] = new
    BY <1>3, <1>5, ZenonT(30) DEF Executed
  <2>3. \A t \in confirmed' : transfers'[t].created_by \in approvers'[t]
    BY <1>1, <1>4, <2>1, ZenonT(30) DEF FloatInv, FloatTypeOK, ApprovalsDiffer
  <2>4. ASSUME NEW e \in Desks, desk'[e].at = "count"
        PROVE  /\ desk'[e].by \in approvers'[desk'[e].id]
               /\ desk'[e].id \in confirmed' => desk'[e].by # transfers'[desk'[e].id].created_by
    <3>1. e # d /\ desk'[e] = desk[e]
      BY <1>4, <2>4, ZenonT(30) DEF FloatInv, FloatTypeOK
    <3>2. desk[e].id \in 1..n
      BY <1>1, <2>4, <3>1, ZenonT(30) DEF FloatInv, FloatTypeOK
    <3>3. /\ transfers'[desk[e].id] = transfers[desk[e].id]
          /\ approvers'[desk[e].id] = approvers[desk[e].id]
      BY <2>1, <3>2, ZenonT(30)
    <3>4. /\ desk[e].by \in approvers[desk[e].id]
          /\ desk[e].id \in confirmed => desk[e].by # transfers[desk[e].id].created_by
      BY <2>4, <3>1, ZenonT(30) DEF FloatInv, ApprovalsDiffer
    <3> QED
      BY <1>4, <3>1, <3>3, <3>4
  <2>5. ASSUME NEW t \in DOMAIN transfers', Executed(t)'
        PROVE  \E a \in approvers'[t] : t \in confirmed' => a # transfers'[t].created_by
    <3>1. t \in 1..n
      BY <1>3, <1>5, <2>2, <2>5, ZenonT(30)
    <3> QED
      BY <1>1, <1>4, <2>1, <2>5, <3>1, ZenonT(30) DEF FloatInv, ApprovalsDiffer, Executed
  <2> QED
    BY <2>3, <2>4, <2>5, ZenonT(30) DEF ApprovalsDiffer
<1> QED
  BY <1>6, <1>7, ZenonT(30) DEF FloatInv

(* An approval keeps it: the unique key admits a person once, so that the     *)
(* creator and whoever approved before the creator differ.                    *)
LEMMA ApproveKeeps ==
    ASSUME FloatInv, NEW d \in Desks,
           \/ insert_own_approval(d)
           \/ \E id, by : approveTransfer(d, id, by)
    PROVE  FloatInv'
<1>1. CASE insert_own_approval(d)
  <2> DEFINE id == desk[d].id
             by == transfers[id].created_by
  <2>1. id \in DOMAIN transfers /\ desk[d].at = "own"
    BY <1>1, ZenonT(30) DEF insert_own_approval, FloatInv, FloatTypeOK
  <2>2. desk' = [desk EXCEPT ![d] = Idle] /\ UNCHANGED transfers
    BY <1>1, ZenonT(30) DEF insert_own_approval
  <2>3. CASE by \notin approvers[id] /\ approvers' = [approvers EXCEPT ![id] = @ \cup {by}]
             /\ confirmed' = confirmed \cup {id}
    <3>1. IsFiniteSet(approvers[id] \cup {by})
      BY <2>1, FS_AddElement, ZenonT(30) DEF FloatInv, FloatTypeOK
    <3>2. FloatTypeOK'
      BY <2>1, <2>2, <2>3, <3>1, ZenonT(30) DEF FloatInv, FloatTypeOK, Idle
    <3>3. ApprovalsDiffer'
      BY <2>1, <2>2, <2>3 DEF FloatInv, FloatTypeOK, ApprovalsDiffer, Executed, Idle
    <3> QED
      BY <3>2, <3>3, ZenonT(30) DEF FloatInv
  <2>4. CASE UNCHANGED <<approvers, confirmed>>
    BY <2>1, <2>2, <2>4, ZenonT(30) DEF FloatInv, FloatTypeOK, ApprovalsDiffer, Executed, Idle
  <2> QED
    BY <1>1, <2>3, <2>4, ZenonT(30) DEF insert_own_approval
<1>2. ASSUME NEW id, NEW by, approveTransfer(d, id, by)
      PROVE  FloatInv'
  <2>1. /\ id \in DOMAIN transfers /\ by \notin approvers[id]
        /\ approvers' = [approvers EXCEPT ![id] = @ \cup {by}]
        /\ UNCHANGED <<transfers, confirmed>>
    BY <1>2, ZenonT(30) DEF approveTransfer, may_approve
  <2>2. PICK n : desk' = [desk EXCEPT ![d] = [at |-> "count", id |-> id, by |-> by,
                                              new_count |-> n]]
    BY <1>2, ZenonT(30) DEF approveTransfer
  <2>3. IsFiniteSet(approvers[id] \cup {by})
    BY <2>1, FS_AddElement, ZenonT(30) DEF FloatInv, FloatTypeOK
  <2>4. FloatTypeOK'
    BY <2>1, <2>2, <2>3, ZenonT(30) DEF FloatInv, FloatTypeOK
  <2>5. ApprovalsDiffer'
    BY <2>1, <2>2 DEF FloatInv, FloatTypeOK, ApprovalsDiffer, Executed
  <2> QED
    BY <2>4, <2>5, ZenonT(30) DEF FloatInv
<1> QED
  BY <1>1, <1>2, ZenonT(30)

(* The UPDATEs of a row keep it: they leave its creator and its approvals. *)
LEMMA WritesKeep ==
    ASSUME FloatInv, NEW d \in Desks, execute(d) \/ write_rejection(d)
    PROVE  FloatInv'
<1>1. desk[d].id \in DOMAIN transfers /\ desk' = [desk EXCEPT ![d] = Idle]
      /\ UNCHANGED <<approvers, confirmed>>
  BY ZenonT(30) DEF execute, write_rejection, FloatInv, FloatTypeOK
<1>2. CASE execute(d)
  <2>1. DOMAIN transfers' = DOMAIN transfers
        /\ \A t \in DOMAIN transfers : /\ TransferRow(transfers'[t])
                                       /\ transfers'[t].created_by = transfers[t].created_by
                                       /\ t # desk[d].id => transfers'[t] = transfers[t]
    <3>1. CASE \E n, status : transfers' = [transfers EXCEPT ![desk[d].id] =
                                              [@ EXCEPT !.status = status, !.approval_count = n]]
      BY <1>1, <3>1 DEF FloatInv, FloatTypeOK, TransferRow
    <3>2. CASE \E n : transfers' = [transfers EXCEPT ![desk[d].id].approval_count = n]
      BY <1>1, <3>2 DEF FloatInv, FloatTypeOK, TransferRow
    <3> QED
      BY <1>2, <3>1, <3>2, ZenonT(30) DEF execute
  <2>2. desk[d].at = "count"
    BY <1>2, ZenonT(30) DEF execute
  <2>3. FloatTypeOK'
    BY <1>1, <2>1, ZenonT(30) DEF FloatInv, FloatTypeOK, Idle
  <2>4. ApprovalsDiffer'
    BY <1>1, <2>1, <2>2 DEF FloatInv, FloatTypeOK, ApprovalsDiffer, Executed, Idle
  <2> QED
    BY <2>3, <2>4, ZenonT(30) DEF FloatInv
<1>3. CASE write_rejection(d)
  <2>1. DOMAIN transfers' = DOMAIN transfers
        /\ \A t \in DOMAIN transfers : /\ TransferRow(transfers'[t])
                                       /\ transfers'[t].created_by = transfers[t].created_by
                                       /\ Executed(t)' => Executed(t)
    BY <1>1, <1>3, ZenonT(30) DEF write_rejection, FloatInv, FloatTypeOK, TransferRow, Executed
  <2>3. FloatTypeOK'
    BY <1>1, <2>1, ZenonT(30) DEF FloatInv, FloatTypeOK, Idle
  <2>4. ApprovalsDiffer'
    BY <1>1, <2>1 DEF FloatInv, FloatTypeOK, ApprovalsDiffer, Idle
  <2> QED
    BY <2>3, <2>4, ZenonT(30) DEF FloatInv
<1> QED
  BY <1>2, <1>3, ZenonT(30)

(* The reads, the limits and the passing of days keep it. *)
LEMMA DesksKeep ==
    ASSUME FloatInv,
           \/ \E d \in Desks : \E by, pair, amount : initiateTransfer(d, by, pair, amount)
           \/ \E d \in Desks : \E id, by : rejectTransfer(d, id, by)
           \/ \E d \in Desks : request_dies(d)
           \/ \E by, pair, limits : setPairLimits(by, pair, limits)
           \/ \E n \in {1, 7} : days_pass(n)
    PROVE  FloatInv'
<1>1. ASSUME NEW d \in Desks, NEW by, NEW pair, NEW amount, initiateTransfer(d, by, pair, amount)
      PROVE  FloatInv'
  BY <1>1, ZenonT(30) DEF initiateTransfer, FloatInv, FloatTypeOK, ApprovalsDiffer, Executed
<1>2. ASSUME NEW d \in Desks, NEW id, NEW by, rejectTransfer(d, id, by)
      PROVE  FloatInv'
  BY <1>2, ZenonT(30) DEF rejectTransfer, FloatInv, FloatTypeOK, ApprovalsDiffer, Executed
<1>3. ASSUME NEW d \in Desks, request_dies(d)
      PROVE  FloatInv'
  BY <1>3, ZenonT(30) DEF request_dies, FloatInv, FloatTypeOK, ApprovalsDiffer, Executed, Idle
<1>4. ASSUME NEW by, NEW pair, NEW limits, setPairLimits(by, pair, limits)
      PROVE  FloatInv'
  BY <1>4, ZenonT(30) DEF setPairLimits, FloatInv, FloatTypeOK, ApprovalsDiffer, Executed
<1>5. ASSUME NEW n \in {1, 7}, days_pass(n)
      PROVE  FloatInv'
  <2>1. DOMAIN transfers' = DOMAIN transfers
        /\ \A t \in DOMAIN transfers : /\ TransferRow(transfers'[t])
                                       /\ transfers'[t].created_by = transfers[t].created_by
                                       /\ transfers'[t].status = transfers[t].status
    BY <1>5, ZenonT(30) DEF days_pass, FloatInv, FloatTypeOK, TransferRow
  <2>2. UNCHANGED <<approvers, desk, confirmed>>
    BY <1>5, ZenonT(30) DEF days_pass
  <2> QED
    BY <2>1, <2>2, ZenonT(30) DEF FloatInv, FloatTypeOK, ApprovalsDiffer, Executed
<1> QED
  BY <1>1, <1>2, <1>3, <1>4, <1>5, ZenonT(30)

(* Every step keeps it. *)
LEMMA FloatStep ==
    ASSUME FloatInv, [FloatNext]_float_vars
    PROVE  FloatInv'
<1>1. CASE FloatNext
  BY <1>1, InsertKeeps, ApproveKeeps, WritesKeep, DesksKeep, ZenonT(30) DEF FloatNext
<1>2. CASE UNCHANGED float_vars
  BY <1>2, ZenonT(30) DEF float_vars, FloatInv, FloatTypeOK, ApprovalsDiffer, Executed
<1> QED
  BY <1>1, <1>2, ZenonT(30)

(* A transfer whose creator was answered 201 is executed on the word of two   *)
(* people only, for every number of agents, requests in flight and transfers. *)
THEOREM TwoPeopleExecute == FloatSpec => []ConfirmedNeedsTwo
<1>1. FloatInit => FloatInv
  BY FloatInitially, ZenonT(30)
<1>2. FloatInv /\ [FloatNext]_float_vars => FloatInv'
  BY FloatStep, ZenonT(30)
<1>3. FloatInv => ConfirmedNeedsTwo
  <2> SUFFICES ASSUME FloatInv, NEW t \in confirmed, Executed(t)
               PROVE  Cardinality(approvers[t]) >= 2
    BY ZenonT(30) DEF ConfirmedNeedsTwo, Executed
  <2>1. IsFiniteSet(approvers[t]) /\ transfers[t].created_by \in approvers[t]
    BY ZenonT(30) DEF FloatInv, FloatTypeOK, ApprovalsDiffer
  <2>2. PICK a \in approvers[t] : a # transfers[t].created_by
    BY ZenonT(30) DEF FloatInv, FloatTypeOK, ApprovalsDiffer
  <2> QED
    BY <2>1, <2>2, TwoApprovers, ZenonT(30)
<1> QED
  BY <1>1, <1>2, <1>3, PTL DEF FloatSpec

-----------------------------------------------------------------------------
(* Proof that RemittancesSettle holds for every number of requests in flight, *)
(* senders and rows.  The bounds and the screening play no part in it.        *)

(* Where a request has the row it claimed. *)
Held == {"send", "poll", "fail", "complete"}

RemitTypeOK ==
    /\ \E n \in Nat : DOMAIN remittances = 1..n /\ DOMAIN onchain = 1..n
    /\ \A r \in DOMAIN remittances :
           DOMAIN remittances[r] = {"sender", "amount", "seq", "status", "hash"}
    /\ DOMAIN clerk = Clerks
    /\ \A c \in Clerks :
           /\ clerk[c].at \in {"free", "build", "insert", "claim"} \cup Held
           /\ clerk[c].at \in {"claim"} \cup Held => /\ clerk[c].id \in DOMAIN remittances
                                                     /\ DOMAIN clerk[c] = {"at", "id", "signed"}

(* A claim is of a row that was pending, so that nobody has it; a row leaves  *)
(* processing by the write of the request that has it; and a payment that was *)
(* applied stays so.                                                          *)
OneHolder ==
    /\ \A c, e \in Clerks : clerk[c].at \in Held /\ clerk[e].at \in Held /\ clerk[c].id = clerk[e].id
                               => c = e
    /\ \A c \in Clerks : clerk[c].at \in Held => remittances[clerk[c].id].status = "processing"

PaidFirst ==
    /\ \A c \in Clerks : clerk[c].at = "complete" => onchain[clerk[c].id] = "applied"
    /\ CompletedIsPaid

RemitInv == RemitTypeOK /\ OneHolder /\ PaidFirst

(* The invariant holds while there is no remittance. *)
LEMMA RemitInitially == RemitInit => RemitInv
<1> SUFFICES ASSUME RemitInit PROVE RemitInv
  OBVIOUS
<1>1. DOMAIN remittances = 1..0 /\ DOMAIN onchain = 1..0
  BY DEF RemitInit
<1>2. DOMAIN clerk = Clerks /\ \A c \in Clerks : clerk[c].at = "free"
  BY ZenonT(30) DEF RemitInit, Free
<1>3. 0 \in Nat /\ 1..0 = {}
  OBVIOUS
<1>4. "free" \notin {"claim"} \cup Held
  BY DEF Held
<1>5. RemitTypeOK
  BY <1>1, <1>2, <1>3, <1>4, ZenonT(30) DEF RemitTypeOK
<1>6. OneHolder /\ PaidFirst
  BY <1>1, <1>2, <1>3, <1>4 DEF OneHolder, PaidFirst, CompletedIsPaid
<1> QED
  BY <1>5, <1>6 DEF RemitInv

(* A request that moves on without a claim or a payment it did not have keeps *)
(* it.                                                                        *)
LEMMA ClerkKeeps ==
    ASSUME RemitInv, NEW c \in Clerks, NEW new, clerk' = [clerk EXCEPT ![c] = new],
           UNCHANGED <<remittances, onchain>>,
           \/ new.at \in {"free", "build", "insert"}
           \/ /\ new.at = "claim" /\ new.id \in DOMAIN remittances
              /\ DOMAIN new = {"at", "id", "signed"}
           \/ /\ clerk[c].at \in Held /\ new.at \in Held /\ new.id = clerk[c].id
              /\ DOMAIN new = {"at", "id", "signed"}
              /\ new.at = "complete" => onchain[new.id] = "applied"
    PROVE  RemitInv'
<1>1. /\ DOMAIN clerk' = Clerks /\ clerk'[c] = new
      /\ \A e \in Clerks : e # c => clerk'[e] = clerk[e]
  BY ZenonT(30) DEF RemitInv, RemitTypeOK
<1>2. RemitTypeOK'
  BY <1>1, ZenonT(30) DEF RemitInv, RemitTypeOK, Held
<1>3. OneHolder'
  BY <1>1 DEF RemitInv, OneHolder, Held
<1>4. PaidFirst'
  BY <1>1, ZenonT(30) DEF RemitInv, PaidFirst, CompletedIsPaid, Held
<1> QED
  BY <1>2, <1>3, <1>4, ZenonT(30) DEF RemitInv

(* The INSERT keeps it: the new row is pending and unpaid. *)
LEMMA CreateKeeps ==
    ASSUME RemitInv, NEW c \in Clerks, createRemittance(c)
    PROVE  RemitInv'
<1>1. PICK n \in Nat : DOMAIN remittances = 1..n /\ DOMAIN onchain = 1..n
  BY ZenonT(30) DEF RemitInv, RemitTypeOK
<1> DEFINE id == n + 1
<1>2. Cardinality(DOMAIN remittances) + 1 = id
  <2>1. 1 \in Int /\ n \in Int
    OBVIOUS
  <2>2. Cardinality(1..n) = IF 1 > n THEN 0 ELSE n - 1 + 1
    BY <2>1, FS_Interval, ZenonT(30)
  <2> QED
    BY <1>1, <2>2
<1>3. PICK new : /\ DOMAIN new = {"sender", "amount", "seq", "status", "hash"}
                 /\ new.status = "pending"
                 /\ remittances' = [r \in 1..id |-> IF r = id THEN new ELSE remittances[r]]
  BY <1>2, ZenonT(30) DEF createRemittance
<1>4. /\ onchain' = [r \in 1..id |-> IF r = id THEN "unsent" ELSE onchain[r]]
      /\ clerk' = [clerk EXCEPT ![c] = Free]
  BY <1>2, ZenonT(30) DEF createRemittance
<1>5. 1..id = 1..n \cup {id} /\ id \notin 1..n /\ id \in Nat
  OBVIOUS
<1> HIDE DEF id
<1>6. \A r \in 1..n : remittances'[r] = remittances[r] /\ onchain'[r] = onchain[r]
  BY <1>3, <1>4, <1>5, ZenonT(30)
<1>7. RemitTypeOK'
  BY <1>1, <1>3, <1>4, <1>5, ZenonT(30) DEF RemitInv, RemitTypeOK, Free, Held
<1>8. \A e \in Clerks : clerk'[e].at \in Held => clerk'[e] = clerk[e] /\ clerk[e].id \in 1..n
  BY <1>1, <1>4, ZenonT(30) DEF RemitInv, RemitTypeOK, Free, Held
<1>9. OneHolder'
  BY <1>6, <1>8 DEF RemitInv, OneHolder
<1>10. PaidFirst'
  <2>1. \A e \in Clerks : clerk'[e].at = "complete" => onchain'[clerk'[e].id] = "applied"
    BY <1>6, <1>8 DEF RemitInv, PaidFirst, Held
  <2>2. CompletedIsPaid'
    BY <1>1, <1>3, <1>5, <1>6, ZenonT(30) DEF RemitInv, PaidFirst, CompletedIsPaid
  <2> QED
    BY <2>1, <2>2, ZenonT(30) DEF PaidFirst
<1> QED
  BY <1>7, <1>9, <1>10, ZenonT(30) DEF RemitInv

(* The claim keeps it: it takes a row that is pending, which nobody has. *)
LEMMA ClaimKeeps ==
    ASSUME RemitInv, NEW c \in Clerks, claim(c)
    PROVE  RemitInv'
<1> DEFINE r == clerk[c].id
<1>1. /\ clerk[c].at = "claim" /\ r \in DOMAIN remittances /\ UNCHANGED onchain
      /\ DOMAIN clerk[c] = {"at", "id", "signed"}
  BY ZenonT(30) DEF claim, RemitInv, RemitTypeOK
<1>2. CASE remittances[r].status = "pending"
  <2>1. /\ remittances' = [remittances EXCEPT ![r] = [@ EXCEPT !.status = "processing",
                                                              !.hash = FALSE \/ @]]
        /\ clerk' = [clerk EXCEPT ![c] = [@ EXCEPT !.at = "send"]]
    BY <1>2, ZenonT(30) DEF claim, updateRemittanceStatus, claimable
  <2>2. /\ DOMAIN remittances' = DOMAIN remittances
        /\ DOMAIN remittances'[r] = {"sender", "amount", "seq", "status", "hash"}
        /\ remittances'[r].status = "processing"
        /\ \A x \in DOMAIN remittances : x # r => remittances'[x] = remittances[x]
    BY <1>1, <2>1, ZenonT(30) DEF RemitInv, RemitTypeOK
  <2>3. /\ DOMAIN clerk' = Clerks
        /\ clerk'[c].at = "send" /\ clerk'[c].id = r /\ DOMAIN clerk'[c] = {"at", "id", "signed"}
        /\ \A e \in Clerks : e # c => clerk'[e] = clerk[e]
    BY <1>1, <2>1, ZenonT(30) DEF RemitInv, RemitTypeOK
  <2> HIDE DEF r
  <2>4. \A e \in Clerks : clerk[e].at \in Held => clerk[e].id # r
    BY <1>2, ZenonT(30) DEF RemitInv, OneHolder
  <2>5. RemitTypeOK'
    BY <1>1, <2>2, <2>3 DEF RemitInv, RemitTypeOK, Held
  <2>6. OneHolder'
    BY <1>1, <2>2, <2>3, <2>4 DEF RemitInv, RemitTypeOK, OneHolder, Held
  <2>7. PaidFirst'
    BY <1>1, <2>2, <2>3 DEF RemitInv, RemitTypeOK, PaidFirst, CompletedIsPaid
  <2> QED
    BY <2>5, <2>6, <2>7, ZenonT(30) DEF RemitInv
<1>3. CASE remittances[r].status # "pending"
  <2>1. clerk' = [clerk EXCEPT ![c] = Free] /\ UNCHANGED remittances
    BY <1>3, ZenonT(30) DEF claim, updateRemittanceStatus, claimable
  <2> QED
    BY <1>1, <2>1, ClerkKeeps, ZenonT(30) DEF Free
<1> QED
  BY <1>2, <1>3, ZenonT(30)

(* The write of the outcome keeps it: the one request that has the row gives  *)
(* it up.                                                                     *)
LEMMA MarkKeeps ==
    ASSUME RemitInv, NEW c \in Clerks, mark_failed(c) \/ mark_completed(c)
    PROVE  RemitInv'
<1> DEFINE r == clerk[c].id
<1>1. /\ clerk[c].at \in {"fail", "complete"} /\ r \in DOMAIN remittances
      /\ remittances[r].status = "processing"
      /\ clerk' = [clerk EXCEPT ![c] = Free] /\ UNCHANGED onchain
  BY ZenonT(30) DEF mark_failed, mark_completed, RemitInv, RemitTypeOK, OneHolder, Held
<1>2. /\ DOMAIN remittances' = DOMAIN remittances
      /\ DOMAIN remittances'[r] = {"sender", "amount", "seq", "status", "hash"}
      /\ remittances'[r].status = "completed" => onchain[r] = "applied" /\ remittances'[r].hash
      /\ \A x \in DOMAIN remittances : x # r => remittances'[x] = remittances[x]
  <2>1. CASE mark_failed(c)
    <3>1. remittances' = [remittances EXCEPT ![r] = [@ EXCEPT !.status = "failed",
                                                            !.hash = FALSE \/ @]]
      BY <1>1, <2>1, ZenonT(30) DEF mark_failed, updateRemittanceStatus
    <3> QED
      BY <1>1, <3>1, ZenonT(30) DEF RemitInv, RemitTypeOK
  <2>2. CASE mark_completed(c)
    <3>1. remittances' = [remittances EXCEPT ![r] = [@ EXCEPT !.status = "completed",
                                                            !.hash = TRUE \/ @]]
      BY <1>1, <2>2, ZenonT(30) DEF mark_completed, updateRemittanceStatus
    <3>2. onchain[r] = "applied"
      BY <2>2, ZenonT(30) DEF mark_completed, RemitInv, PaidFirst
    <3> QED
      BY <1>1, <3>1, <3>2, ZenonT(30) DEF RemitInv, RemitTypeOK
  <2> QED
    BY <2>1, <2>2, ZenonT(30)
<1>3. /\ DOMAIN clerk' = Clerks /\ clerk'[c].at = "free"
      /\ \A e \in Clerks : e # c => clerk'[e] = clerk[e]
  BY <1>1, ZenonT(30) DEF RemitInv, RemitTypeOK, Free
<1>4. \A e \in Clerks : e # c /\ clerk[e].at \in Held => clerk[e].id # r
  BY <1>1, ZenonT(30) DEF RemitInv, OneHolder, Held
<1> HIDE DEF r
<1>5. RemitTypeOK'
  BY <1>1, <1>2, <1>3 DEF RemitInv, RemitTypeOK, Held
<1>6. OneHolder'
  BY <1>1, <1>2, <1>3, <1>4 DEF RemitInv, RemitTypeOK, OneHolder, Held
<1>7. PaidFirst'
  BY <1>1, <1>2, <1>3, ZenonT(30) DEF RemitInv, RemitTypeOK, PaidFirst, CompletedIsPaid
<1> QED
  BY <1>5, <1>6, <1>7, ZenonT(30) DEF RemitInv

(* Sending keeps it: a payment that was applied is not queued again. *)
LEMMA SendKeeps ==
    ASSUME RemitInv, NEW c \in Clerks, send(c)
    PROVE  RemitInv'
<1>1. /\ clerk[c].at = "send" /\ clerk[c].id \in DOMAIN onchain /\ UNCHANGED remittances
      /\ DOMAIN clerk[c] = {"at", "id", "signed"}
  BY ZenonT(30) DEF send, RemitInv, RemitTypeOK, Held
<1>2. PICK at \in {"poll", "fail"} : clerk' = [clerk EXCEPT ![c].at = at]
  BY ZenonT(30) DEF send
<1>3. /\ DOMAIN onchain' = DOMAIN onchain
      /\ \A x \in DOMAIN onchain : onchain[x] = "applied" => onchain'[x] = "applied"
  BY <1>1, ZenonT(30) DEF send, accepted
<1>4. /\ DOMAIN clerk' = Clerks
      /\ clerk'[c].at = at /\ clerk'[c].id = clerk[c].id
      /\ DOMAIN clerk'[c] = {"at", "id", "signed"}
      /\ \A e \in Clerks : e # c => clerk'[e] = clerk[e]
  BY <1>1, <1>2, ZenonT(30) DEF RemitInv, RemitTypeOK
<1>5. RemitTypeOK'
  BY <1>1, <1>3, <1>4, ZenonT(30) DEF RemitInv, RemitTypeOK, Held
<1>6. OneHolder'
  BY <1>1, <1>4 DEF RemitInv, OneHolder, Held
<1>7. PaidFirst'
  BY <1>1, <1>3, <1>4 DEF RemitInv, RemitTypeOK, PaidFirst, CompletedIsPaid, Held
<1> QED
  BY <1>5, <1>6, <1>7, ZenonT(30) DEF RemitInv

(* So does the ledger, which drops only what is queued. *)
LEMMA LedgerKeeps ==
    ASSUME RemitInv, NEW r, payment_closes(r)
    PROVE  RemitInv'
<1>1. /\ DOMAIN onchain' = DOMAIN onchain
      /\ \A x \in DOMAIN onchain : onchain[x] = "applied" => onchain'[x] = "applied"
  BY ZenonT(30) DEF payment_closes, RemitInv, RemitTypeOK
<1>2. UNCHANGED <<remittances, clerk>>
  BY ZenonT(30) DEF payment_closes
<1> QED
  BY <1>1, <1>2, ZenonT(30) DEF RemitInv, RemitTypeOK, OneHolder, PaidFirst, CompletedIsPaid, Held

(* The screenings, the reads and checks, and the end of a request keep it. *)
LEMMA ClerksKeep ==
    ASSUME RemitInv,
           \/ \E s, hits, high_risk : screenApplicant(s, hits, high_risk)
           \/ \E c \in Clerks : \E s, amount : monitorTransaction(c, s, amount)
           \/ \E c \in Clerks : \E r, user, signed : submitRemittanceTransaction(c, r, user, signed)
           \/ \E c \in Clerks : build_payment(c) \/ poll_payment(c) \/ clerk_dies(c)
    PROVE  RemitInv'
<1>1. ASSUME UNCHANGED <<remittances, onchain, clerk>> PROVE RemitInv'
  BY <1>1, ZenonT(30) DEF RemitInv, RemitTypeOK, OneHolder, PaidFirst, CompletedIsPaid, Held
<1>2. ASSUME NEW s, NEW hits, NEW high_risk, screenApplicant(s, hits, high_risk) PROVE RemitInv'
  BY <1>1, <1>2, ZenonT(30) DEF screenApplicant
<1>3. ASSUME NEW c \in Clerks, NEW s, NEW amount, monitorTransaction(c, s, amount)
      PROVE  RemitInv'
  <2>1. CASE UNCHANGED clerk
    BY <1>1, <1>3, <2>1, ZenonT(30) DEF monitorTransaction
  <2>2. CASE clerk' = [clerk EXCEPT ![c] = [at |-> "build", sender |-> s, amount |-> amount]]
    BY <1>3, <2>2, ClerkKeeps, ZenonT(30) DEF monitorTransaction
  <2> QED
    BY <1>3, <2>1, <2>2, ZenonT(30) DEF monitorTransaction
<1>4. ASSUME NEW c \in Clerks, NEW r, NEW user, NEW signed,
             submitRemittanceTransaction(c, r, user, signed)
      PROVE  RemitInv'
  BY <1>4, ClerkKeeps, ZenonT(30) DEF submitRemittanceTransaction
<1>5. ASSUME NEW c \in Clerks, build_payment(c) PROVE RemitInv'
  BY <1>5, ClerkKeeps, ZenonT(30) DEF build_payment
<1>6. ASSUME NEW c \in Clerks, poll_payment(c) PROVE RemitInv'
  <2>1. /\ clerk[c].at = "poll" /\ UNCHANGED <<remittances, onchain>>
        /\ DOMAIN clerk[c] = {"at", "id", "signed"} /\ DOMAIN clerk = Clerks
    BY <1>6, ZenonT(30) DEF poll_payment, RemitInv, RemitTypeOK, Held
  <2>2. CASE clerk' = [clerk EXCEPT ![c] = Free]
    BY <2>1, <2>2, ClerkKeeps, ZenonT(30) DEF Free
  <2>3. ASSUME NEW at \in {"complete", "fail"}, clerk' = [clerk EXCEPT ![c].at = at],
               at = "complete" => onchain[clerk[c].id] = "applied"
        PROVE  RemitInv'
    <3>1. clerk' = [clerk EXCEPT ![c] = [clerk[c] EXCEPT !.at = at]]
      BY <2>1, <2>3, ZenonT(30)
    <3>2. /\ [clerk[c] EXCEPT !.at = at].at = at
          /\ [clerk[c] EXCEPT !.at = at].id = clerk[c].id
          /\ DOMAIN [clerk[c] EXCEPT !.at = at] = {"at", "id", "signed"}
      BY <2>1, ZenonT(30)
    <3> QED
      BY <2>1, <2>3, <3>1, <3>2, ClerkKeeps, ZenonT(30) DEF Held
  <2> QED
    BY <1>6, <2>2, <2>3, ZenonT(30) DEF poll_payment, poll_outcome, polled
<1>7. ASSUME NEW c \in Clerks, clerk_dies(c) PROVE RemitInv'
  BY <1>7, ClerkKeeps, ZenonT(30) DEF clerk_dies, Free
<1> QED
  BY <1>2, <1>3, <1>4, <1>5, <1>6, <1>7, ZenonT(30)

(* Every step keeps it. *)
LEMMA RemitStep ==
    ASSUME RemitInv, [RemitNext]_remit_vars
    PROVE  RemitInv'
<1>1. CASE RemitNext
  BY <1>1, CreateKeeps, ClaimKeeps, SendKeeps, MarkKeeps, LedgerKeeps, ClerksKeep, ZenonT(30) DEF RemitNext
<1>2. CASE UNCHANGED remit_vars
  BY <1>2, ZenonT(30) DEF remit_vars, RemitInv, RemitTypeOK, OneHolder, PaidFirst, CompletedIsPaid, Held
<1> QED
  BY <1>1, <1>2, ZenonT(30)

(* For every number of requests, senders and rows: one request at most has a  *)
(* remittance, and one that is shown as completed was paid.                   *)
THEOREM RemittancesAreSettled == RemitSpec => []RemittancesSettle
<1>1. RemitInit => RemitInv
  BY RemitInitially, ZenonT(30)
<1>2. RemitInv /\ [RemitNext]_remit_vars => RemitInv'
  BY RemitStep, ZenonT(30)
<1>3. RemitInv => RemittancesSettle
  <2> SUFFICES ASSUME RemitInv, NEW r \in DOMAIN remittances
               PROVE  LET holders == {c \in Clerks : submitting(c, r)}
                      IN  /\ Cardinality(holders) <= 1
                          /\ holders # {} => remittances[r].status = "processing"
    BY ZenonT(30) DEF RemittancesSettle, ClaimedOnce, RemitInv, PaidFirst
  <2> DEFINE holders == {c \in Clerks : submitting(c, r)}
  <2>1. CASE holders = {}
    <3>1. Cardinality(holders) = 0
      BY <2>1, FS_EmptySet, ZenonT(30)
    <3> QED
      BY <2>1, <3>1
  <2>2. CASE holders # {}
    <3>1. PICK c \in Clerks : submitting(c, r)
      BY <2>2, ZenonT(30)
    <3>2. holders = {c}
      BY <3>1, ZenonT(30) DEF RemitInv, OneHolder, submitting, Held
    <3>3. Cardinality(holders) = 1
      BY <3>2, FS_Singleton, ZenonT(30)
    <3>4. remittances[r].status = "processing"
      BY <3>1, ZenonT(30) DEF RemitInv, OneHolder, submitting, Held
    <3> QED
      BY <3>3, <3>4
  <2> QED
    BY <2>1, <2>2, ZenonT(30)
<1> QED
  BY <1>1, <1>2, <1>3, PTL DEF RemitSpec

-----------------------------------------------------------------------------
(* Sign-in and sessions, for every number of processes, requests under way,   *)
(* challenges and token pairs.                                                *)

RequestOK(r) ==
    /\ r.at \in {"idle", "login", "issue", "rotate", "logout", "logout all"}
    /\ r.at # "idle" => r.process \in Processes
    /\ r.at = "login" => r.nonce \in 1..issued
    /\ r.at = "issue" => r.nonce \in 0..issued /\ r.family \in Nat
    /\ r.at \in {"rotate", "logout"} => r.pair \in 1..Len(pairs)

TokenPairs == [family : Nat, role : Roles, nonce : Nat]

MemoryOK == DOMAIN memory = Processes /\ \A n \in Processes : DOMAIN memory[n] = {"meta", "families"}

SessionTypeOK ==
    /\ issued \in Nat /\ nonces \subseteq 1..issued
    /\ pairs \in Seq(TokenPairs)
    /\ role \in Roles /\ MemoryOK
    /\ DOMAIN client = Clients /\ \A c \in Clients : RequestOK(client[c])

(* A challenge that was consumed is gone from Redis, and it is in the hands   *)
(* of one login or behind one pair.                                           *)
OnlyHolder(c) ==
    client[c].nonce # 0 =>
        /\ \A p \in 1..Len(pairs) : pairs[p].nonce # client[c].nonce
        /\ \A d \in Clients : client[d].at = "issue" /\ client[d].nonce = client[c].nonce => d = c

ChallengesSpent ==
    /\ \A p \in 1..Len(pairs) : pairs[p].nonce <= issued /\ pairs[p].nonce \notin nonces
    /\ \A c \in Clients : client[c].at = "issue" => client[c].nonce \notin nonces /\ OnlyHolder(c)
    /\ ChallengeUsedOnce

(* What a process has revoked stays in its own map, whatever Redis loses.     *)
RevocationsStand ==
    /\ \A n \in Processes : \A f : <<n, f>> \in outs => f \in memory[n].families
    /\ RevokedStaysOut

SignInInv == SessionTypeOK /\ ChallengesSpent
SessionInv == SignInInv /\ RevocationsStand

(* A request that moves on keeps the challenges in one hand, if the one it    *)
(* takes up was nobody's.                                                     *)
LEMMA RequestMoves ==
    ASSUME SignInInv, NEW c \in Clients, NEW new, RequestOK(new), becomes(c, new),
           UNCHANGED <<issued, pairs>>, nonces' \subseteq nonces, role' \in Roles, MemoryOK',
           new.at = "issue" =>
               /\ new.nonce \notin nonces'
               /\ new.nonce # 0 => /\ \A p \in 1..Len(pairs) : pairs[p].nonce # new.nonce
                                   /\ \A d \in Clients : client[d].at = "issue" => client[d].nonce # new.nonce
    PROVE  SignInInv'
<1>1. /\ DOMAIN client' = Clients /\ client'[c] = new
      /\ \A d \in Clients : d # c => client'[d] = client[d]
  BY ZenonT(30) DEF SignInInv, SessionTypeOK, becomes
<1>2. \A r : RequestOK(r) => RequestOK(r)'
  BY ZenonT(30) DEF RequestOK
<1>3. SessionTypeOK'
  BY <1>1, <1>2, ZenonT(30) DEF SignInInv, SessionTypeOK
<1>4. \A p \in 1..Len(pairs') : pairs'[p].nonce <= issued' /\ pairs'[p].nonce \notin nonces'
  BY ZenonT(30) DEF SignInInv, ChallengesSpent
<1>5. ASSUME NEW d \in Clients, client'[d].at = "issue"
      PROVE  client'[d].nonce \notin nonces' /\ OnlyHolder(d)'
  BY <1>1, <1>5 DEF SignInInv, ChallengesSpent, OnlyHolder
<1>6. ChallengeUsedOnce'
  BY ZenonT(30) DEF SignInInv, ChallengesSpent, ChallengeUsedOnce
<1> QED
  BY <1>3, <1>4, <1>5, <1>6, ZenonT(30) DEF SignInInv, ChallengesSpent

(* Requests that stay as they are keep it too. *)
LEMMA RequestsStay ==
    ASSUME SignInInv, UNCHANGED <<issued, pairs, client>>, nonces' \subseteq nonces,
           role' \in Roles, MemoryOK'
    PROVE  SignInInv'
<1>1. \A r : RequestOK(r) => RequestOK(r)'
  BY ZenonT(30) DEF RequestOK
<1>2. SessionTypeOK'
  BY <1>1, ZenonT(30) DEF SignInInv, SessionTypeOK
<1>3. ChallengesSpent'
  BY ZenonT(30) DEF SignInInv, ChallengesSpent, OnlyHolder, ChallengeUsedOnce
<1> QED
  BY <1>2, <1>3 DEF SignInInv

(* The writes of a process to its map keep the map's shape, and no family     *)
(* leaves it.                                                                 *)
Kept(n, families) ==
    /\ MemoryOK'
    /\ \A m \in Processes : memory[m].families \subseteq memory'[m].families
    /\ families \subseteq memory'[n].families

(* However a process writes its maps, no revoked family leaves them.          *)
LEMMA MapsKept ==
    ASSUME MemoryOK, NEW n \in Processes
    PROVE  /\ \A table : memory' = [memory EXCEPT ![n].meta = table] => Kept(n, {})
           /\ \A f : memory' = [memory EXCEPT ![n].families = @ \cup {f}] => Kept(n, {f})
           /\ \A f, p : memory' = [memory EXCEPT ![n].meta[p].revoked = TRUE,
                                                 ![n].families = @ \cup {f}] => Kept(n, {f})
           /\ UNCHANGED memory => Kept(n, {})
<1>1. ASSUME NEW table, memory' = [memory EXCEPT ![n].meta = table] PROVE Kept(n, {})
  BY <1>1 DEF MemoryOK, Kept
<1>2. ASSUME NEW f, memory' = [memory EXCEPT ![n].families = @ \cup {f}] PROVE Kept(n, {f})
  BY <1>2 DEF MemoryOK, Kept
<1>3. ASSUME NEW f, NEW p, memory' = [memory EXCEPT ![n].meta[p].revoked = TRUE,
                                                    ![n].families = @ \cup {f}]
      PROVE  Kept(n, {f})
  BY <1>3 DEF MemoryOK, Kept
<1>4. ASSUME UNCHANGED memory PROVE Kept(n, {})
  BY <1>4 DEF MemoryOK, Kept
<1> QED
  BY <1>1, <1>2, <1>3, <1>4, ZenonT(30)

(* Challenges come, go and are signed; only the compare-and-delete hands one  *)
(* on.                                                                        *)
LEMMA ChallengesKeep ==
    ASSUME SignInInv, MemoryOK,
           \/ storeChallenge \/ challenge_expires
           \/ \E c \in Clients, n \in Processes, x \in nonces : getIssuedChallenge(c, n, x)
           \/ \E c \in Clients : consumeIssuedChallenge(c)
    PROVE  SignInInv'
<1>0. UNCHANGED memory => MemoryOK'
  BY ZenonT(30) DEF MemoryOK
<1>1. CASE storeChallenge
  <2>1. /\ issued' = issued + 1 /\ nonces' = nonces \cup {issued + 1}
        /\ UNCHANGED <<pairs, memory, client, role>>
    BY <1>1, ZenonT(30) DEF storeChallenge
  <2>2. issued \in Nat /\ nonces \subseteq 1..issued
    BY ZenonT(30) DEF SignInInv, SessionTypeOK
  <2>3. issued' \in Nat /\ nonces' \subseteq 1..issued'
    BY <2>1, <2>2
  <2>4. ASSUME NEW c \in Clients PROVE RequestOK(client[c])'
    <3>1. RequestOK(client[c])
      BY ZenonT(30) DEF SignInInv, SessionTypeOK
    <3>2. 1..issued \subseteq 1..issued' /\ 0..issued \subseteq 0..issued'
      BY <2>1, <2>2
    <3> QED BY <2>1, <3>1, <3>2, ZenonT(30) DEF RequestOK
  <2>5. SessionTypeOK'
    BY <1>0, <2>1, <2>3, <2>4, ZenonT(30) DEF SignInInv, SessionTypeOK
  <2>6. \A p \in 1..Len(pairs') : pairs'[p].nonce <= issued' /\ pairs'[p].nonce \notin nonces'
    <3>1. ASSUME NEW p \in 1..Len(pairs)
          PROVE  pairs[p].nonce \in Nat /\ pairs[p].nonce <= issued /\ pairs[p].nonce \notin nonces
      <4>1. /\ pairs \in Seq(TokenPairs)
            /\ pairs[p].nonce <= issued /\ pairs[p].nonce \notin nonces
        BY ZenonT(30) DEF SignInInv, SessionTypeOK, ChallengesSpent
      <4>2. pairs[p] \in TokenPairs
        BY <4>1
      <4> QED BY <4>1, <4>2, ZenonT(30) DEF TokenPairs
    <3> QED BY <2>1, <2>2, <3>1
  <2>7. ASSUME NEW c \in Clients, client'[c].at = "issue"
        PROVE  client'[c].nonce \notin nonces' /\ OnlyHolder(c)'
    <3>1. client[c].nonce \in 0..issued /\ client[c].nonce \notin nonces /\ OnlyHolder(c)
      BY <2>1, <2>7, ZenonT(30) DEF SignInInv, SessionTypeOK, ChallengesSpent, RequestOK
    <3>2. client[c].nonce # issued + 1
      BY <2>2, <3>1
    <3> QED BY <2>1, <3>1, <3>2, ZenonT(30) DEF OnlyHolder
  <2>8. ChallengeUsedOnce'
    BY <2>1, ZenonT(30) DEF SignInInv, ChallengesSpent, ChallengeUsedOnce
  <2> QED
    BY <2>5, <2>6, <2>7, <2>8, ZenonT(30) DEF SignInInv, ChallengesSpent
<1>2. CASE challenge_expires
  BY <1>0, <1>2, RequestsStay, ZenonT(30) DEF challenge_expires, SignInInv, SessionTypeOK
<1>3. ASSUME NEW c \in Clients, NEW n \in Processes, NEW x \in nonces, getIssuedChallenge(c, n, x)
      PROVE  SignInInv'
  <2>1. RequestOK([at |-> "login", process |-> n, nonce |-> x])
    BY ZenonT(30) DEF RequestOK, SignInInv, SessionTypeOK
  <2> QED
    BY <1>0, <1>3, <2>1, RequestMoves DEF getIssuedChallenge, SignInInv, SessionTypeOK
<1>4. ASSUME NEW c \in Clients, consumeIssuedChallenge(c)
      PROVE  SignInInv'
  <2> DEFINE x == client[c].nonce
             new == [at |-> "issue", process |-> client[c].process, family |-> 0, nonce |-> x]
  <2>1. /\ client[c].at = "login" /\ nonces' = nonces \ {x}
        /\ UNCHANGED <<issued, pairs, memory, role>>
    BY <1>4, ZenonT(30) DEF consumeIssuedChallenge
  <2>2. client[c].process \in Processes /\ x \in 1..issued /\ role \in Roles
    BY <2>1, ZenonT(30) DEF SignInInv, SessionTypeOK, RequestOK
  <2>3. CASE x \in nonces /\ becomes(c, new)
    <3>1. RequestOK(new)
      BY <2>2 DEF RequestOK
    <3>2. /\ \A p \in 1..Len(pairs) : pairs[p].nonce # x
          /\ \A d \in Clients : client[d].at = "issue" => client[d].nonce # x
      BY <2>3, ZenonT(30) DEF SignInInv, ChallengesSpent
    <3>3. new.nonce = x /\ x \notin nonces' /\ nonces' \subseteq nonces
      BY <2>1
    <3> HIDE DEF new, x
    <3> QED
      BY <1>0, <2>1, <2>2, <2>3, <3>1, <3>2, <3>3, RequestMoves, ZenonT(30)
  <2>4. CASE becomes(c, Quiet)
    <3>1. RequestOK(Quiet) /\ Quiet.at # "issue"
      BY DEF RequestOK, Quiet
    <3> QED
      BY <1>0, <2>1, <2>2, <2>4, <3>1, RequestMoves, ZenonT(30)
  <2> QED
    BY <1>4, <2>3, <2>4, ZenonT(30) DEF consumeIssuedChallenge, deleteIfMatch
<1> QED
  BY <1>1, <1>2, <1>3, <1>4, ZenonT(30)

(* A pair is issued to the one login that holds its challenge, or to a refresh *)
(* that holds none.                                                           *)
LEMMA IssueKeeps ==
    ASSUME SignInInv, MemoryOK, NEW c \in Clients, generateTokenPair(c)
    PROVE  SignInInv' /\ Kept(client[c].process, {})
<1> DEFINE p == Len(pairs) + 1
           x == client[c].nonce
           new == [family |-> IF client[c].family = 0 THEN p ELSE client[c].family,
                   role |-> role, nonce |-> x]
<1>1. /\ client[c].at = "issue" /\ pairs' = Append(pairs, new) /\ becomes(c, Quiet)
      /\ UNCHANGED <<nonces, issued, role>>
      /\ \E table : memory' = [memory EXCEPT ![client[c].process].meta = table]
  BY ZenonT(30) DEF generateTokenPair
<1>2. /\ pairs \in Seq(TokenPairs) /\ issued \in Nat /\ role \in Roles
      /\ DOMAIN client = Clients /\ nonces \subseteq 1..issued
  BY ZenonT(30) DEF SignInInv, SessionTypeOK
<1>3. /\ client[c].process \in Processes /\ x \in 0..issued /\ client[c].family \in Nat
      /\ x \notin nonces /\ OnlyHolder(c)
  BY <1>1, ZenonT(30) DEF SignInInv, SessionTypeOK, RequestOK, ChallengesSpent
<1>4. new \in TokenPairs
  BY <1>2, <1>3 DEF TokenPairs
<1>5. new.nonce = x
  OBVIOUS
<1> HIDE DEF new, x
<1>6. /\ pairs' \in Seq(TokenPairs) /\ Len(pairs') = p /\ pairs'[p] = new
      /\ 1..Len(pairs') = 1..Len(pairs) \cup {p}
      /\ \A i \in 1..Len(pairs) : pairs'[i] = pairs[i]
  BY <1>1, <1>2, <1>4
<1>7. \A i \in 1..Len(pairs) : i # p
  BY <1>2
<1> HIDE DEF p
<1>8. Kept(client[c].process, {})
  BY <1>1, <1>3, MapsKept, ZenonT(30)
<1>9. /\ DOMAIN client' = Clients /\ client'[c].at = "idle"
      /\ \A d \in Clients : d # c => client'[d] = client[d]
  BY <1>1, <1>2, ZenonT(30) DEF becomes, Quiet
<1>10. SessionTypeOK'
  <2>1. ASSUME NEW d \in Clients PROVE RequestOK(client[d])'
    <3>1. CASE d = c
      BY <1>9, <3>1, ZenonT(30) DEF RequestOK
    <3>2. CASE d # c
      <4>1. RequestOK(client[d]) /\ client'[d] = client[d]
        BY <1>9, <3>2, ZenonT(30) DEF SignInInv, SessionTypeOK
      <4> QED BY <1>1, <1>6, <4>1, ZenonT(30) DEF RequestOK
    <3> QED BY <3>1, <3>2
  <2> QED
    BY <1>1, <1>2, <1>6, <1>8, <1>9, <2>1, ZenonT(30) DEF SessionTypeOK, Kept
<1>11. \A i \in 1..Len(pairs') : pairs'[i].nonce <= issued' /\ pairs'[i].nonce \notin nonces'
  <2>1. \A i \in 1..Len(pairs) : pairs[i].nonce <= issued /\ pairs[i].nonce \notin nonces
    BY ZenonT(30) DEF SignInInv, ChallengesSpent
  <2>2. x <= issued /\ x \notin nonces
    BY <1>3
  <2> QED BY <1>1, <1>5, <1>6, <2>1, <2>2, ZenonT(30)
<1>12. ASSUME NEW d \in Clients, client'[d].at = "issue"
       PROVE  client'[d].nonce \notin nonces' /\ OnlyHolder(d)'
  <2>1. d # c /\ client'[d] = client[d] /\ client[d].at = "issue"
    BY <1>9, <1>12
  <2>2. client[d].nonce \notin nonces /\ OnlyHolder(d)
    BY <2>1, ZenonT(30) DEF SignInInv, ChallengesSpent
  <2>3. client[d].nonce # 0 => client[d].nonce # x
    BY <1>1, <2>1, <2>2, ZenonT(30) DEF OnlyHolder, x
  <2>4. ASSUME client[d].nonce # 0, NEW i \in 1..Len(pairs') PROVE pairs'[i].nonce # client[d].nonce
    BY <1>5, <1>6, <2>2, <2>3, <2>4, ZenonT(30) DEF OnlyHolder
  <2>5. ASSUME client[d].nonce # 0, NEW e \in Clients, client'[e].at = "issue",
               client'[e].nonce = client[d].nonce
        PROVE  e = d
    <3>1. e # c /\ client'[e] = client[e]
      BY <1>9, <2>5
    <3> QED BY <2>2, <2>5, <3>1, ZenonT(30) DEF OnlyHolder
  <2> QED
    BY <1>1, <2>1, <2>2, <2>4, <2>5, ZenonT(30) DEF OnlyHolder
<1>13. ChallengeUsedOnce'
  <2> SUFFICES ASSUME NEW i \in 1..Len(pairs'), NEW j \in 1..Len(pairs'),
                      pairs'[i].nonce # 0, pairs'[i].nonce = pairs'[j].nonce
               PROVE  i = j
    BY ZenonT(30) DEF ChallengeUsedOnce
  <2>1. \A k \in 1..Len(pairs) : x # 0 => pairs[k].nonce # x
    BY <1>3, ZenonT(30) DEF OnlyHolder, x
  <2>2. CASE i \in 1..Len(pairs) /\ j \in 1..Len(pairs)
    BY <1>6, <2>2, ZenonT(30) DEF SignInInv, ChallengesSpent, ChallengeUsedOnce
  <2>3. CASE i = p \/ j = p
    BY <1>5, <1>6, <2>1, <2>3, ZenonT(30)
  <2> QED BY <1>6, <2>2, <2>3, ZenonT(30)
<1> QED
  BY <1>8, <1>10, <1>11, <1>12, <1>13, ZenonT(30) DEF SignInInv, ChallengesSpent

(* What lets a request in: the family was not in the process's own map, so    *)
(* that the process has not completed a revocation of it.                     *)
LEMMA AdmittedInTime ==
    ASSUME RevocationsStand, NEW n \in Processes, NEW p, requireJwtAuth(n, p), UNCHANGED role
    PROVE  RevokedStaysOut'
<1>1. pairs[p].family \notin memory[n].families
  <2>1. FALSE \in isSessionRevoked(n, p)
    BY ZenonT(30) DEF requireJwtAuth
  <2>2. PICK f \in isFamilyRevoked(n, pairs[p].family) : ~f
    BY <2>1, ZenonT(30) DEF isSessionRevoked
  <2>3. \/ f = revoked_here(n, pairs[p].family)
        \/ f = (revoked_here(n, pairs[p].family) \/ pairs[p].family \in redis.families)
    BY ZenonT(30) DEF isFamilyRevoked
  <2> QED
    BY <2>2, <2>3, ZenonT(30) DEF revoked_here
<1>2. <<n, pairs[p].family>> \notin outs
  BY <1>1, ZenonT(30) DEF RevocationsStand
<1>3. admitted'.role = role /\ (admitted'.late <=> <<n, pairs[p].family>> \in outs)
  BY ZenonT(30) DEF requireJwtAuth, capPayloadToCurrentRole
<1> QED
  BY <1>2, <1>3, ZenonT(30) DEF RevokedStaysOut

(* A step stands by the revocations if the maps grow, and by each new one if  *)
(* the map of its process has the family.                                     *)
LEMMA RevocationsKept ==
    ASSUME RevocationsStand, \A m \in Processes : memory[m].families \subseteq memory'[m].families,
           NEW n \in Processes, NEW families, families \subseteq memory'[n].families,
           outs' \subseteq outs \cup {<<n, f>> : f \in families}, RevokedStaysOut'
    PROVE  RevocationsStand'
<1> SUFFICES ASSUME NEW m \in Processes, NEW f, <<m, f>> \in outs' PROVE f \in memory'[m].families
  BY ZenonT(30) DEF RevocationsStand
<1>1. CASE <<m, f>> \in outs
  BY <1>1, ZenonT(30) DEF RevocationsStand
<1>2. ASSUME NEW g \in families, <<m, f>> = <<n, g>> PROVE f \in memory'[m].families
  BY <1>2, ZenonT(30)
<1> QED
  BY <1>1, <1>2, ZenonT(30)

(* A step of the requests that revokes nothing and lets nobody in. *)
LEMMA NothingRevoked ==
    ASSUME RevocationsStand, UNCHANGED <<outs, admitted, role>>,
           \A m \in Processes : memory[m].families \subseteq memory'[m].families
    PROVE  RevocationsStand'
<1> QED
  BY ZenonT(30) DEF RevocationsStand, RevokedStaysOut

(* The steps of sign-in and of issuing. *)
LEMMA SignInKeeps ==
    ASSUME SessionInv,
           \/ storeChallenge \/ challenge_expires
           \/ \E c \in Clients, n \in Processes, x \in nonces : getIssuedChallenge(c, n, x)
           \/ \E c \in Clients : consumeIssuedChallenge(c) \/ generateTokenPair(c)
    PROVE  SessionInv'
<1>1. SignInInv /\ MemoryOK /\ RevocationsStand
  BY ZenonT(30) DEF SessionInv, SignInInv, SessionTypeOK
<1>2. ASSUME NEW c \in Clients, generateTokenPair(c) PROVE SessionInv'
  <2>1. SignInInv' /\ Kept(client[c].process, {})
    BY <1>1, <1>2, IssueKeeps, ZenonT(30)
  <2>2. UNCHANGED <<outs, admitted, role>>
    BY <1>2, ZenonT(30) DEF generateTokenPair
  <2> QED
    BY <1>1, <2>1, <2>2, NothingRevoked, ZenonT(30) DEF SessionInv, Kept
<1>3. CASE \/ storeChallenge \/ challenge_expires
           \/ \E c \in Clients, n \in Processes, x \in nonces : getIssuedChallenge(c, n, x)
           \/ \E c \in Clients : consumeIssuedChallenge(c)
  <2>1. SignInInv'
    BY <1>1, <1>3, ChallengesKeep, ZenonT(30)
  <2>2. UNCHANGED <<outs, admitted, role, memory>>
    BY <1>3, ZenonT(30) DEF storeChallenge, challenge_expires, getIssuedChallenge, consumeIssuedChallenge
  <2> QED
    BY <1>1, <2>1, <2>2, NothingRevoked, ZenonT(30) DEF SessionInv
<1> QED
  BY <1>2, <1>3, ZenonT(30)

(* The steps of a request that change neither challenges nor pairs. *)
LEMMA HeldRequest ==
    ASSUME SessionInv, NEW c \in Clients, client[c].at \in {"rotate", "logout", "logout all"}
    PROVE  /\ client[c].process \in Processes
           /\ client[c].at # "logout all" => client[c].pair \in 1..Len(pairs)
  BY ZenonT(30) DEF SessionInv, SignInInv, SessionTypeOK, RequestOK

(* A request that has been answered asks for nothing.                         *)
LEMMA QuietRequest == RequestOK(Quiet) /\ Quiet.at # "issue"
  BY DEF RequestOK, Quiet

(* Refreshing: whatever the reads of Redis answer, a replay revokes the       *)
(* family, and a fresh token is marked before the new pair.                   *)
LEMMA RefreshKeeps ==
    ASSUME SessionInv, NEW c \in Clients,
           \/ \E n \in Processes, p \in 1..Len(pairs) : rotateRefreshToken(c, n, p)
           \/ replay_or_mark(c)
    PROVE  SessionInv'
<1>1. /\ SignInInv /\ MemoryOK /\ RevocationsStand /\ role \in Roles
      /\ pairs \in Seq(TokenPairs) /\ issued \in Nat /\ nonces \subseteq 1..issued
  BY ZenonT(30) DEF SessionInv, SignInInv, SessionTypeOK
<1>2. ASSUME NEW n \in Processes, NEW p \in 1..Len(pairs), rotateRefreshToken(c, n, p)
      PROVE  SessionInv'
  <2> DEFINE new == [at |-> "rotate", process |-> n, pair |-> p]
  <2>1. RequestOK(new) /\ new.at # "issue"
    BY DEF RequestOK
  <2>2. becomes(c, new) /\ UNCHANGED <<nonces, issued, pairs, memory, role, outs, admitted>>
    BY <1>2, ZenonT(30) DEF rotateRefreshToken
  <2> HIDE DEF new
  <2>3. MemoryOK'
    BY <1>1, <2>2, ZenonT(30) DEF MemoryOK
  <2>4. SignInInv'
    BY <1>1, <2>1, <2>2, <2>3, RequestMoves, ZenonT(30)
  <2> QED
    BY <1>1, <2>2, <2>4, NothingRevoked, ZenonT(30) DEF SessionInv
<1>3. ASSUME replay_or_mark(c)
      PROVE  SessionInv'
  <2> DEFINE n == client[c].process
             p == client[c].pair
             new == [at |-> "issue", process |-> n, family |-> pairs[p].family, nonce |-> 0]
  <2>1. /\ client[c].at = "rotate" /\ UNCHANGED <<nonces, issued, pairs, role, admitted>>
        /\ \/ becomes(c, Quiet) /\ revokeTokenFamily(n, pairs[p].family)
           \/ /\ becomes(c, new) /\ UNCHANGED outs
              /\ \E table : memory' = [memory EXCEPT ![n].meta = table]
    BY <1>3, ZenonT(30) DEF replay_or_mark
  <2>2. n \in Processes /\ p \in 1..Len(pairs)
    BY <2>1, HeldRequest, ZenonT(30)
  <2>3. pairs[p] \in TokenPairs
    BY <1>1, <2>2
  <2>4. RequestOK(new) /\ new.nonce = 0 /\ 0 \notin nonces
    BY <1>1, <2>2, <2>3 DEF RequestOK, TokenPairs
  <2>5. RevokedStaysOut'
    BY <1>1, <2>1, ZenonT(30) DEF RevocationsStand, RevokedStaysOut
  <2> HIDE DEF new, n, p
  <2>6. CASE becomes(c, Quiet) /\ revokeTokenFamily(n, pairs[p].family)
    <3>1. Kept(n, {pairs[p].family}) /\ outs' = outs \cup {<<n, pairs[p].family>>}
      BY <1>1, <2>2, <2>6, MapsKept, ZenonT(30) DEF revokeTokenFamily
    <3>2. SignInInv'
      BY <1>1, <2>1, <2>6, <3>1, QuietRequest, RequestMoves, ZenonT(30) DEF Kept
    <3>3. RevocationsStand'
      BY <1>1, <2>2, <2>5, <3>1, RevocationsKept, ZenonT(30) DEF Kept
    <3> QED BY <3>2, <3>3, ZenonT(30) DEF SessionInv
  <2>7. CASE /\ becomes(c, new) /\ UNCHANGED outs
             /\ \E table : memory' = [memory EXCEPT ![n].meta = table]
    <3>1. Kept(n, {})
      BY <1>1, <2>2, <2>7, MapsKept, ZenonT(30)
    <3>2. SignInInv'
      BY <1>1, <2>1, <2>4, <2>7, <3>1, RequestMoves, ZenonT(30) DEF Kept
    <3>3. RevocationsStand'
      BY <1>1, <2>1, <2>7, <3>1, NothingRevoked, ZenonT(30) DEF Kept
    <3> QED BY <3>2, <3>3, ZenonT(30) DEF SessionInv
  <2> QED BY <2>1, <2>6, <2>7, ZenonT(30)
<1> QED
  BY <1>2, <1>3, ZenonT(30)

(* Whom a process lets in, and what changes the role. *)
LEMMA ServingKeeps ==
    ASSUME SessionInv,
           \/ role_changes
           \/ \E n \in Processes, p \in 1..Len(pairs) : verify(n, p)
    PROVE  SessionInv'
<1>1. /\ SignInInv /\ MemoryOK /\ RevocationsStand /\ role \in Roles
  BY ZenonT(30) DEF SessionInv, SignInInv, SessionTypeOK
<1>2. UNCHANGED memory => MemoryOK'
  BY <1>1, ZenonT(30) DEF MemoryOK
<1>3. CASE role_changes
  <2>1. SignInInv'
    BY <1>1, <1>2, <1>3, RequestsStay, ZenonT(30) DEF role_changes
  <2>2. RevokedStaysOut'
    BY <1>3 DEF role_changes, RevokedStaysOut, Nobody
  <2> QED
    BY <1>1, <1>3, <2>1, <2>2, ZenonT(30) DEF role_changes, SessionInv, RevocationsStand
<1>4. ASSUME NEW n \in Processes, NEW p \in 1..Len(pairs), verify(n, p)
      PROVE  SessionInv'
  <2>1. SignInInv'
    BY <1>1, <1>2, <1>4, RequestsStay, ZenonT(30) DEF verify
  <2>2. RevokedStaysOut'
    BY <1>1, <1>4, AdmittedInTime, ZenonT(30) DEF verify
  <2> QED
    BY <1>1, <1>4, <2>1, <2>2, ZenonT(30) DEF verify, SessionInv, RevocationsStand
<1> QED
  BY <1>3, <1>4, ZenonT(30)

(* Logging out, of one family or of every family in the process's map. *)
LEMMA LogoutKeeps ==
    ASSUME SessionInv, NEW c \in Clients,
           \/ \E n \in Processes, p \in 1..Len(pairs) : logout(c, n, p) \/ logoutAllSessions(c, n, p)
           \/ logout_family(c)
           \/ invalidateAllFamilies(c)
    PROVE  SessionInv'
<1>1. /\ SignInInv /\ MemoryOK /\ RevocationsStand /\ role \in Roles
  BY ZenonT(30) DEF SessionInv, SignInInv, SessionTypeOK
<1>2. UNCHANGED memory => MemoryOK'
  BY <1>1, ZenonT(30) DEF MemoryOK
<1>3. ASSUME NEW n \in Processes, NEW p \in 1..Len(pairs), NEW new,
             RequestOK(new), new.at # "issue", becomes(c, new), requireJwtAuth(n, p),
             UNCHANGED <<nonces, issued, pairs, memory, role, outs>>
      PROVE  SessionInv'
  <2>1. SignInInv'
    BY <1>1, <1>2, <1>3, RequestMoves, ZenonT(30)
  <2>2. RevokedStaysOut'
    BY <1>1, <1>3, AdmittedInTime, ZenonT(30)
  <2> QED
    BY <1>1, <1>3, <2>1, <2>2, ZenonT(30) DEF SessionInv, RevocationsStand
<1>4. ASSUME NEW n \in Processes, NEW p \in 1..Len(pairs), logout(c, n, p)
      PROVE  SessionInv'
  <2> DEFINE new == [at |-> "logout", process |-> n, pair |-> p]
  <2>1. RequestOK(new) /\ new.at # "issue"
    BY DEF RequestOK
  <2>2. /\ becomes(c, new) /\ requireJwtAuth(n, p)
        /\ UNCHANGED <<nonces, issued, pairs, memory, role, outs>>
    BY <1>4, ZenonT(30) DEF logout
  <2> HIDE DEF new
  <2> QED BY <1>3, <2>1, <2>2, ZenonT(30)
<1>5. ASSUME NEW n \in Processes, NEW p \in 1..Len(pairs), logoutAllSessions(c, n, p)
      PROVE  SessionInv'
  <2> DEFINE new == [at |-> "logout all", process |-> n]
  <2>1. RequestOK(new) /\ new.at # "issue"
    BY DEF RequestOK
  <2>2. /\ becomes(c, new) /\ requireJwtAuth(n, p)
        /\ UNCHANGED <<nonces, issued, pairs, memory, role, outs>>
    BY <1>5, ZenonT(30) DEF logoutAllSessions
  <2> HIDE DEF new
  <2> QED BY <1>3, <2>1, <2>2, ZenonT(30)
<1>6. ASSUME UNCHANGED <<role, admitted>> PROVE RevokedStaysOut'
  BY <1>1, <1>6, ZenonT(30) DEF RevocationsStand, RevokedStaysOut
<1>7. CASE logout_family(c)
  <2> DEFINE n == client[c].process
             f == pairs[client[c].pair].family
  <2>1. /\ client[c].at = "logout" /\ revokeTokenFamily(n, f) /\ becomes(c, Quiet)
        /\ UNCHANGED <<nonces, issued, pairs, role, admitted>>
    BY <1>7, ZenonT(30) DEF logout_family
  <2>2. n \in Processes
    BY <2>1, HeldRequest, ZenonT(30)
  <2> HIDE DEF n, f
  <2>3. Kept(n, {f}) /\ outs' = outs \cup {<<n, f>>}
    BY <1>1, <2>1, <2>2, MapsKept, ZenonT(30) DEF revokeTokenFamily
  <2>4. SignInInv'
    BY <1>1, <2>1, <2>3, QuietRequest, RequestMoves, ZenonT(30) DEF Kept
  <2>5. RevocationsStand'
    BY <1>1, <1>6, <2>1, <2>2, <2>3, RevocationsKept, ZenonT(30) DEF Kept
  <2> QED BY <2>4, <2>5, ZenonT(30) DEF SessionInv
<1>8. CASE invalidateAllFamilies(c)
  <2> DEFINE n == client[c].process
  <2>1. /\ client[c].at = "logout all"
        /\ UNCHANGED <<nonces, issued, pairs, role, admitted>>
        /\ \/ becomes(c, Quiet) /\ UNCHANGED <<memory, outs>>
           \/ \E p : /\ memory' = [memory EXCEPT ![n].meta[p].revoked = TRUE,
                                                 ![n].families = @ \cup {pairs[p].family}]
                     /\ outs' = outs \cup {<<n, pairs[p].family>>}
                     /\ UNCHANGED client
    BY <1>8, ZenonT(30) DEF invalidateAllFamilies
  <2>2. n \in Processes
    BY <2>1, HeldRequest, ZenonT(30)
  <2> HIDE DEF n
  <2>3. CASE becomes(c, Quiet) /\ UNCHANGED <<memory, outs>>
    <3>1. SignInInv'
      BY <1>1, <1>2, <2>1, <2>3, QuietRequest, RequestMoves, ZenonT(30)
    <3> QED
      BY <1>1, <1>6, <2>1, <2>3, <3>1, ZenonT(30) DEF SessionInv, RevocationsStand
  <2>4. ASSUME NEW p,
               memory' = [memory EXCEPT ![n].meta[p].revoked = TRUE,
                                        ![n].families = @ \cup {pairs[p].family}],
               outs' = outs \cup {<<n, pairs[p].family>>}, UNCHANGED client
        PROVE  SessionInv'
    <3>1. Kept(n, {pairs[p].family})
      BY <1>1, <2>2, <2>4, MapsKept, ZenonT(30)
    <3>2. SignInInv'
      BY <1>1, <2>1, <2>4, <3>1, RequestsStay, ZenonT(30) DEF Kept
    <3>3. outs' \subseteq outs \cup {<<n, f>> : f \in {pairs[p].family}} /\ RevokedStaysOut'
      BY <1>6, <2>1, <2>4, ZenonT(30)
    <3>4. RevocationsStand'
      BY <1>1, <2>2, <3>1, <3>3, RevocationsKept, ZenonT(30) DEF Kept
    <3> QED BY <3>2, <3>4, ZenonT(30) DEF SessionInv
  <2> QED BY <2>1, <2>3, <2>4, ZenonT(30)
<1> QED
  BY <1>4, <1>5, <1>7, <1>8, ZenonT(30)

(* A fresh deployment has no challenge, no pair and no revocation.            *)
LEMMA SessionsStart == SessionInit => SessionInv
<1> SUFFICES ASSUME SessionInit PROVE SessionInv
  OBVIOUS
<1>1. issued \in Nat /\ nonces \subseteq 1..issued /\ pairs \in Seq(TokenPairs) /\ Len(pairs) = 0
  BY DEF SessionInit
<1>2. MemoryOK /\ role \in Roles
  BY DEF SessionInit, MemoryOK, Roles
<1>3. DOMAIN client = Clients /\ \A c \in Clients : client[c] = Quiet
  BY DEF SessionInit
<1>4. SessionTypeOK
  BY <1>1, <1>2, <1>3, QuietRequest, ZenonT(30) DEF SessionTypeOK
<1>5. ChallengesSpent
  <2>1. \A p \in 1..Len(pairs) : FALSE
    BY <1>1
  <2> QED BY <1>3, <2>1, QuietRequest, ZenonT(30) DEF ChallengesSpent, ChallengeUsedOnce
<1>6. RevocationsStand
  BY DEF SessionInit, RevocationsStand, RevokedStaysOut, Nobody
<1> QED
  BY <1>4, <1>5, <1>6 DEF SessionInv, SignInInv

(* Whatever the requests under way, the processes and the losses of Redis:    *)
(* requests hold the challenge, family and pair their step needs, a consumed  *)
(* challenge is gone from Redis and in one hand, and every revocation a       *)
(* process has completed is in that process's own map.                        *)
THEOREM SessionInvariant == SessionSpec => []SessionInv
<1>1. SessionInit => SessionInv
  BY SessionsStart
<1>2. SessionInv /\ [SessionNext]_session_vars => SessionInv'
  <2> SUFFICES ASSUME SessionInv, [SessionNext]_session_vars PROVE SessionInv'
    OBVIOUS
  <2>1. CASE SessionNext
    BY <2>1, SignInKeeps, RefreshKeeps, ServingKeeps, LogoutKeeps, ZenonT(30) DEF SessionNext
  <2>2. CASE UNCHANGED session_vars
    <3>1. SignInInv /\ RevocationsStand /\ MemoryOK /\ role \in Roles
      BY ZenonT(30) DEF SessionInv, SignInInv, SessionTypeOK
    <3>2. MemoryOK'
      BY <2>2, <3>1, ZenonT(30) DEF session_vars, MemoryOK
    <3>3. SignInInv'
      BY <2>2, <3>1, <3>2, RequestsStay, ZenonT(30) DEF session_vars
    <3>4. RevocationsStand'
      BY <2>2, <3>1, NothingRevoked, ZenonT(30) DEF session_vars
    <3> QED BY <3>3, <3>4, ZenonT(30) DEF SessionInv
  <2> QED BY <2>1, <2>2
<1> QED
  BY <1>1, <1>2, PTL DEF SessionSpec

(* The two promises of consumeIssuedChallenge and of requireJwtAuth, for any  *)
(* number of processes, requests, challenges and pairs.                       *)
THEOREM SessionsAreSound == SessionSpec => []SessionsHold
<1>1. SessionInv => SessionsHold
  BY DEF SessionInv, SignInInv, ChallengesSpent, RevocationsStand, SessionsHold
<1> QED
  BY <1>1, SessionInvariant, PTL

-----------------------------------------------------------------------------
(* The SDK: useAsync shows the borrower it was last run for, whatever answers *)
(* are still to come.                                                         *)

Borrowers == Accounts \cup {NoAccount}
AsyncRuns == [borrower : Borrowers, at : {"sent", "done"}, sent : Nat, cancelled : BOOLEAN]

SdkTypeOK ==
    /\ extension \in Accounts /\ cachedAddress \in Borrowers /\ session \in Borrowers
    /\ DOMAIN task = {"kind", "at", "address"} /\ task.address \in Borrowers
    /\ deps.borrower \in Borrowers /\ runs \in Seq(AsyncRuns)
    /\ view \in [data : Borrowers, error : BOOLEAN, loading : BOOLEAN]

(* A run that was not cancelled is of the borrower the effect last ran for,   *)
(* and only such a run ends the loading.                                      *)
RunsCurrent ==
    /\ \A i \in DOMAIN runs : heeded(runs[i]) => runs[i].borrower = deps.borrower
    /\ deps.borrower # NoAccount /\ ~view.loading /\ ~view.error => view.data = deps.borrower

(* Each POST of the repayment is sent at most once. *)
RepayInv ==
    /\ DOMAIN repay = {"at", "built", "submitted"}
    /\ repay.at \in {"none", "build", "simulate", "sign", "submit"}
    /\ repay.built \in 0..1 /\ repay.submitted \in 0..1
    /\ repay.at = "build" => repay.built = 1
    /\ repay.at = "submit" => repay.submitted = 1

SdkInv == SdkTypeOK /\ RunsCurrent /\ RepayInv

(* The wallet's steps leave the list and the repayment alone. *)
LEMMA WalletTyped ==
    ASSUME SdkTypeOK, UNCHANGED asyncState,
           \/ \E k \in {"connect", "login", "logout"} : start(k)
           \/ connects \/ logs_in \/ task_fails
           \/ \E ok \in BOOLEAN : logs_out(ok)
           \/ \E a \in Accounts : account_switched(a)
    PROVE  SdkTypeOK'
<1> USE DEF SdkTypeOK, asyncState, Borrowers
<1>1. ASSUME NEW k, start(k) PROVE SdkTypeOK'
  BY <1>1 DEF start
<1>2. CASE connects
  <2>1. PICK a \in Borrowers :
              /\ cachedAddress' = IF ADAPTER = "albedo" THEN a ELSE cachedAddress
              /\ \/ task' = [task EXCEPT !.at = "sign", !.address = a]
                 \/ task' = NoTask
    BY <1>2, ZenonT(30) DEF connects, getAddress
  <2>2. cachedAddress' \in Borrowers
    BY <2>1
  <2>3. DOMAIN task' = {"kind", "at", "address"} /\ task'.address \in Borrowers
    <3>1. CASE task' = [task EXCEPT !.at = "sign", !.address = a]
      BY <3>1, ZenonT(30)
    <3>2. CASE task' = NoTask
      BY <3>2 DEF NoTask
    <3> QED BY <2>1, <3>1, <3>2
  <2> QED BY <1>2, <2>2, <2>3 DEF connects
<1>3. CASE logs_in
  BY <1>3 DEF logs_in, NoTask
<1>4. CASE task_fails
  BY <1>4 DEF task_fails, NoTask, disconnected_cache
<1>5. ASSUME NEW ok, logs_out(ok) PROVE SdkTypeOK'
  BY <1>5 DEF logs_out, NoTask, disconnected_cache
<1>6. ASSUME NEW a \in Accounts, account_switched(a) PROVE SdkTypeOK'
  BY <1>6 DEF account_switched
<1> QED
  BY <1>1, <1>2, <1>3, <1>4, <1>5, <1>6, ZenonT(30)

(* An answer, a retry or a failure of run i. *)
LEMMA RunsKept ==
    ASSUME SdkTypeOK, RunsCurrent, NEW i \in DOMAIN runs,
           list_answered(i) \/ list_retried(i) \/ list_fails(i)
    PROVE  SdkTypeOK' /\ RunsCurrent'
<1>1. /\ runs \in Seq(AsyncRuns) /\ runs[i] \in AsyncRuns /\ deps.borrower \in Borrowers
      /\ view \in [data : Borrowers, error : BOOLEAN, loading : BOOLEAN]
  BY DEF SdkTypeOK
<1>2. UNCHANGED <<extension, cachedAddress, session, task, address, deps>>
  BY ZenonT(30) DEF list_answered, list_retried, list_fails, walletState
<1>3. \E r \in AsyncRuns : /\ r.borrower = runs[i].borrower /\ r.cancelled = runs[i].cancelled
                           /\ runs' = [runs EXCEPT ![i] = r]
  <2>1. CASE runs' = [runs EXCEPT ![i].at = "done"]
    <3> DEFINE r == [runs[i] EXCEPT !.at = "done"]
    <3>1. r \in AsyncRuns /\ r.borrower = runs[i].borrower /\ r.cancelled = runs[i].cancelled
      BY <1>1 DEF AsyncRuns
    <3>2. runs' = [runs EXCEPT ![i] = r]
      BY <2>1
    <3> QED BY <3>1, <3>2, ZenonT(30)
  <2>2. CASE runs' = [runs EXCEPT ![i].sent = @ + 1]
    <3> DEFINE r == [runs[i] EXCEPT !.sent = @ + 1]
    <3>1. r \in AsyncRuns /\ r.borrower = runs[i].borrower /\ r.cancelled = runs[i].cancelled
      BY <1>1 DEF AsyncRuns
    <3>2. runs' = [runs EXCEPT ![i] = r]
      BY <2>2
    <3> QED BY <3>1, <3>2, ZenonT(30)
  <2> QED BY <2>1, <2>2, ZenonT(30) DEF list_answered, list_retried, list_fails
<1>4. PICK r \in AsyncRuns : /\ r.borrower = runs[i].borrower /\ r.cancelled = runs[i].cancelled
                             /\ runs' = [runs EXCEPT ![i] = r]
  BY <1>3, ZenonT(30)
<1>5. runs' \in Seq(AsyncRuns) /\ DOMAIN runs' = DOMAIN runs
  BY <1>1, <1>4
<1>6. \A k \in DOMAIN runs' : heeded(runs'[k]) => runs'[k].borrower = deps'.borrower
  BY <1>2, <1>4, ZenonT(30) DEF RunsCurrent, heeded
<1>7. \/ view' = view
      \/ heeded(runs[i]) /\ view' = [view EXCEPT !.data = runs[i].borrower, !.loading = FALSE]
      \/ view' = [view EXCEPT !.error = TRUE, !.loading = FALSE]
  BY ZenonT(30) DEF list_answered, list_retried, list_fails
<1>8. /\ view' \in [data : Borrowers, error : BOOLEAN, loading : BOOLEAN]
      /\ deps.borrower # NoAccount /\ ~view'.loading /\ ~view'.error => view'.data = deps.borrower
  <2>1. CASE view' = view
    BY <1>1, <2>1, ZenonT(30) DEF RunsCurrent
  <2>2. CASE heeded(runs[i]) /\ view' = [view EXCEPT !.data = runs[i].borrower, !.loading = FALSE]
    <3>1. runs[i].borrower = deps.borrower
      BY <2>2, ZenonT(30) DEF RunsCurrent
    <3> QED BY <1>1, <2>2, <3>1, ZenonT(30)
  <2>3. CASE view' = [view EXCEPT !.error = TRUE, !.loading = FALSE]
    BY <1>1, <2>3, ZenonT(30)
  <2> QED BY <1>7, <2>1, <2>2, <2>3
<1> QED
  BY <1>2, <1>5, <1>6, <1>8, ZenonT(30) DEF SdkTypeOK, RunsCurrent

(* The effect cancels the runs before it and shows the loading of its own. *)
LEMMA EffectKeeps ==
    ASSUME SdkTypeOK, RunsCurrent, effect_runs
    PROVE  SdkTypeOK' /\ RunsCurrent'
<1> DEFINE stopped == [i \in DOMAIN runs |-> [runs[i] EXCEPT !.cancelled = TRUE]]
           new == [borrower |-> session, at |-> "sent", sent |-> 1, cancelled |-> FALSE]
<1>1. /\ runs \in Seq(AsyncRuns) /\ session \in Borrowers
      /\ view \in [data : Borrowers, error : BOOLEAN, loading : BOOLEAN]
  BY ZenonT(30) DEF SdkTypeOK
<1>2. /\ UNCHANGED <<extension, cachedAddress, session, task, address>> /\ deps' = current
      /\ \/ session = NoAccount /\ runs' = stopped /\ UNCHANGED view
         \/ /\ session # NoAccount /\ runs' = Append(stopped, new)
            /\ view' = [view EXCEPT !.loading = TRUE, !.error = FALSE]
  BY ZenonT(30) DEF effect_runs, walletState
<1>3. deps'.borrower = session
  BY <1>2 DEF current
<1>4. new \in AsyncRuns /\ new.borrower = session
  BY <1>1 DEF AsyncRuns
<1>5. /\ stopped \in Seq(AsyncRuns) /\ DOMAIN stopped = 1..Len(stopped)
      /\ \A i \in DOMAIN stopped : stopped[i].cancelled
  <2>0. \A i \in DOMAIN runs : runs[i] \in AsyncRuns
    BY <1>1
  <2>1. ASSUME NEW r \in AsyncRuns
        PROVE  [r EXCEPT !.cancelled = TRUE] \in AsyncRuns /\ [r EXCEPT !.cancelled = TRUE].cancelled
    <3>1. [r EXCEPT !.cancelled = TRUE] \in AsyncRuns
      BY ZenonT(30) DEF AsyncRuns
    <3>2. [r EXCEPT !.cancelled = TRUE].cancelled
      BY ZenonT(30) DEF AsyncRuns
    <3> QED BY <3>1, <3>2
  <2>2. \A i \in DOMAIN runs : stopped[i] \in AsyncRuns /\ stopped[i].cancelled
    BY <2>0, <2>1, ZenonT(30)
  <2>3. DOMAIN runs = 1..Len(runs) /\ Len(runs) \in Nat
    BY <1>1
  <2>4. stopped \in Seq(AsyncRuns)
    BY <2>2, <2>3
  <2> QED BY <2>2, <2>4
<1> HIDE DEF stopped, new
<1>6. /\ runs' \in Seq(AsyncRuns)
      /\ \A k \in DOMAIN runs' : runs'[k].cancelled \/ runs'[k] = new
  <2>1. CASE runs' = stopped
    BY <1>5, <2>1, ZenonT(30)
  <2>2. CASE runs' = Append(stopped, new)
    BY <1>4, <1>5, <2>2
  <2> QED BY <1>2, <2>1, <2>2
<1>7. \A k \in DOMAIN runs' : heeded(runs'[k]) => runs'[k].borrower = deps'.borrower
  BY <1>3, <1>4, <1>6, ZenonT(30) DEF heeded
<1>8. /\ view' \in [data : Borrowers, error : BOOLEAN, loading : BOOLEAN]
      /\ session = NoAccount \/ view'.loading
  BY <1>1, <1>2, ZenonT(30)
<1> QED
  BY <1>1, <1>2, <1>3, <1>6, <1>7, <1>8, ZenonT(30) DEF SdkTypeOK, RunsCurrent

(* The repayment's own steps. *)
LEMMA RepayKept ==
    ASSUME RepayInv, repay_starts \/ repay_proceeds \/ repay_retried \/ repay_fails
    PROVE  RepayInv' /\ UNCHANGED <<walletState, deps, runs, view>>
<1> USE DEF RepayInv
<1>1. CASE repay_starts
  BY <1>1 DEF repay_starts, NoRepay, asyncState
<1>2. CASE repay_proceeds
  <2>1. /\ repay' = [repay EXCEPT !.at = next_step[@],
                                  !.submitted = IF repay.at = "sign" THEN 1 ELSE @]
        /\ UNCHANGED <<walletState, deps, runs, view>> /\ repay.at # "none"
    BY <1>2, ZenonT(30) DEF repay_proceeds
  <2>2. /\ next_step[repay.at] \in {"none", "simulate", "sign", "submit"}
        /\ next_step[repay.at] = "submit" => repay.at = "sign"
    BY <2>1 DEF next_step
  <2> QED BY <2>1, <2>2
<1>3. CASE repay_retried
  BY <1>3 DEF repay_retried, may_retry, attempts_of, asyncState
<1>4. CASE repay_fails
  BY <1>4 DEF repay_fails, asyncState
<1> QED
  BY <1>1, <1>2, <1>3, <1>4

(* The first render has run for no session yet.                               *)
LEMMA SdkStarts == SdkInit => SdkInv
<1> SUFFICES ASSUME SdkInit PROVE SdkInv
  OBVIOUS
<1>1. runs = <<>> /\ runs \in Seq(AsyncRuns) /\ \A i \in DOMAIN runs : FALSE
  BY DEF SdkInit
<1>2. SdkTypeOK
  BY <1>1 DEF SdkInit, SdkTypeOK, Borrowers, NoTask, NoView
<1>3. RunsCurrent
  BY <1>1 DEF SdkInit, RunsCurrent
<1>4. RepayInv
  BY DEF SdkInit, RepayInv, NoRepay
<1> QED
  BY <1>2, <1>3, <1>4 DEF SdkInv

(* Whatever the user, the wallet and the network do, and however often a list *)
(* is asked for or retried: runs that were not cancelled are of the present   *)
(* borrower, and no POST of a repayment was repeated.                         *)
THEOREM SdkInvariant == SdkSpec => []SdkInv
<1>1. SdkInit => SdkInv
  BY SdkStarts
<1>2. SdkInv /\ [SdkNext]_sdkVars => SdkInv'
  <2> SUFFICES ASSUME SdkInv, [SdkNext]_sdkVars PROVE SdkInv'
    OBVIOUS
  <2>1. SdkTypeOK /\ RunsCurrent /\ RepayInv
    BY DEF SdkInv
  <2>2. ASSUME UNCHANGED <<deps, runs, view>> PROVE RunsCurrent'
    BY <2>1, <2>2, ZenonT(30) DEF RunsCurrent, heeded
  <2>3. ASSUME UNCHANGED repay PROVE RepayInv'
    BY <2>1, <2>3, ZenonT(30) DEF RepayInv
  <2>4. ASSUME UNCHANGED <<walletState, deps, runs, view>> PROVE SdkTypeOK'
    BY <2>1, <2>4, ZenonT(30) DEF SdkTypeOK, walletState
  <2>5. ASSUME \/ \E k \in {"connect", "login", "logout"} : start(k)
               \/ connects \/ logs_in \/ task_fails
               \/ \E ok \in BOOLEAN : logs_out(ok)
               \/ \E a \in Accounts : account_switched(a)
        PROVE  SdkInv'
    <3>1. UNCHANGED <<asyncState, repay>>
      BY <2>5, ZenonT(30) DEF start, connects, logs_in, task_fails, logs_out, account_switched
    <3>2. SdkTypeOK'
      BY <2>1, <2>5, <3>1, WalletTyped, ZenonT(30)
    <3> QED
      BY <2>2, <2>3, <3>1, <3>2, ZenonT(30) DEF SdkInv, asyncState
  <2>6. CASE effect_runs
    <3>1. UNCHANGED repay
      BY <2>6, ZenonT(30) DEF effect_runs
    <3> QED BY <2>1, <2>3, <2>6, <3>1, EffectKeeps, ZenonT(30) DEF SdkInv
  <2>7. ASSUME NEW i \in DOMAIN runs, list_answered(i) \/ list_retried(i) \/ list_fails(i)
        PROVE  SdkInv'
    <3>1. UNCHANGED repay
      BY <2>7, ZenonT(30) DEF list_answered, list_retried, list_fails
    <3> QED BY <2>1, <2>3, <2>7, <3>1, RunsKept, ZenonT(30) DEF SdkInv
  <2>8. CASE repay_starts \/ repay_proceeds \/ repay_retried \/ repay_fails
    BY <2>1, <2>2, <2>4, <2>8, RepayKept, ZenonT(30) DEF SdkInv
  <2>9. CASE UNCHANGED sdkVars
    BY <2>2, <2>3, <2>4, <2>9, ZenonT(30) DEF sdkVars, walletState, SdkInv
  <2> QED
    BY <2>5, <2>6, <2>7, <2>8, <2>9, ZenonT(30) DEF SdkNext
<1> QED
  BY <1>1, <1>2, PTL DEF SdkSpec

(* useLoans without loading or an error shows the loans of the session it is  *)
(* shown for, and neither POST of repay is sent a second time, for every      *)
(* number of accounts, runs and retries.                                      *)
THEOREM LatestIsShown == SdkSpec => []ShownAndSentOnce
<1>1. SdkInv => LatestShown
  BY DEF SdkInv, RunsCurrent, LatestShown, current
<1>2. SdkInv => WritesSentOnce
  BY DEF SdkInv, RepayInv, WritesSentOnce
<1>3. SdkInv => ShownAndSentOnce
  BY <1>1, <1>2 DEF ShownAndSentOnce
<1> QED
  BY <1>3, SdkInvariant, PTL

-----------------------------------------------------------------------------
(* The web app's wallet: what is in localStorage never runs ahead of the      *)
(* store, so that no page load connects what was not.                         *)

Statuses == {"disconnected", "connecting", "connected", "error"}
Wallets == [status : Statuses, address : FreighterAccounts \cup {NoAddress}, auto : BOOLEAN]

WalletInv ==
    /\ wallet \in Wallets /\ stored \in Wallets
    /\ stored.address # NoAddress => stored = wallet
    /\ freighter.account \in FreighterAccounts \cup {NoAddress}
    /\ DOMAIN freighter = {"account", "supported"}
    /\ DOMAIN sync = {"at", "interactive", "address", "supported"}
    /\ sync.address \in FreighterAccounts \cup {NoAddress}

(* The three ways a wallet record is written, and what each sets.             *)
LEMMA WalletRecords ==
    /\ Disconnected \in Wallets /\ Disconnected.address = NoAddress
    /\ \A w \in Wallets, s \in Statuses :
           with_status(w, s) \in Wallets /\ with_status(w, s).address = w.address /\ with_status(w, s).status = s
    /\ \A w \in Wallets, a \in FreighterAccounts \cup {NoAddress} :
           setConnected(w, a) \in Wallets /\ setConnected(w, a).address = a
<1>1. Disconnected \in Wallets /\ Disconnected.address = NoAddress
  BY DEF Wallets, Statuses, Disconnected
<1>2. ASSUME NEW w \in Wallets, NEW s \in Statuses
      PROVE  with_status(w, s) \in Wallets /\ with_status(w, s).address = w.address /\ with_status(w, s).status = s
  BY DEF Wallets, Statuses, with_status
<1>3. ASSUME NEW w \in Wallets, NEW a \in FreighterAccounts \cup {NoAddress}
      PROVE  setConnected(w, a) \in Wallets /\ setConnected(w, a).address = a
  BY ZenonT(30) DEF Wallets, Statuses, setConnected
<1> QED
  BY <1>1, <1>2, <1>3, ZenonT(30)

(* A step of the store alone writes both copies. *)
LEMMA WalletKept ==
    ASSUME WalletInv, [WalletNext]_walletVars
    PROVE  WalletInv'
<1> DEFINE Addresses == FreighterAccounts \cup {NoAddress}
           Syncs(s) == /\ DOMAIN s = {"at", "interactive", "address", "supported"}
                       /\ s.address \in Addresses
           Extension(f) == f.account \in Addresses /\ DOMAIN f = {"account", "supported"}
           Stores == /\ wallet' \in Wallets /\ stored' \in Wallets
                     /\ stored'.address # NoAddress => stored' = wallet'
<1>1. WalletInv /\ Syncs(sync) /\ Extension(freighter) /\ wallet \in Wallets
  BY DEF WalletInv
<1>2. ASSUME Stores, Syncs(sync'), Extension(freighter') PROVE WalletInv'
  BY <1>2, ZenonT(30) DEF WalletInv
<1>3. \A w \in Wallets : set(w) => Stores
  BY ZenonT(30) DEF set
<1>4. UNCHANGED <<wallet, stored>> => Stores
  BY <1>1, ZenonT(30) DEF WalletInv
<1>5. Syncs(NoSync) /\ Syncs(begin(TRUE)) /\ Syncs(begin(FALSE))
  BY DEF NoSync, begin
<1>6. \A b \in BOOLEAN : syncWallet(b) => Syncs(sync')
  BY <1>1, <1>5, ZenonT(30) DEF syncWallet
<1>7. refreshWallet \/ UNCHANGED sync => Syncs(sync')
  BY <1>1, <1>6, ZenonT(30) DEF refreshWallet
<1>8. UNCHANGED freighter => Extension(freighter')
  BY <1>1, ZenonT(30)
<1>9. ASSUME NEW s, Syncs(s), mark_connected(s) PROVE Stores /\ Syncs(sync')
  <2>1. setConnected(wallet, s.address) \in Wallets
    BY <1>1, <1>9, WalletRecords, ZenonT(30)
  <2>2. with_status(setConnected(wallet, s.address), "error") \in Wallets
    BY <2>1, WalletRecords, ZenonT(30) DEF Statuses
  <2>3. Syncs([s EXCEPT !.at = "balances"])
    BY <1>9
  <2> QED BY <1>3, <1>9, <2>1, <2>2, <2>3, ZenonT(30) DEF mark_connected
<1> HIDE DEF Syncs, Extension, Stores
<1> USE <1>2, <1>3, <1>4, <1>5, <1>6, <1>7, <1>8
<1>10. \A s \in Statuses : with_status(wallet, s) \in Wallets /\ with_status(Disconnected, s) \in Wallets
  BY <1>1, WalletRecords, ZenonT(30)
<1>11. Disconnected \in Wallets
  BY WalletRecords, ZenonT(30)
<1>12. CASE connectWallet
  BY <1>10, <1>12, ZenonT(30) DEF connectWallet, Statuses
<1>13. CASE mount_effect
  BY <1>13, ZenonT(30) DEF mount_effect
<1>14. CASE watchNetwork
  <2>1. Extension(freighter')
    BY <1>1, <1>14 DEF watchNetwork, Extension
  <2> QED BY <1>14, <2>1, ZenonT(30) DEF watchNetwork
<1>15. ASSUME NEW a \in Addresses, watchAddress(a) PROVE WalletInv'
  <2>1. Extension(freighter')
    BY <1>1, <1>15 DEF watchAddress, Extension
  <2> QED BY <1>11, <1>15, <2>1, ZenonT(30) DEF watchAddress
<1>16. CASE sync_fails
  BY <1>10, <1>16, ZenonT(30) DEF sync_fails, Statuses
<1>17. CASE get_address
  <2>1. Syncs([sync EXCEPT !.at = "network", !.address = freighter.account])
    BY <1>1 DEF Syncs, Extension
  <2> QED BY <1>11, <1>17, <2>1, ZenonT(30) DEF get_address
<1>18. CASE get_network
  <2> DEFINE s == [sync EXCEPT !.supported = freighter.supported]
  <2>1. Syncs(s) /\ Syncs([s EXCEPT !.at = "signin"])
    BY <1>1 DEF Syncs
  <2>2. /\ mark_connected(s) \/ (sync' = [s EXCEPT !.at = "signin"] /\ UNCHANGED <<wallet, stored>>)
        /\ UNCHANGED freighter
    BY <1>18, ZenonT(30) DEF get_network, after_network
  <2> HIDE DEF s
  <2> QED BY <1>9, <2>1, <2>2, ZenonT(30)
<1>19. CASE signIn
  BY <1>1, <1>9, <1>19, ZenonT(30) DEF signIn
<1>20. CASE refreshBalances
  BY <1>10, <1>20, ZenonT(30) DEF refreshBalances, Statuses
<1>21. CASE disconnectWallet
  BY <1>1, <1>11, <1>21, ZenonT(30) DEF disconnectWallet
<1>22. CASE clear_storage
  <2>1. Stores
    BY <1>1, <1>22, WalletRecords, ZenonT(30) DEF clear_storage, Stores
  <2> QED BY <1>1, <1>22, <2>1, ZenonT(30) DEF clear_storage
<1>23. CASE clean_reload \/ page_reload
  <2>1. Stores
    BY <1>1, <1>23, ZenonT(30) DEF clean_reload, page_reload, reload, Stores, WalletInv
  <2> QED BY <1>23, <2>1, ZenonT(30) DEF clean_reload, page_reload, reload
<1>24. CASE session_expires
  BY <1>1, <1>24, ZenonT(30) DEF session_expires
<1>25. CASE logoutUser
  BY <1>11, <1>25, ZenonT(30) DEF logoutUser, set
<1>26. CASE UNCHANGED walletVars
  BY <1>1, <1>26, ZenonT(30) DEF walletVars
<1> QED
  BY <1>12, <1>13, <1>14, <1>15, <1>16, <1>17, <1>18, <1>19, <1>20, <1>21, <1>22, <1>23, <1>24,
     <1>25, <1>26, ZenonT(30) DEF WalletNext

(* A page that was never connected to a wallet.                               *)
LEMMA WalletStarts == WalletInit => WalletInv
  BY WalletRecords DEF WalletInit, WalletInv, Disconnected, NoSync

(* syncWallet marks a connection the user asked for only with the session of  *)
(* that very account, whatever account and network Freighter switches to      *)
(* meanwhile, for every set of accounts.                                      *)
THEOREM SignInComesFirst == WalletSpec => SignedInBeforeConnected
<1>1. WalletInit => WalletInv
  BY WalletStarts
<1>2. WalletInv /\ [WalletNext]_walletVars => WalletInv'
  BY WalletKept
<1>3. WalletInv /\ [WalletNext]_walletVars => [SignedInFirst]_walletVars
  <2> SUFFICES ASSUME WalletInv, WalletNext, wallet'.status = "connected", wallet.address = NoAddress,
                      wallet'.address # NoAddress, sync.interactive
               PROVE  cookie' = wallet'.address
    BY ZenonT(30) DEF SignedInFirst
  <2>1. wallet \in Wallets /\ stored.address = NoAddress
    BY ZenonT(30) DEF WalletInv
  <2>2. \A s \in Statuses : /\ ~set(with_status(wallet, s)) /\ ~set(with_status(Disconnected, s))
                            /\ ~set(Disconnected)
    <3> SUFFICES ASSUME NEW s \in Statuses
                 PROVE  /\ with_status(wallet, s).address = NoAddress
                        /\ with_status(Disconnected, s).address = NoAddress
                        /\ Disconnected.address = NoAddress
      BY ZenonT(30) DEF set
    <3> QED BY <2>1, WalletRecords, ZenonT(30)
  <2>3. ~UNCHANGED wallet /\ wallet' # Disconnected /\ wallet' # stored
    BY <2>1, WalletRecords, ZenonT(30)
  <2>4. ASSUME get_network PROVE FALSE
    <3> DEFINE s == [sync EXCEPT !.supported = freighter.supported]
    <3>1. s.interactive
      BY DEF WalletInv
    <3>2. ~s.supported /\ mark_connected(s)
      BY <2>3, <2>4, <3>1, ZenonT(30) DEF get_network, after_network
    <3>3. wallet'.status = "error"
      <4>1. setConnected(wallet, s.address) \in Wallets
        BY <2>1, WalletRecords DEF WalletInv
      <4> HIDE DEF s
      <4> QED BY <3>2, <4>1, WalletRecords, ZenonT(30) DEF mark_connected, set, Statuses
    <3> QED BY <3>3
  <2>5. CASE signIn
    <3>1. wallet'.address = sync.address
      <4>1. sync.address \in FreighterAccounts \cup {NoAddress}
        BY ZenonT(30) DEF WalletInv
      <4> QED BY <2>1, <2>5, <4>1, WalletRecords, ZenonT(30) DEF signIn, mark_connected, set, Statuses
    <3> QED BY <2>5, <3>1, ZenonT(30) DEF signIn
  <2>6. ~connectWallet /\ ~sync_fails /\ ~refreshBalances
    BY <2>2, <2>3, ZenonT(30) DEF connectWallet, sync_fails, refreshBalances, Statuses
  <2>7. ~mount_effect /\ ~watchNetwork /\ ~get_address /\ ~disconnectWallet /\ ~clear_storage
    BY <2>3, ZenonT(30) DEF mount_effect, watchNetwork, get_address, disconnectWallet, clear_storage, set
  <2>8. ~clean_reload /\ ~page_reload /\ ~session_expires /\ ~logoutUser
    BY <2>3, ZenonT(30) DEF clean_reload, page_reload, reload, session_expires, logoutUser
  <2>9. \A a : ~watchAddress(a)
    BY <2>3, ZenonT(30) DEF watchAddress, set
  <2> QED
    BY <2>4, <2>5, <2>6, <2>7, <2>8, <2>9, ZenonT(30) DEF WalletNext
<1> QED
  BY <1>1, <1>2, <1>3, PTL DEF WalletSpec, SignedInBeforeConnected
===============================================================================
