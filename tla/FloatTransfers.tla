--------------------------- MODULE FloatTransfers ---------------------------
(* The agent-to-agent float transfers of the backend: a transfer is asked     *)
(* for, approved by a second party and handed to the vault as a transaction,  *)
(* or rejected.  Every request awaits the database between its reads and its  *)
(* writes, and none of them takes a lock or opens a transaction.              *)
EXTENDS Integers, FiniteSets, FiniteSetsExt

CONSTANTS Desks,              \* requests in flight at once
          Agents, Admins,     \* who signs in as an agent, who as an administrator
          Pairs,              \* bound: the <<from, to>> pairs that are asked for
          MAX_TRANSFERS,      \* bound: rows of agent_float_transfers
          MAX_AMOUNT,         \* bound: amounts asked for
          DEFAULT_DAILY_LIMIT, DEFAULT_WEEKLY_LIMIT,
          Limits              \* the [daily, weekly] limits an administrator sets

VARIABLES transfers,   \* agent_float_transfers: id -> row
          approvers,   \* agent_float_transfer_approvals: id -> approver addresses
          pair_limits, \* agent_float_transfer_limits: pair -> limits, where set
          desk,        \* what each request in flight has read
          confirmed    \* transfers whose creator was answered 201

float_vars == <<transfers, approvers, pair_limits, desk, confirmed>>

People == Agents \cup Admins
Idle == [at |-> "idle"]

FloatInit ==
    /\ transfers = <<>>
    /\ approvers = <<>>
    /\ pair_limits = <<>>
    /\ desk = [d \in Desks |-> Idle]
    /\ confirmed = {}

Defaults == [daily |-> DEFAULT_DAILY_LIMIT, weekly |-> DEFAULT_WEEKLY_LIMIT]

(* A failed read is logged and answered with the defaults. *)
getPairLimits(pair) ==
    {Defaults} \cup {pair_limits[p] : p \in {pair} \cap DOMAIN pair_limits}

(* What a row counts for: everything that is not rejected or failed.  The age *)
(* of a row is 0, 1 or 7: today, older than a day, older than a week.         *)
counted(pair, days) ==
    LET rows == {t \in DOMAIN transfers :
                     /\ transfers[t].pair = pair
                     /\ transfers[t].status \in {"PENDING_APPROVAL", "COMPLETED"}
                     /\ transfers[t].age < days}
    IN  MapThenSumSet(LAMBDA t : transfers[t].amount, rows)

checkLimits(pair, amount, limits) ==
    /\ counted(pair, 1) + amount <= limits.daily
    /\ counted(pair, 7) + amount <= limits.weekly

(* initiateTransfer up to the INSERT of the transfer. *)
initiateTransfer(d, by, pair, amount) ==
    /\ desk[d] = Idle
    /\ pair[1] # pair[2]
    /\ by = pair[1] \/ by \in Admins
    /\ \E limits \in getPairLimits(pair) : checkLimits(pair, amount, limits)
    /\ desk' = [desk EXCEPT ![d] = [at |-> "insert", by |-> by, pair |-> pair, amount |-> amount]]
    /\ UNCHANGED <<transfers, approvers, pair_limits, confirmed>>

insert_transfer(d) ==
    LET id == Cardinality(DOMAIN transfers) + 1
        new == [pair |-> desk[d].pair, amount |-> desk[d].amount, created_by |-> desk[d].by,
                status |-> "PENDING_APPROVAL", required_approvals |-> 2,
                approval_count |-> 1, age |-> 0]
    IN  /\ desk[d].at = "insert" /\ id <= MAX_TRANSFERS
        /\ transfers' = [t \in 1..id |-> IF t = id THEN new ELSE transfers[t]]
        /\ approvers' = [t \in 1..id |-> IF t = id THEN {} ELSE approvers[t]]
        /\ desk' = [desk EXCEPT ![d] = [at |-> "own", id |-> id]]
        /\ UNCHANGED <<pair_limits, confirmed>>

(* The creator's own approval, refused by the unique key if there is one.     *)
insert_own_approval(d) ==
    LET id == desk[d].id
        by == transfers[id].created_by
    IN  /\ desk[d].at = "own"
        /\ \/ /\ by \notin approvers[id]
              /\ approvers' = [approvers EXCEPT ![id] = @ \cup {by}]
              /\ confirmed' = confirmed \cup {id}
           \/ by \in approvers[id] /\ UNCHANGED <<approvers, confirmed>>
        /\ desk' = [desk EXCEPT ![d] = Idle]
        /\ UNCHANGED <<transfers, pair_limits>>

party(id, by) == by \in {transfers[id].pair[1], transfers[id].pair[2]}

(* A second approval by the same person would count as the second party's.    *)
may_approve_again(id, by) == party(id, by) \/ by \in Admins

may_approve(id, by) ==
    /\ party(id, by) \/ by \in Admins
    /\ by \notin approvers[id]

(* approveTransfer up to the INSERT of the approval, which the unique key     *)
(* makes one step with the check before it.                                   *)
approveTransfer(d, id, by) ==
    /\ desk[d] = Idle
    /\ id \in DOMAIN transfers /\ transfers[id].status = "PENDING_APPROVAL"
    /\ may_approve(id, by)
    /\ approvers' = [approvers EXCEPT ![id] = @ \cup {by}]
    /\ desk' = [desk EXCEPT ![d] = [at |-> "count", id |-> id, by |-> by,
                                    new_count |-> transfers[id].approval_count + 1]]
    /\ UNCHANGED <<transfers, pair_limits, confirmed>>

(* The UPDATE by the count that was read, whatever the row says by now.  The  *)
(* transaction may fail to build.                                             *)
execute(d) ==
    LET id == desk[d].id
        n == desk[d].new_count
    IN  /\ desk[d].at = "count"
        /\ \/ /\ n >= transfers[id].required_approvals
              /\ \E status \in {"COMPLETED", "FAILED"} :
                     transfers' = [transfers EXCEPT ![id] = [@ EXCEPT !.status = status, !.approval_count = n]]
           \/ /\ n < transfers[id].required_approvals
              /\ transfers' = [transfers EXCEPT ![id].approval_count = n]
        /\ desk' = [desk EXCEPT ![d] = Idle]
        /\ UNCHANGED <<approvers, pair_limits, confirmed>>

rejectTransfer(d, id, by) ==
    /\ desk[d] = Idle
    /\ id \in DOMAIN transfers /\ transfers[id].status = "PENDING_APPROVAL"
    /\ party(id, by) \/ by \in Admins
    /\ desk' = [desk EXCEPT ![d] = [at |-> "reject", id |-> id]]
    /\ UNCHANGED <<transfers, approvers, pair_limits, confirmed>>

write_rejection(d) ==
    /\ desk[d].at = "reject"
    /\ transfers' = [transfers EXCEPT ![desk[d].id].status = "REJECTED"]
    /\ desk' = [desk EXCEPT ![d] = Idle]
    /\ UNCHANGED <<approvers, pair_limits, confirmed>>

setPairLimits(by, pair, limits) ==
    /\ by \in Admins
    /\ pair[1] # pair[2] /\ limits.daily > 0 /\ limits.weekly > 0
    /\ pair_limits' = [p \in DOMAIN pair_limits \cup {pair} |->
                          IF p = pair THEN limits ELSE pair_limits[p]]
    /\ UNCHANGED <<transfers, approvers, desk, confirmed>>

(* The process dies, or a statement fails, before the request's next write.   *)
request_dies(d) ==
    /\ desk[d] # Idle
    /\ desk' = [desk EXCEPT ![d] = Idle]
    /\ UNCHANGED <<transfers, approvers, pair_limits, confirmed>>

days_pass(n) ==
    /\ \E t \in DOMAIN transfers : transfers[t].age < n
    /\ transfers' = [t \in DOMAIN transfers |-> [transfers[t] EXCEPT !.age = Max({@, n})]]
    /\ UNCHANGED <<approvers, pair_limits, desk, confirmed>>

FloatNext ==
    \/ \E d \in Desks, by \in People, pair \in Pairs, amount \in 1..MAX_AMOUNT :
           initiateTransfer(d, by, pair, amount)
    \/ \E d \in Desks : \/ insert_transfer(d) \/ insert_own_approval(d) \/ execute(d)
                        \/ write_rejection(d) \/ request_dies(d)
    \/ \E d \in Desks, id \in 1..MAX_TRANSFERS, by \in People :
           approveTransfer(d, id, by) \/ rejectTransfer(d, id, by)
    \/ \E by \in People, pair \in Pairs, limits \in Limits : setPairLimits(by, pair, limits)
    \/ \E n \in {1, 7} : days_pass(n)

FloatSpec == FloatInit /\ [][FloatNext]_float_vars

-----------------------------------------------------------------------------
(* A transfer whose creator was answered 201 is executed only on the word of  *)
(* two people, however the approvals and rejections of it interleave.         *)
ConfirmedNeedsTwo ==
    \A t \in confirmed :
        transfers[t].status \in {"COMPLETED", "FAILED"} => Cardinality(approvers[t]) >= 2
=============================================================================
