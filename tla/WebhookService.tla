--------------------------- MODULE WebhookService ---------------------------
(* Webhook subscriptions, first deliveries and retries                         *)
(* (backend/src/services/webhookService.ts, webhookRetryProcessor.ts and the   *)
(* subscription handlers of indexerController.ts).  Every await is a step: a   *)
(* POST and the row that records it are two, and setInterval starts a tick of  *)
(* the retry processor whether or not the one before has ended.                *)
EXTENDS Naturals, Sequences, SequencesExt, FiniteSets

CONSTANTS Hooks,         \* the subscriptions that can be registered
          HookEvents,    \* the events indexed, each dispatched once
          Oversized,     \* the events whose summary is over the size limit too
          Ticks,         \* runs of the retry processor that can overlap
          HOOK_FAULTS    \* bound: statements that fail and processes that die

VARIABLES
    subscriptions,  \* the hooks with a row in webhook_subscriptions
    withdrawn,      \* the ones deleted: an id is not used again
    unreadable,     \* the ones whose stored secret cannot be decrypted any more
    dispatched,     \* the events dispatch has been called for
    sending,        \* first deliveries under way: [to, pc]
    deliveries,     \* webhook_deliveries, a row for some pairs <<hook, event>>
    tick,           \* what each retry run is doing
    posts,          \* how often each pair has been POSTed
    hook_faults

hook_vars == <<subscriptions, withdrawn, unreadable, dispatched, sending, deliveries, tick, posts, hook_faults>>

Pairs == Hooks \X HookEvents
MAX_RETRY_ATTEMPTS == 4
Resting == [pc |-> "rest", rows |-> <<>>, answer |-> "none"]

\* next_retry_at is NULL, in the future or due.
Delivery(attempts, delivered, retry) == [attempts |-> attempts, delivered |-> delivered, retry |-> retry]

HookInit ==
    /\ subscriptions = {} /\ withdrawn = {} /\ unreadable = {} /\ dispatched = {} /\ sending = {}
    /\ deliveries = [p \in {} |-> Delivery(0, FALSE, "null")]
    /\ tick = [t \in Ticks |-> Resting]
    /\ posts = [p \in Pairs |-> 0] /\ hook_faults = 0

\* postWebhook: an answer with a 2xx status or another one, no answer (a timeout
\* too), or a callback address that assertCallbackUrlSafe refuses.
postWebhook == {"ok", "status", "error", "blocked"}
posted(p, answer) == posts' = [posts EXCEPT ![p] = IF answer = "blocked" THEN @ ELSE @ + 1]

put(p, row) == [q \in DOMAIN deliveries \cup {p} |-> IF q = p THEN row ELSE deliveries[q]]

-----------------------------------------------------------------------------
(* The operators' side.                                                        *)

registerSubscription(h) ==
    /\ h \notin subscriptions \cup withdrawn /\ subscriptions' = subscriptions \cup {h}
    /\ UNCHANGED <<withdrawn, unreadable, dispatched, sending, deliveries, tick, posts, hook_faults>>

\* The deliveries go with the subscription (ON DELETE CASCADE).
deleteSubscription(h) ==
    /\ h \in subscriptions /\ subscriptions' = subscriptions \ {h} /\ withdrawn' = withdrawn \cup {h}
    /\ deliveries' = [p \in {q \in DOMAIN deliveries : q[1] # h} |-> deliveries[p]]
    /\ UNCHANGED <<unreadable, dispatched, sending, tick, posts, hook_faults>>

\* A new secret is encrypted with the current key; a key that is gone makes the
\* stored one unreadable.
rotateWebhookSecret(h) ==
    /\ h \in unreadable /\ unreadable' = unreadable \ {h}
    /\ UNCHANGED <<subscriptions, withdrawn, dispatched, sending, deliveries, tick, posts, hook_faults>>

key_lost(h) ==
    /\ h \in subscriptions \ unreadable /\ unreadable' = unreadable \cup {h}
    /\ hook_faults < HOOK_FAULTS /\ hook_faults' = hook_faults + 1
    /\ UNCHANGED <<subscriptions, withdrawn, dispatched, sending, deliveries, tick, posts>>

-----------------------------------------------------------------------------
(* First deliveries.                                                           *)

\* prepareWebhookPayload: an oversized body is summarised, and summarised again;
\* one that is too long even so throws, and nothing is sent or recorded.
prepareWebhookPayload(e) == e \notin Oversized

\* dispatch reads the subscriptions once and sends to all of them at the same
\* time; one whose secret cannot be read is not sent to.
dispatch(e) ==
    /\ e \notin dispatched /\ dispatched' = dispatched \cup {e}
    /\ sending' = sending \cup {[to |-> <<h, e>>, pc |-> "post"] :
                                   h \in {x \in subscriptions \ unreadable : prepareWebhookPayload(e)}}
    /\ UNCHANGED <<subscriptions, withdrawn, unreadable, deliveries, tick, posts, hook_faults>>

moved(s, pc) == sending' = (sending \ {s}) \cup {[s EXCEPT !.pc = pc]}
ended(s) == sending' = sending \ {s}

send_post(s) ==
    /\ s.pc = "post"
    /\ \E answer \in postWebhook :
          /\ posted(s.to, answer)
          /\ moved(s, IF answer = "ok" THEN "delivered" ELSE IF answer = "status" THEN "refused" ELSE "failed")
    /\ UNCHANGED <<subscriptions, withdrawn, unreadable, dispatched, deliveries, tick, hook_faults>>

\* The INSERT needs the subscription to be there still.
first_row(pc) == Delivery(1, pc = "delivered", IF pc = "delivered" THEN "null" ELSE "later")

recorded_if_delivered(s) == IF s.pc = "delivered" THEN put(s.to, first_row(s.pc)) ELSE deliveries

recorded(s) == put(s.to, first_row(s.pc))

sendToWebhook(s) ==
    /\ s.pc # "post" /\ s.to[1] \in subscriptions
    /\ deliveries' = recorded(s)
    /\ ended(s)
    /\ UNCHANGED <<subscriptions, withdrawn, unreadable, dispatched, tick, posts, hook_faults>>

\* An INSERT that fails inside the try is answered by the catch block, which
\* records a failed delivery; the failure of that one ends the dispatch.
insert_fails(s) ==
    /\ s.pc # "post"
    /\ \/ s.to[1] \notin subscriptions /\ UNCHANGED hook_faults
       \/ hook_faults < HOOK_FAULTS /\ hook_faults' = hook_faults + 1
    /\ IF s.pc = "failed" THEN ended(s) ELSE moved(s, "failed")
    /\ UNCHANGED <<subscriptions, withdrawn, unreadable, dispatched, deliveries, tick, posts>>

-----------------------------------------------------------------------------
(* Retries.                                                                    *)

getRetryDelayMs == \E p \in DOMAIN deliveries :
    /\ deliveries[p].retry = "later"
    /\ deliveries' = [deliveries EXCEPT ![p].retry = "due"]
    /\ UNCHANGED <<subscriptions, withdrawn, unreadable, dispatched, sending, tick, posts, hook_faults>>

due == {p \in DOMAIN deliveries :
           /\ ~deliveries[p].delivered /\ deliveries[p].retry = "due"
           /\ deliveries[p].attempts < MAX_RETRY_ATTEMPTS}

\* processRetries reads the due rows, oldest first, with their attempt counts.
processRetries(t) ==
    /\ tick[t].pc = "rest" /\ due # {}
    /\ \E order \in SetToSeqs(due) :
          tick' = [tick EXCEPT ![t] = [pc |-> "next", answer |-> "none",
                      rows |-> [i \in DOMAIN order |-> [to |-> order[i], attempts |-> deliveries[order[i]].attempts]]]]
    /\ UNCHANGED <<subscriptions, withdrawn, unreadable, dispatched, sending, deliveries, posts, hook_faults>>

\* A secret that cannot be decrypted throws out of the loop: the rows behind it
\* wait for another tick.
retry_post(t) ==
    /\ tick[t].pc = "next"
    /\ LET row == Head(tick[t].rows) IN
       \/ /\ row.to[1] \in unreadable
          /\ tick' = [tick EXCEPT ![t] = Resting] /\ UNCHANGED posts
       \/ /\ row.to[1] \notin unreadable
          /\ \E answer \in postWebhook :
                /\ posted(row.to, answer)
                /\ tick' = [tick EXCEPT ![t].pc = "record", ![t].answer = answer]
    /\ UNCHANGED <<subscriptions, withdrawn, unreadable, dispatched, sending, deliveries, hook_faults>>

after_row(t) == IF Len(tick[t].rows) = 1 THEN Resting
                ELSE [pc |-> "next", rows |-> Tail(tick[t].rows), answer |-> "none"]

\* The row as retryWebhookDelivery writes it: the count it read plus one, and no
\* further retry after the last attempt or for a blocked address.
retried_late(row, attempts, answer) ==
    Delivery(attempts + 1, row.delivered \/ answer = "ok",
             IF answer \in {"ok", "blocked"} \/ attempts + 1 > MAX_RETRY_ATTEMPTS THEN "null" ELSE "later")

retried(row, attempts, answer) ==
    Delivery(attempts + 1, row.delivered \/ answer = "ok",
             IF answer \in {"ok", "blocked"} \/ attempts + 1 >= MAX_RETRY_ATTEMPTS THEN "null" ELSE "later")

retryWebhookDelivery(t) ==
    /\ tick[t].pc = "record"
    /\ LET row == Head(tick[t].rows) IN
       deliveries' = IF row.to \in DOMAIN deliveries
                     THEN put(row.to, retried(deliveries[row.to], row.attempts, tick[t].answer))
                     ELSE deliveries
    /\ tick' = [tick EXCEPT ![t] = after_row(t)]
    /\ UNCHANGED <<subscriptions, withdrawn, unreadable, dispatched, sending, posts, hook_faults>>

\* The UPDATE fails: the catch block writes the attempt as an error instead, and
\* the failure of that UPDATE ends the tick.
update_fails(t) ==
    /\ tick[t].pc = "record" /\ hook_faults < HOOK_FAULTS /\ hook_faults' = hook_faults + 1
    /\ tick' = [tick EXCEPT ![t] = IF @.answer \in {"ok", "status"} THEN [@ EXCEPT !.answer = "error"] ELSE Resting]
    /\ UNCHANGED <<subscriptions, withdrawn, unreadable, dispatched, sending, deliveries, posts>>

\* The process dies: what was under way is gone.
hooks_killed ==
    /\ hook_faults < HOOK_FAULTS /\ hook_faults' = hook_faults + 1
    /\ sending' = {} /\ tick' = [t \in Ticks |-> Resting]
    /\ UNCHANGED <<subscriptions, withdrawn, unreadable, dispatched, deliveries, posts>>

tick_step(t) == processRetries(t) \/ retry_post(t) \/ retryWebhookDelivery(t) \/ update_fails(t)

HookNext ==
    \/ \E h \in Hooks : registerSubscription(h) \/ deleteSubscription(h) \/ rotateWebhookSecret(h) \/ key_lost(h)
    \/ \E e \in HookEvents : dispatch(e)
    \/ \E s \in sending : send_post(s) \/ sendToWebhook(s) \/ insert_fails(s)
    \/ getRetryDelayMs
    \/ \E t \in Ticks : tick_step(t)
    \/ hooks_killed

\* The interval fires for ever, a request is answered or times out, and time
\* passes.
HookFairness ==
    /\ \A t \in Ticks : WF_hook_vars(tick_step(t))
    /\ WF_hook_vars(getRetryDelayMs)

-----------------------------------------------------------------------------
\* Between the POST and its row a delivery is never forgotten: as long as no
\* statement fails, an event dispatched while a readable subscription existed is
\* being sent, is recorded, or went with the subscription.
DeliveriesRecorded ==
    hook_faults = 0 =>
        \A p \in Pairs : posts[p] > 0 =>
            p \in DOMAIN deliveries \/ p[1] \notin subscriptions \/ (\E s \in sending : s.to = p)

\* Overlapping ticks repeat a POST, but only so often: a stale attempt count undoes
\* part of the progress, never all of it.  One tick at a time costs at most
\* MAX_RETRY_ATTEMPTS requests.
PostsBounded ==
    hook_faults = 0 =>
        \A p \in Pairs : posts[p] <= 1 + (MAX_RETRY_ATTEMPTS - 1) ^ Cardinality(Ticks)

\* Every delivery is settled in the end, delivered, given up or withdrawn, unless a
\* secret that cannot be decrypted keeps stopping the loop.
settled(p) == p \in DOMAIN deliveries => deliveries[p].delivered \/ deliveries[p].retry = "null"

DeliveriesSettle == \A p \in Pairs : []<>(settled(p) \/ unreadable # {})
=============================================================================
