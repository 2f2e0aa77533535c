----------------------------- MODULE MCDelivery -----------------------------
(* The ways an indexed event reaches people, on small instances: webhooks, the *)
(* backend's event streams and notifications, and the web app's end of a       *)
(* stream.  Each behaviour moves the one that part names.                      *)
EXTENDS WebhookService, EventStream, NotificationService, LiveUpdates

VARIABLE part

MCStreamOf == [a1 |-> [at |-> "i1", user |-> "ana", admin |-> FALSE, asks |-> "none"],
               a2 |-> [at |-> "i1", user |-> "ana", admin |-> FALSE, asks |-> "ben"],
               a3 |-> [at |-> "i1", user |-> "ana", admin |-> FALSE, asks |-> "ana"],
               op |-> [at |-> "i2", user |-> "op", admin |-> TRUE, asks |-> "none"]]

MCAddressOf == <<"ana", "ben">>

MCPreferences == {[email |-> TRUE, sms |-> TRUE, phone |-> TRUE],
                  [email |-> TRUE, sms |-> TRUE, phone |-> FALSE]}

Init ==
    /\ part \in {"webhooks", "streams", "notes", "page"}
    /\ HookInit /\ StreamInit /\ NoteInit
    /\ LiveInit /\ (part # "page" => hook = "loan")

Next ==
    \/ part = "webhooks" /\ HookNext /\ UNCHANGED <<part, stream_vars, note_vars, liveVars>>
    \/ part = "streams" /\ StreamNext /\ UNCHANGED <<part, hook_vars, note_vars, liveVars>>
    \/ part = "notes" /\ NoteNext /\ UNCHANGED <<part, hook_vars, stream_vars, liveVars>>
    \/ part = "page" /\ LiveNext /\ UNCHANGED <<part, hook_vars, stream_vars, note_vars>>

vars == <<part, hook_vars, stream_vars, note_vars, liveVars>>

Spec ==
    /\ Init /\ [][Next]_vars
    /\ part = "webhooks" => HookFairness
    /\ part = "page" => LiveFairness

-----------------------------------------------------------------------------
\* A POST that was made is recorded or still under way, and overlapping ticks of
\* the retry loop repeat it only so often (sendToWebhook, processRetries).
DeliveriesAccountedFor == DeliveriesRecorded /\ PostsBounded

\* A notification is never put back or deleted early, and the page's list has it
\* once, however often it is pushed and sent again (markRead,
\* deleteOldNotifications; useNotificationStream).
NotificationsSettle ==
    [][(part = "notes" => OnlySettles) /\ (part = "page" => PushedOnce')]_vars
=============================================================================
