------------------------- MODULE NotificationService -------------------------
(* One user's in-app notifications, the e-mail and SMS that go with them, the  *)
(* notification stream, the cleanup scheduler (backend/src/services/            *)
(* notificationService.ts, controllers/notificationController.ts) and the      *)
(* hourly repayment reminder (cron/loanCheckCron.ts).                          *)
EXTENDS Naturals, Sequences, FiniteSets, SequencesExt

CONSTANTS NoteTypes,          \* the notifications other parts of the backend create
          OpenLoans,          \* loans approved more than 30 days ago
          Preferences,        \* the settings users choose, as [email, sms, phone]
          MAX_NOTES,          \* bound on the notifications ever created
          RETENTION_DAYS, READ_RETENTION_DAYS, LAST_DAY

VARIABLES
    notifications,   \* the table: one [type, status, day] each; status "deleted" is no row
    mailing,         \* created, with the external sends still to do
    sent,            \* <<channel, notification>>: what was handed to SendGrid or Twilio
    preferences,     \* user_profiles: [email, sms, phone]
    viewer,          \* the stream: "none", "reading", "subscribed"
    shown,           \* what the viewer has been sent
    repaid, reminding,     \* loans with a LoanRepaid event; the rows the running reminder holds
    day

note_vars == <<notifications, mailing, sent, preferences, viewer, shown, repaid, reminding, day>>

Notes == 1..Len(notifications)
unread == {n \in Notes : notifications[n].status = "unread"}
marked(ns, status) == [n \in Notes |-> IF n \in ns THEN [notifications[n] EXCEPT !.status = status]
                                       ELSE notifications[n]]

NoteInit ==
    /\ notifications = <<>> /\ mailing = {} /\ sent = {}
    /\ preferences = [email |-> FALSE, sms |-> FALSE, phone |-> FALSE]
    /\ viewer = "none" /\ shown = {} /\ repaid = {} /\ reminding = {} /\ day = 0

-----------------------------------------------------------------------------
\* createNotification: insert, push to the stream, and go on to the external sends.
insert_note(type) ==
    /\ Len(notifications) < MAX_NOTES
    /\ notifications' = Append(notifications, [type |-> type, status |-> "unread", day |-> day])
    /\ shown' = IF viewer = "subscribed" THEN shown \cup {Len(notifications) + 1} ELSE shown
    /\ mailing' = mailing \cup {Len(notifications) + 1}

createNotification(type) ==
    insert_note(type) /\ UNCHANGED <<sent, preferences, viewer, repaid, reminding, day>>

smsEnabledForType == {"repayment_due", "loan_defaulted", "loan_liquidated"}

\* The preferences are those of now, not of the creation.  A provider that fails
\* is logged: nothing is tried again.
notifyUserExternal(n) ==
    /\ n \in mailing /\ mailing' = mailing \ {n}
    /\ \E ok \in BOOLEAN :
         sent' = sent \cup {<<"email", n>> : x \in {y \in {1} : ok /\ preferences.email}}
                      \cup {<<"sms", n>> : x \in {y \in {1} : /\ ok /\ preferences.sms /\ preferences.phone
                                                              /\ notifications[n].type \in smsEnabledForType}}
    /\ UNCHANGED <<notifications, preferences, viewer, shown, repaid, reminding, day>>

\* SMS is refused without a phone number.
updateNotificationPreferences(p) ==
    /\ p.sms => p.phone
    /\ preferences' = p
    /\ UNCHANGED <<notifications, mailing, sent, viewer, shown, repaid, reminding, day>>

markRead_any(ns) ==
    /\ notifications' = marked({n \in ns : notifications[n].status # "deleted"}, "read")
    /\ UNCHANGED <<mailing, sent, preferences, viewer, shown, repaid, reminding, day>>

markRead(ns) ==
    /\ notifications' = marked(ns \cap unread, "read")
    /\ UNCHANGED <<mailing, sent, preferences, viewer, shown, repaid, reminding, day>>

markAllRead == markRead(Notes)

archiveNotifications(ns) ==
    /\ notifications' = marked({n \in ns : notifications[n].status # "deleted"}, "archived")
    /\ UNCHANGED <<mailing, sent, preferences, viewer, shown, repaid, reminding, day>>

older(n, days) == notifications[n].day + days < day

deleteOldNotifications ==
    /\ notifications' = marked({n \in Notes : older(n, RETENTION_DAYS)}, "deleted")
    /\ UNCHANGED <<mailing, sent, preferences, viewer, shown, repaid, reminding, day>>

deleteReadAndArchived ==
    /\ notifications' = marked({n \in Notes : /\ notifications[n].status \in {"read", "archived"}
                                              /\ older(n, READ_RETENTION_DAYS)}, "deleted")
    /\ UNCHANGED <<mailing, sent, preferences, viewer, shown, repaid, reminding, day>>

-----------------------------------------------------------------------------
\* streamNotifications sends what is unread, awaiting the query, and subscribes.
stream_reads ==
    /\ viewer = "none" /\ viewer' = "reading"
    /\ shown' = unread
    /\ UNCHANGED <<notifications, mailing, sent, preferences, repaid, reminding, day>>

streamNotifications ==
    /\ viewer = "reading" /\ viewer' = "subscribed"
    /\ UNCHANGED <<notifications, mailing, sent, preferences, shown, repaid, reminding, day>>

unsubscribe ==
    /\ viewer = "subscribed" /\ viewer' = "none" /\ shown' = {}
    /\ UNCHANGED <<notifications, mailing, sent, preferences, repaid, reminding, day>>

-----------------------------------------------------------------------------
\* The reminder: a run that is still going keeps the next from starting.  Each row
\* it read is reminded of in turn, repaid in the meantime or not.
startLoanDueCheckCron ==
    /\ reminding = {} /\ reminding' = OpenLoans \ repaid
    /\ UNCHANGED <<notifications, mailing, sent, preferences, viewer, shown, repaid, day>>

remind(l) ==
    /\ l \in reminding /\ mailing = {} /\ reminding' = reminding \ {l}
    /\ insert_note("repayment_due")
    /\ UNCHANGED <<sent, preferences, viewer, repaid, day>>

loan_repaid(l) ==
    /\ l \notin repaid /\ repaid' = repaid \cup {l}
    /\ UNCHANGED <<notifications, mailing, sent, preferences, viewer, shown, reminding, day>>

day_passes ==
    /\ day < LAST_DAY /\ day' = day + 1
    /\ UNCHANGED <<notifications, mailing, sent, preferences, viewer, shown, repaid, reminding>>

NoteNext ==
    \/ \E t \in NoteTypes : createNotification(t)
    \/ \E n \in Notes : notifyUserExternal(n) \/ markRead({n}) \/ archiveNotifications({n})
    \/ \E p \in Preferences : updateNotificationPreferences(p)
    \/ markAllRead \/ deleteOldNotifications \/ deleteReadAndArchived
    \/ stream_reads \/ streamNotifications \/ unsubscribe
    \/ \E l \in OpenLoans : remind(l) \/ loan_repaid(l)
    \/ startLoanDueCheckCron \/ day_passes

\* Two tabs, the cleanup and the clock may come in any order: a notification is
\* never put back (archived to read, read to unread), and an unread one is deleted
\* only when it is older than the long retention.
OnlySettles ==
    \A n \in Notes :
        LET was == notifications[n].status
            is  == notifications'[n].status
        IN  /\ was = "archived" => is \in {"archived", "deleted"}
            /\ was = "read" => is # "unread"
            /\ was = "deleted" => is = "deleted"
            /\ was = "unread" /\ is = "deleted" => older(n, RETENTION_DAYS)
=============================================================================
