----------------------------- MODULE EmailOutbox -----------------------------
(***************************************************************************)
(* One e-mail: its row in notifications, written in the transaction of the *)
(* event it is about, the job notif-<id> that sends it (J-25) and the      *)
(* sweep for rows left behind (J-36).                                      *)
(*                                                                         *)
(* The event may repeat; the dedupe key keeps one row.  The provider is    *)
(* called between a read and an UPDATE.  BullMQ runs the job of an         *)
(* identifier once at a time, again when its worker dies (once), and       *)
(* ignores an add under an identifier it still knows.                      *)
(***************************************************************************)
EXTENDS Integers

CONSTANTS
    MaxAttempts, \* attempts of J-25
    MaxEvents,   \* bound on the repetitions of the event
    MaxBreaks    \* bound on the times that a process dies

ASSUME EmailAssumption ==
    /\ MaxAttempts \in Nat \ {0} /\ MaxEvents \in Nat \ {0} /\ MaxBreaks \in Nat

VARIABLES
    outbox,      \* notifications.status, "none" before the INSERT
    events,      \* how often the event has happened
    toNotify,    \* afterCommit callbacks not yet run
    address,     \* the user still has the address of the row
    emailJob,    \* BullMQ: the job, and whether it has stalled before
    attempts,    \* attempts that the job has used
    sending,     \* J-25: "idle", "read", "accepted"
    recording,   \* the failed event of the last attempt has yet to be recorded
    handedOver,  \* times that the provider accepted the e-mail
    breaks       \* times that a process died

emailVars == <<outbox, events, toNotify, address, emailJob, attempts, sending, recording,
               handedOver, breaks>>

-----------------------------------------------------------------------------
JobStates == {"none", "waiting", "active", "waiting again", "active again", "ended"}

EmailInit ==
    /\ outbox = "none"
    /\ events = 0 /\ toNotify = 0
    /\ address = TRUE
    /\ emailJob = "none" /\ attempts = 0
    /\ sending = "idle" /\ recording = FALSE
    /\ handedOver = 0 /\ breaks = 0

(* writeEmailNotification: ON CONFLICT DO NOTHING; only an inserted row is  *)
(* enqueued after the commit.                                               *)
WriteEmailNotification ==
    /\ events < MaxEvents
    /\ events' = events + 1
    /\ outbox' = IF outbox = "none" THEN "queued" ELSE outbox
    /\ toNotify' = IF outbox = "none" THEN toNotify + 1 ELSE toNotify
    /\ UNCHANGED <<address, emailJob, attempts, sending, recording, handedOver, breaks>>

AddEmailJob ==
    IF emailJob = "none" THEN emailJob' = "waiting" /\ attempts' = 0
                         ELSE UNCHANGED <<emailJob, attempts>>

EnqueueEmailNotification ==
    /\ toNotify > 0
    /\ toNotify' = toNotify - 1
    /\ AddEmailJob
    /\ UNCHANGED <<outbox, events, address, sending, recording, handedOver, breaks>>

\* The process dies before the callback, or Redis refuses the job.
LoseNotification ==
    /\ toNotify > 0
    /\ toNotify' = toNotify - 1
    /\ UNCHANGED <<outbox, events, address, emailJob, attempts, sending, recording, handedOver,
                   breaks>>

\* Faulty: rows that failed are retried, not those that were never tried.
FailedRow == outbox = "failed"
StuckRow == outbox = "queued"

(* retryStuckNotifications (J-36)                                           *)
RetryStuckNotifications ==
    /\ StuckRow
    /\ AddEmailJob
    /\ UNCHANGED <<outbox, events, toNotify, address, sending, recording, handedOver, breaks>>

ChangeAddress ==
    /\ address
    /\ address' = FALSE
    /\ UNCHANGED <<outbox, events, toNotify, emailJob, attempts, sending, recording, handedOver,
                   breaks>>

-----------------------------------------------------------------------------
Waiting == {"waiting", "waiting again"}
Running == {"active", "active again"}

\* Faulty: the row is not read again before it is sent.
SendsAnyway == address
Sendable == outbox = "queued" /\ address

(* sendQueuedEmail (J-25): a row that is not queued, or whose address is    *)
(* out of date, needs no provider.                                          *)
StartSendEmail ==
    /\ emailJob \in Waiting
    /\ IF Sendable
       THEN /\ emailJob' = IF emailJob = "waiting" THEN "active" ELSE "active again"
            /\ sending' = "read"
            /\ UNCHANGED outbox
       ELSE /\ emailJob' = "ended"
            /\ outbox' = IF outbox = "queued" THEN "skipped" ELSE outbox
            /\ UNCHANGED sending
    /\ UNCHANGED <<events, toNotify, address, attempts, recording, handedOver, breaks>>

ProviderAccepts ==
    /\ sending = "read"
    /\ sending' = "accepted"
    /\ handedOver' = handedOver + 1
    /\ UNCHANGED <<outbox, events, toNotify, address, emailJob, attempts, recording, breaks>>

MarkNotificationSent ==
    /\ sending = "accepted"
    /\ sending' = "idle"
    /\ emailJob' = "ended"
    /\ outbox' = IF outbox = "queued" THEN "sent" ELSE outbox
    /\ UNCHANGED <<events, toNotify, address, attempts, recording, handedOver, breaks>>

(* The provider refuses: the attempt fails; after the last one the listener *)
(* of the worker records the failure, without being waited for.             *)
ProviderRefuses ==
    /\ sending = "read"
    /\ sending' = "idle"
    /\ attempts' = attempts + 1
    /\ IF attempts' < MaxAttempts
       THEN emailJob' = "waiting" /\ UNCHANGED recording
       ELSE emailJob' = "ended" /\ recording' = TRUE
    /\ UNCHANGED <<outbox, events, toNotify, address, handedOver, breaks>>

RecordEmailDeliveryFailure ==
    /\ recording
    /\ recording' = FALSE
    /\ outbox' = IF outbox = "queued" THEN "failed" ELSE outbox
    /\ UNCHANGED <<events, toNotify, address, emailJob, attempts, sending, handedOver, breaks>>

(* The worker dies: BullMQ runs a stalled job once more; stalled again, it  *)
(* ends among the failed with attempts left, which records nothing.         *)
WorkerDies ==
    /\ breaks < MaxBreaks
    /\ emailJob \in Running \/ recording
    /\ breaks' = breaks + 1
    /\ sending' = "idle" /\ recording' = FALSE
    /\ emailJob' = CASE emailJob = "active" -> "waiting again"
                     [] emailJob = "active again" -> "ended"
                     [] OTHER -> emailJob
    /\ UNCHANGED <<outbox, events, toNotify, address, attempts, handedOver>>

\* RETENTION
EvictEmailJob ==
    /\ emailJob = "ended"
    /\ emailJob' = "none"
    /\ UNCHANGED <<outbox, events, toNotify, address, attempts, sending, recording, handedOver,
                   breaks>>

EmailNext ==
    \/ WriteEmailNotification \/ EnqueueEmailNotification \/ LoseNotification
    \/ RetryStuckNotifications \/ ChangeAddress
    \/ StartSendEmail \/ ProviderAccepts \/ MarkNotificationSent
    \/ ProviderRefuses \/ RecordEmailDeliveryFailure
    \/ WorkerDies \/ EvictEmailJob

(* J-36 repeats every five minutes; the worker runs jobs and hears from the *)
(* provider; a callback runs or is lost.                                    *)
EmailFairness ==
    /\ WF_emailVars(RetryStuckNotifications)
    /\ WF_emailVars(StartSendEmail)
    /\ WF_emailVars(ProviderAccepts \/ ProviderRefuses)
    /\ WF_emailVars(MarkNotificationSent)
    /\ WF_emailVars(RecordEmailDeliveryFailure)

-----------------------------------------------------------------------------
EmailTypeOK ==
    /\ outbox \in {"none", "queued", "sent", "failed", "skipped"}
    /\ events \in 0..MaxEvents /\ toNotify \in 0..1
    /\ address \in BOOLEAN /\ recording \in BOOLEAN
    /\ emailJob \in JobStates
    /\ attempts \in 0..MaxAttempts
    /\ sending \in {"idle", "read", "accepted"}
    /\ handedOver \in Nat /\ breaks \in 0..MaxBreaks

\* 02 J-25: repeated events, J-36 and late callbacks never send an e-mail
\* twice; only a worker that died after the provider had accepted does.
SentTwiceOnlyByCrash == handedOver <= 1 + breaks

\* 02 J-36: a row that nobody enqueued is not forgotten: it is sent, skipped,
\* recorded as failed, or its job has used up what BullMQ gives it.
QueuedMailIsTried == outbox = "queued" ~> (outbox # "queued" \/ emailJob = "ended")
=============================================================================
