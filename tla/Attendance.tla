----------------------------- MODULE Attendance -----------------------------
(***************************************************************************)
(* A confirmed booking from its confirmation to its end: check-in and      *)
(* no-show at the counter, completion (J-02), the reminder (J-03), the     *)
(* automatic no-show (J-04) and the two delayed jobs with which J-03 and   *)
(* J-04 reach the worker.                                                  *)
(*                                                                         *)
(* Bookings do not interact here, so one is enough.  checkInBooking reads  *)
(* the booking and the clock first and updates later (ReadForCheckIn,      *)
(* CheckInBooking).  The jobs are scheduled by afterCommit callbacks,      *)
(* which may be lost; J-02 sweeps for them.  BullMQ ignores an add under   *)
(* an identifier it still knows, and ended jobs are known.                 *)
(***************************************************************************)
EXTENDS Integers

CONSTANTS
    Staff,       \* check-in requests that may be in flight together
    JobFaults    \* of "crash", "attempt": what may go wrong with the jobs

ASSUME AttendanceAssumption == JobFaults \subseteq {"crash", "attempt"}

VARIABLES
    booking,     \* bookings.status
    checkedIn,   \* checked_in_at is set
    clock,       \* where the present lies relative to the schedule
    checking,    \* check-in requests past their checks
    noShowBy,    \* who marked the no-show: "nobody", "staff", "job"
    reminded,    \* the reminder notification exists
    reminderJob, \* BullMQ: the job reminder-<id>
    noShowJob    \* BullMQ: the job noshow-<id>

attendanceVars ==
    <<booking, checkedIn, clock, checking, noShowBy, reminded, reminderJob, noShowJob>>

-----------------------------------------------------------------------------
(* The instants at which some comparison with starts_at or ends_at changes  *)
(* its outcome; clock counts those that have passed.                        *)
ReminderDue == 1     \* starts_at - 2 h
CheckInOpens == 2    \* starts_at - 30 min
Started == 3         \* starts_at
Ended == 4           \* ends_at
Overdue == 5         \* ends_at + 30 min

AttendanceInit ==
    /\ booking = "confirmed"
    /\ checkedIn \in BOOLEAN            \* a walk-in is checked in when made
    /\ clock \in {0, ReminderDue}
    /\ checking = {}
    /\ noShowBy = "nobody"
    /\ reminded = FALSE
    /\ reminderJob \in {"none", "waiting"}
    /\ noShowJob \in {"none", "waiting"}

Tick ==
    /\ clock < Overdue
    /\ clock' = clock + 1
    /\ UNCHANGED <<booking, checkedIn, checking, noShowBy, reminded, reminderJob, noShowJob>>

-----------------------------------------------------------------------------
(* checkInBooking: outside the transaction.  force is the admin's right to  *)
(* ignore the window.                                                       *)
ReadForCheckIn(s, force) ==
    /\ s \notin checking
    /\ booking = "confirmed" /\ ~checkedIn
    /\ force \/ clock \in CheckInOpens..(Ended - 1)
    /\ checking' = checking \cup {s}
    /\ UNCHANGED <<booking, checkedIn, clock, noShowBy, reminded, reminderJob, noShowJob>>

(* checkInBooking: the UPDATE tests the status again, and nothing else.     *)
CheckInBooking(s) ==
    /\ s \in checking
    /\ checking' = checking \ {s}
    /\ checkedIn' = (checkedIn \/ booking = "confirmed")
    /\ UNCHANGED <<booking, clock, noShowBy, reminded, reminderJob, noShowJob>>

(* markBookingAsNoShow: staff may do it at any time, also after a check-in. *)
MarkBookingAsNoShow ==
    /\ booking = "confirmed"
    /\ booking' = "no_show"
    /\ noShowBy' = "staff"
    /\ UNCHANGED <<checkedIn, clock, checking, reminded, reminderJob, noShowJob>>

-----------------------------------------------------------------------------
\* Faulty: the job is left to the callback of the confirmation.
NotRescheduled(j) == j

\* Adding a delayed job; ignored while BullMQ knows the identifier.
Scheduled(j) == IF j = "none" THEN "waiting" ELSE j

\* J-02 completes a booking that was played.
CompletionDue == booking = "confirmed" /\ checkedIn /\ clock = Overdue

\* findUpcomingReminderCandidates
ReminderMissing ==
    booking = "confirmed" /\ ~reminded /\ clock \in ReminderDue..(Started - 1)

\* Faulty: the check-in is not looked at again.
NoShowAnyway == booking = "confirmed" /\ clock = Overdue

\* findDueNoShowCandidates
NoShowDue == booking = "confirmed" /\ ~checkedIn /\ clock = Overdue

(* autoCompleteBookings (J-02): one transaction, then the sweeps, whose     *)
(* callbacks the process may not live to run.                               *)
AutoCompleteBookings(lost) ==
    /\ CompletionDue \/ ReminderMissing \/ NoShowDue
    /\ lost => "crash" \in JobFaults
    /\ booking' = IF CompletionDue THEN "completed" ELSE booking
    /\ reminderJob' = IF ReminderMissing /\ ~lost THEN Scheduled(reminderJob) ELSE reminderJob
    /\ noShowJob' = IF NoShowDue /\ ~lost THEN Scheduled(noShowJob) ELSE noShowJob
    /\ UNCHANGED <<checkedIn, clock, checking, noShowBy, reminded>>

(* sendBookingReminder (J-03).                                              *)
SendBookingReminder ==
    /\ reminderJob = "waiting" /\ clock >= ReminderDue
    /\ reminderJob' = "ended"
    /\ reminded' = (reminded \/ (booking = "confirmed" /\ clock < Started))
    /\ UNCHANGED <<booking, checkedIn, clock, checking, noShowBy, noShowJob>>

(* markBookingNoShow (J-04): one UPDATE that tests everything again.        *)
MarkBookingNoShow ==
    /\ noShowJob = "waiting" /\ clock = Overdue
    /\ noShowJob' = "ended"
    /\ booking' = IF NoShowDue THEN "no_show" ELSE booking
    /\ noShowBy' = IF NoShowDue THEN "job" ELSE noShowBy
    /\ UNCHANGED <<checkedIn, clock, checking, reminded, reminderJob>>

\* All attempts of a job fail; BullMQ keeps it among the failed.
JobGivesUp ==
    /\ "attempt" \in JobFaults
    /\ \/ /\ reminderJob = "waiting" /\ clock >= ReminderDue
          /\ reminderJob' = "ended"
          /\ UNCHANGED noShowJob
       \/ /\ noShowJob = "waiting" /\ clock = Overdue
          /\ noShowJob' = "ended"
          /\ UNCHANGED reminderJob
    /\ UNCHANGED <<booking, checkedIn, clock, checking, noShowBy, reminded>>

-----------------------------------------------------------------------------
(* cancelBooking and the forced maintenance, as far as they concern the     *)
(* booking: its delayed jobs are removed after the commit, if at all.       *)
CancelConfirmed ==
    /\ booking = "confirmed"
    /\ booking' = "cancelled"
    /\ \E removed \in BOOLEAN :
        /\ ~removed => "crash" \in JobFaults
        /\ reminderJob' = IF removed THEN "none" ELSE reminderJob
        /\ noShowJob' = IF removed THEN "none" ELSE noShowJob
    /\ UNCHANGED <<checkedIn, clock, checking, noShowBy, reminded>>

AttendanceProgress ==
    \/ Tick
    \/ \E s \in Staff : (\E force \in BOOLEAN : ReadForCheckIn(s, force)) \/ CheckInBooking(s)
    \/ MarkBookingAsNoShow
    \/ \E lost \in BOOLEAN : AutoCompleteBookings(lost)
    \/ SendBookingReminder
    \/ MarkBookingNoShow
    \/ JobGivesUp

AttendanceNext == AttendanceProgress \/ CancelConfirmed

(* J-02 repeats every 15 minutes and some run of it lives to its callbacks; *)
(* the worker runs waiting jobs; time passes.                               *)
AttendanceFairness ==
    /\ WF_attendanceVars(Tick)
    /\ SF_attendanceVars(AutoCompleteBookings(FALSE))
    /\ WF_attendanceVars(MarkBookingNoShow)

-----------------------------------------------------------------------------
AttendanceTypeOK ==
    /\ booking \in {"confirmed", "completed", "no_show", "cancelled"}
    /\ checkedIn \in BOOLEAN /\ reminded \in BOOLEAN
    /\ clock \in 0..Overdue
    /\ checking \subseteq Staff
    /\ noShowBy \in {"nobody", "staff", "job"}
    /\ reminderJob \in {"none", "waiting", "ended"}
    /\ noShowJob \in {"none", "waiting", "ended"}

\* 06 BR-B-17 and BR-B-18: whoever comes first, a check-in, J-02, J-04 or a
\* cancellation, a customer who checked in is never marked absent by a job,
\* and nothing is completed that nobody checked in for.
AttendanceDecides ==
    /\ noShowBy = "job" => ~checkedIn
    /\ booking = "completed" => checkedIn

\* 02 J-02 and J-04: a booking that is over does not stay confirmed, even if
\* the callbacks that schedule its jobs were lost; except where J-04 has used
\* up its attempts: J-02 cannot add it again under the same identifier.
PastBookingEnds ==
    (clock = Overdue /\ booking = "confirmed")
        ~> (booking # "confirmed" \/ (~checkedIn /\ noShowJob = "ended"))
=============================================================================
