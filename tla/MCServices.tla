----------------------------- MODULE MCServices -----------------------------
(***************************************************************************)
(* The services around the core, each on its own: attendance, sessions,    *)
(* the e-mail outbox, the availability cache, media files, idempotency,    *)
(* the slot grid of a court, prices and quotes.                            *)
(* They share nothing, so a behaviour chooses one (part), and the others   *)
(* stay where no action of theirs is fair.                                 *)
(***************************************************************************)
EXTENDS Attendance, Sessions, EmailOutbox, AvailabilityCache, MediaFiles, Idempotency,
        CourtGrid, Pricing

CONSTANTS q1, q2, q3, q4, k1

VARIABLE part   \* the service that this behaviour is about

servicesVars == <<part, attendanceVars, sessionsVars, emailVars, availabilityVars, mediaVars,
                  idempotencyVars, courtGridVars, pricingVars>>

\* One key: q2 repeats the payment q1, q3 changes its body; q4 asks for a refund.
OneKeyCall ==
    [q \in Requests |->
        [key |-> k1,
         scope |-> IF q = q4 THEN "refund.create" ELSE "payment.create",
         body |-> IF q = q3 THEN "other" ELSE "body"]]

\* Rules of one court and its sport that tie in one key after the other.
Rule(id, priority, courtSpecific, dayType, date, ends, createdAt) ==
    [id |-> id, priority |-> priority, courtSpecific |-> courtSpecific, dayType |-> dayType,
     date |-> date, starts |-> 0, ends |-> ends, createdAt |-> createdAt]
StoredRules ==
    {Rule(1, 0, FALSE, "weekday", 1, 2, 0), Rule(2, 0, FALSE, "weekday", 1, 2, 0),
     Rule(3, 0, FALSE, "weekday", 1, 2, 1), Rule(4, 0, FALSE, "weekday", 1, 1, 0),
     Rule(5, 0, TRUE, "weekday", 1, 2, 0), Rule(6, 1, FALSE, "weekday", 1, 2, 0),
     Rule(7, 0, TRUE, "specific_date", 1, 1, 0), Rule(8, 1, FALSE, "specific_date", 2, 2, 1),
     Rule(9, 0, FALSE, "holiday", 1, 2, 0), Rule(10, 0, FALSE, "specific_date", 1, 2, 0)}
CalendarDays ==
    {[date |-> 1, weekday |-> "weekday"], [date |-> 2, weekday |-> "weekday"],
     [date |-> 3, weekday |-> "holiday"]}
QuotePromos ==
    {[type |-> "none"]} \cup [type : {"percent"}, percent : {15, 100}, cap : {120, 1000000}]
    \cup [type : {"fixed"}, value : {150, 5000}] \cup [type : {"free_slot"}, count : {1, 2}]

\* An inquiry that nobody makes.
NoInquiry == inquiry = NoAnswer /\ answer = NoAnswer

\* A booking that nothing happens to any more.
NoAttendance ==
    /\ booking = "cancelled" /\ checkedIn = FALSE /\ clock = Overdue /\ checking = {}
    /\ noShowBy = "nobody" /\ reminded = FALSE
    /\ reminderJob = "none" /\ noShowJob = "none"

ServicesInit ==
    /\ part \in {"attendance", "sessions", "email", "availability", "media", "idempotency",
                "grid", "pricing"}
    /\ IF part = "attendance" THEN AttendanceInit ELSE NoAttendance
    /\ SessionsInit
    /\ EmailInit
    /\ AvailabilityInit
    /\ MediaInit
    /\ IdempotencyInit
    /\ CourtGridInit
    /\ part # "grid" => schedule = CHOOSE s \in Schedules : TRUE
    /\ IF part = "pricing" THEN PricingInit ELSE NoInquiry

ServicesNext ==
    /\ UNCHANGED part
    /\ IF part = "attendance" THEN AttendanceNext ELSE UNCHANGED attendanceVars
    /\ IF part = "sessions" THEN SessionsNext ELSE UNCHANGED sessionsVars
    /\ IF part = "email" THEN EmailNext ELSE UNCHANGED emailVars
    /\ IF part = "availability" THEN AvailabilityNext ELSE UNCHANGED availabilityVars
    /\ IF part = "media" THEN MediaNext ELSE UNCHANGED mediaVars
    /\ IF part = "idempotency" THEN IdempotencyNext ELSE UNCHANGED idempotencyVars
    /\ IF part = "grid" THEN CourtGridNext ELSE UNCHANGED courtGridVars
    /\ IF part = "pricing" THEN PricingNext ELSE UNCHANGED pricingVars

ServicesSpec ==
    /\ ServicesInit /\ [][ServicesNext]_servicesVars
    /\ AttendanceFairness /\ EmailFairness /\ AvailabilityFairness /\ MediaFairness
=============================================================================
