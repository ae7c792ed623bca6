--------------------------- MODULE ServicesProofs ---------------------------
(***************************************************************************)
(* Proofs about Attendance, Sessions, CourtGrid, PromoUse, EmailOutbox,    *)
(* MediaFiles and Pricing, for any number of requests in flight, rows,     *)
(* claims, uses, events and failures, any stored rules and any amounts.    *)
(***************************************************************************)
EXTENDS Attendance, Sessions, CourtGrid, PromoUse, EmailOutbox, MediaFiles, Pricing, Totals

-----------------------------------------------------------------------------
(* Attendance.  A no-show that the job marked is final, so a check-in that  *)
(* was under way finds the booking no longer confirmed.                     *)
AttendanceInv ==
    /\ AttendanceTypeOK
    /\ noShowBy = "job" => booking = "no_show"
    /\ AttendanceDecides

LEMMA AttendanceStep == AttendanceInv /\ [AttendanceNext]_attendanceVars => AttendanceInv'
  <1> SUFFICES ASSUME AttendanceInv, [AttendanceNext]_attendanceVars PROVE AttendanceInv'
    OBVIOUS
  <1> USE DEF AttendanceInv, AttendanceTypeOK, AttendanceDecides
  <1>1. CASE Tick BY <1>1 DEF Tick, Overdue
  <1>2. ASSUME NEW s \in Staff,
               (\E force \in BOOLEAN : ReadForCheckIn(s, force)) \/ CheckInBooking(s)
        PROVE  AttendanceInv'
    BY <1>2 DEF ReadForCheckIn, CheckInBooking
  <1>3. CASE MarkBookingAsNoShow BY <1>3 DEF MarkBookingAsNoShow
  <1>4. ASSUME NEW lost \in BOOLEAN, AutoCompleteBookings(lost) PROVE AttendanceInv'
    <2>1. reminderJob' \in {"none", "waiting", "ended"}
      BY <1>4 DEF AutoCompleteBookings, Scheduled
    <2>2. noShowJob' \in {"none", "waiting", "ended"}
      BY <1>4 DEF AutoCompleteBookings, Scheduled
    <2>3. booking' = booking \/ (booking' = "completed" /\ booking = "confirmed" /\ checkedIn)
      BY <1>4 DEF AutoCompleteBookings, CompletionDue
    <2> QED BY <1>4, <2>1, <2>2, <2>3 DEF AutoCompleteBookings
  <1>5. CASE SendBookingReminder BY <1>5 DEF SendBookingReminder
  <1>6. CASE MarkBookingNoShow BY <1>6 DEF MarkBookingNoShow, NoShowDue
  <1>7. CASE JobGivesUp BY <1>7 DEF JobGivesUp
  <1>8. CASE CancelConfirmed BY <1>8 DEF CancelConfirmed
  <1>9. CASE UNCHANGED attendanceVars BY <1>9 DEF attendanceVars
  <1> QED BY <1>1, <1>2, <1>3, <1>4, <1>5, <1>6, <1>7, <1>8, <1>9
          DEF AttendanceNext, AttendanceProgress

\* 06 BR-B-17 and BR-B-18: with any number of check-ins in flight, no job marks
\* a customer absent who has checked in, and nobody completes a booking that
\* nobody checked in for.
THEOREM AttendanceDecided ==
    AttendanceInit /\ [][AttendanceNext]_attendanceVars => []AttendanceDecides
  <1>1. AttendanceInit => AttendanceInv
    <2> SUFFICES ASSUME AttendanceInit PROVE AttendanceInv OBVIOUS
    <2>1. clock \in 0..Overdue BY DEF AttendanceInit, ReminderDue, Overdue
    <2>2. AttendanceTypeOK BY <2>1 DEF AttendanceInit, AttendanceTypeOK
    <2>3. noShowBy = "nobody" /\ booking = "confirmed" BY DEF AttendanceInit
    <2> QED BY <2>2, <2>3 DEF AttendanceInv, AttendanceDecides
  <1>2. AttendanceInv => AttendanceDecides BY DEF AttendanceInv
  <1> QED BY <1>1, <1>2, AttendanceStep, PTL

-----------------------------------------------------------------------------
(* Sessions.  The lowest unused row.                                        *)
LEMMA FreshIsUnused ==
    ASSUME Unused # {}
    PROVE  FreshToken \in Unused
  <1>1. Unused \subseteq Nat BY SessionsAssumption DEF Unused, Tokens
  <1>2. PICK x \in Unused : \A y \in Unused : ~(y < x)
    BY <1>1, LeastNatural
  <1>3. \A y \in Unused : x <= y
    <2> SUFFICES ASSUME NEW y \in Unused PROVE x <= y OBVIOUS
    <2>1. x \in Nat /\ y \in Nat BY <1>1
    <2> QED BY <1>2, <2>1
  <1> QED BY <1>3 DEF FreshToken

(* Nobody else holds the lock that request c relies on.                     *)
HoldsToken(c) ==
    work[c].step \in {"claimed", "listed"} =>
        /\ work[c].of \in Live
        /\ \A d \in Clients \ {c} :
               work[d].step \in {"claimed", "listed"} => work[d].of # work[c].of

LEMMA LockedIs ==
    ASSUME NEW c, NEW rows
    PROVE  LockedFor(c, rows) <=>
               \E d \in Clients \ {c} :
                   work[d].step \in {"claimed", "listed"} /\ work[d].of \in rows
  BY DEF LockedFor, LockedBy

TokensInv ==
    \A t \in Tokens :
        /\ parent[t] # NoToken => /\ token[parent[t]] = "revoked"
                                  /\ family[t] = family[parent[t]]
        /\ token[t] = "none" => parent[t] = NoToken /\ family[t] = NoToken
        /\ token[t] # "none" => family[t] \in Tokens /\ token[family[t]] # "none"

LocksInv ==
    \A c \in Clients :
        /\ HoldsToken(c)
        /\ work[c].step = "read" => work[c].of \in Tokens \ Unused

SessionsInv ==
    /\ SessionsTypeOK
    /\ TokensInv
    /\ LocksInv
    /\ OneLivePerFamily
    /\ RotatedOnce

LEMMA TokenNumbers == NoToken \notin Tokens
  BY SessionsAssumption DEF NoToken, Tokens

LEMMA SessionsInitInv == SessionsInit => SessionsInv
  <1> SUFFICES ASSUME SessionsInit PROVE SessionsInv OBVIOUS
  <1>1. SessionsTypeOK BY DEF SessionsInit, SessionsTypeOK, NoWork, Steps
  <1>2. Live = {} BY DEF SessionsInit, Live
  <1>3. \A c \in Clients : work[c].step = "idle" BY DEF SessionsInit, NoWork
  <1>4. TokensInv BY DEF SessionsInit, TokensInv
  <1>5. LocksInv BY <1>3 DEF LocksInv, HoldsToken
  <1>6. OneLivePerFamily BY <1>2 DEF OneLivePerFamily
  <1>7. RotatedOnce BY DEF SessionsInit, RotatedOnce
  <1> QED BY <1>1, <1>4, <1>5, <1>6, <1>7 DEF SessionsInv

(* A request that goes on without a change of the rows.                     *)
LEMMA WorkKeepsSessions ==
    ASSUME SessionsInv, NEW c \in Clients, UNCHANGED <<token, parent, family>>,
           NEW w \in [step : Steps, of : Tokens \cup {NoToken}, rows : SUBSET Tokens],
           work' = [work EXCEPT ![c] = w],
           \/ w.step \notin {"read", "claimed", "listed"}
           \/ w.step = "read" /\ w.of \in Tokens \ Unused
           \/ w.step = "listed" /\ work[c].step = "claimed" /\ w.of = work[c].of
           \/ w.step = "claimed" /\ w.of \in Live /\ ~LockedFor(c, {w.of})
    PROVE  SessionsInv'
  <1>1. SessionsTypeOK' BY DEF SessionsInv, SessionsTypeOK
  <1>2. TokensInv' BY DEF SessionsInv, TokensInv
  <1>3. OneLivePerFamily' /\ RotatedOnce' BY DEF SessionsInv, OneLivePerFamily, RotatedOnce, Live
  <1>4. work'[c] = w /\ \A d \in Clients : d # c => work'[d] = work[d]
    BY DEF SessionsInv, SessionsTypeOK
  <1>5. Live' = Live /\ Unused' = Unused BY DEF Live, Unused
  <1>6. ASSUME NEW d \in Clients PROVE HoldsToken(d)'
    <2>1. HoldsToken(d) /\ HoldsToken(c) BY DEF SessionsInv, LocksInv
    <2>2. CASE d # c BY <1>4, <1>5, <2>1, <2>2, LockedIs DEF HoldsToken
    <2>3. CASE d = c BY <1>4, <1>5, <2>1, <2>3, LockedIs DEF HoldsToken
    <2> QED BY <2>2, <2>3
  <1>7. ASSUME NEW d \in Clients, work'[d].step = "read" PROVE work'[d].of \in Tokens \ Unused
    BY <1>4, <1>7 DEF SessionsInv, LocksInv
  <1>8. LocksInv' BY <1>5, <1>6, <1>7 DEF LocksInv
  <1> QED BY <1>1, <1>2, <1>3, <1>8 DEF SessionsInv

(* Rows that nobody else has locked are revoked.                            *)
LEMMA RevokeKeepsSessions ==
    ASSUME SessionsInv, NEW rows \in SUBSET Tokens, token' = Revoke(rows),
           UNCHANGED <<parent, family>>,
           \/ /\ work' = work
              /\ \A d \in Clients : ~LockedBy(d, rows)
           \/ \E c \in Clients : work' = [work EXCEPT ![c] = NoWork] /\ ~LockedFor(c, rows)
    PROVE  SessionsInv'
  <1>1. \A t \in Tokens : token'[t] = IF t \in rows /\ token[t] # "none" THEN "revoked" ELSE token[t]
    BY DEF Revoke
  <1>2. token' \in [Tokens -> {"none", "live", "revoked"}]
    BY DEF Revoke, SessionsInv, SessionsTypeOK
  <1>3. \A d \in Clients : \/ work'[d] = work[d] /\ ~LockedBy(d, rows)
                           \/ work'[d] = NoWork
    BY DEF SessionsInv, SessionsTypeOK, LockedFor
  <1>4. SessionsTypeOK'
    <2>1. NoWork \in [step : Steps, of : Tokens \cup {NoToken}, rows : SUBSET Tokens]
      BY DEF NoWork, Steps
    <2> QED BY <1>2, <2>1 DEF SessionsInv, SessionsTypeOK
  <1>5. TokensInv' BY <1>1 DEF SessionsInv, SessionsTypeOK, TokensInv
  <1>6. Live' \subseteq Live /\ Live' = Live \ rows /\ Unused' = Unused
    BY <1>1 DEF Live, Unused
  <1>7. OneLivePerFamily' /\ RotatedOnce'
    BY <1>6 DEF SessionsInv, OneLivePerFamily, RotatedOnce
  <1>8. ASSUME NEW d \in Clients
        PROVE  HoldsToken(d)' /\ (work'[d].step = "read" => work'[d].of \in Tokens \ Unused)
    <2>1. HoldsToken(d) /\ (work[d].step = "read" => work[d].of \in Tokens \ Unused)
      BY DEF SessionsInv, LocksInv
    <2>2. CASE work'[d] = NoWork BY <2>2 DEF HoldsToken, NoWork
    <2>3. CASE work'[d] = work[d] /\ ~LockedBy(d, rows)
      BY <1>3, <1>6, <2>1, <2>3 DEF HoldsToken, LockedBy, NoWork
    <2> QED BY <1>3, <2>2, <2>3
  <1>9. LocksInv' BY <1>6, <1>8 DEF LocksInv
  <1> QED BY <1>4, <1>5, <1>7, <1>9 DEF SessionsInv

(* A row is inserted, the first of a family or the successor of the token   *)
(* that the request itself has claimed.                                     *)
LEMMA InsertKeepsSessions ==
    ASSUME SessionsInv, NEW c \in Clients, NEW f \in Unused, NEW p \in Tokens \cup {NoToken},
           NEW rows \in SUBSET Tokens, ~LockedFor(c, rows),
           p # NoToken => p \in Live /\ p \in rows,
           InsertToken(f, p, Revoke(rows)),
           NEW w \in [step : Steps, of : Tokens \cup {NoToken}, rows : SUBSET Tokens],
           w.step \notin {"read", "claimed", "listed"},
           work' = [work EXCEPT ![c] = w]
    PROVE  SessionsInv'
  <1> USE TokenNumbers
  <1>a. f \in Tokens /\ token[f] = "none" BY DEF Unused
  <1>b. parent[f] = NoToken /\ family[f] = NoToken BY <1>a DEF SessionsInv, TokensInv
  <1>1. /\ token'[f] = "live"
        /\ \A t \in Tokens \ {f} :
               token'[t] = IF t \in rows /\ token[t] # "none" THEN "revoked" ELSE token[t]
    BY <1>a DEF InsertToken, Revoke
  <1>2. /\ parent'[f] = p /\ \A t \in Tokens \ {f} : parent'[t] = parent[t]
        /\ family'[f] = (IF p = NoToken THEN f ELSE family[p])
        /\ \A t \in Tokens \ {f} : family'[t] = family[t]
    BY <1>a DEF InsertToken, SessionsInv, SessionsTypeOK
  <1>3. SessionsTypeOK'
    <2>1. token' \in [Tokens -> {"none", "live", "revoked"}]
      BY DEF InsertToken, Revoke, SessionsInv, SessionsTypeOK
    <2>2. parent' \in [Tokens -> Tokens \cup {NoToken}]
      BY DEF InsertToken, SessionsInv, SessionsTypeOK
    <2>3. family' \in [Tokens -> Tokens \cup {NoToken}]
      BY <1>a DEF InsertToken, SessionsInv, SessionsTypeOK
    <2> QED BY <2>1, <2>2, <2>3 DEF SessionsInv, SessionsTypeOK
  <1>4. TokensInv'
    <2> SUFFICES ASSUME NEW t \in Tokens
                 PROVE  /\ parent'[t] # NoToken => /\ token'[parent'[t]] = "revoked"
                                                   /\ family'[t] = family'[parent'[t]]
                        /\ token'[t] = "none" => parent'[t] = NoToken /\ family'[t] = NoToken
                        /\ token'[t] # "none" =>
                               family'[t] \in Tokens /\ token'[family'[t]] # "none"
      BY DEF TokensInv
    <2>0. \A u \in Tokens : token[u] # "none" => token'[u] # "none" /\ u # f
      BY <1>a, <1>1
    <2>1. CASE t = f
      <3>1. CASE p = NoToken BY <1>a, <1>1, <1>2, <2>1, <3>1
      <3>2. CASE p # NoToken
        <4>1. p \in Tokens /\ token[p] = "live" /\ p \in rows BY <3>2 DEF Live
        <4>2. family[p] \in Tokens /\ token[family[p]] # "none"
          BY <4>1 DEF SessionsInv, TokensInv
        <4>3. token'[p] = "revoked" /\ family'[p] = family[p] BY <1>a, <1>1, <1>2, <4>1
        <4> QED BY <1>1, <1>2, <2>0, <2>1, <3>2, <4>1, <4>2, <4>3
      <3> QED BY <3>1, <3>2
    <2>2. CASE t # f
      <3>1. /\ parent[t] # NoToken => token[parent[t]] = "revoked" /\ family[t] = family[parent[t]]
            /\ token[t] = "none" => parent[t] = NoToken /\ family[t] = NoToken
            /\ token[t] # "none" => family[t] \in Tokens /\ token[family[t]] # "none"
            /\ parent[t] \in Tokens \cup {NoToken}
        BY DEF SessionsInv, TokensInv, SessionsTypeOK
      <3>2. parent[t] # NoToken => parent[t] \in Tokens /\ parent[t] # f
        BY <1>a, <3>1
      <3> QED BY <1>1, <1>2, <2>0, <2>2, <3>1, <3>2
    <2> QED BY <2>1, <2>2
  <1>5. \A t \in Live' : t # f => t \in Live /\ t \notin rows
    BY <1>1 DEF Live
  <1>6. OneLivePerFamily'
    <2>1. ASSUME NEW t \in Live', t # f PROVE family'[t] # family'[f]
      <3>1. t \in Tokens /\ token[t] = "live" /\ t \notin rows /\ family'[t] = family[t]
        BY <1>2, <1>5, <2>1 DEF Live
      <3>2. family[t] # f BY <1>a, <3>1 DEF SessionsInv, TokensInv
      <3>3. p # NoToken => family[t] # family[p]
        BY <3>1 DEF SessionsInv, OneLivePerFamily, Live
      <3> QED BY <1>2, <3>1, <3>2, <3>3
    <2>2. ASSUME NEW s \in Live', NEW t \in Live', s # f, t # f, family'[s] = family'[t]
          PROVE  s = t
      <3>1. s \in Live /\ t \in Live /\ family[s] = family[t]
        BY <1>2, <1>5, <2>2 DEF Live
      <3> QED BY <3>1 DEF SessionsInv, OneLivePerFamily
    <2> QED BY <2>1, <2>2 DEF OneLivePerFamily
  <1>7. RotatedOnce'
    <2>1. \A t \in Tokens : p # NoToken => parent[t] # p
      BY DEF SessionsInv, TokensInv, Live
    <2> QED BY <1>2, <2>1 DEF RotatedOnce, SessionsInv
  <1>8. ASSUME NEW d \in Clients
        PROVE  HoldsToken(d)' /\ (work'[d].step = "read" => work'[d].of \in (Tokens \ Unused)')
    <2>0. work'[c] = w /\ \A e \in Clients : e # c => work'[e] = work[e]
      BY DEF SessionsInv, SessionsTypeOK
    <2>1. HoldsToken(d) /\ (work[d].step = "read" => work[d].of \in Tokens \ Unused)
      BY DEF SessionsInv, LocksInv
    <2>2. CASE d = c BY <2>0, <2>2 DEF HoldsToken
    <2>3. CASE d # c
      <3>1. work'[d] = work[d] BY <2>0, <2>3
      <3>2. work[d].step \in {"claimed", "listed"} => work[d].of \in Live /\ work[d].of \notin rows
        BY <2>1, <2>3, LockedIs DEF HoldsToken
      <3>3. Live \ rows \subseteq Live' BY <1>a, <1>1 DEF Live
      <3>4. Tokens \ Unused \subseteq (Tokens \ Unused)' BY <1>a, <1>1 DEF Unused
      <3> QED BY <2>0, <2>1, <3>1, <3>2, <3>3, <3>4 DEF HoldsToken
    <2> QED BY <2>2, <2>3
  <1>9. LocksInv' BY <1>8 DEF LocksInv
  <1> QED BY <1>3, <1>4, <1>6, <1>7, <1>9 DEF SessionsInv

LEMMA NoWorkType == NoWork \in [step : Steps, of : Tokens \cup {NoToken}, rows : SUBSET Tokens]
  BY DEF NoWork, Steps

LEMMA LoginKeepsSessions ==
    ASSUME SessionsInv, NEW c \in Clients,
           Login(c) \/ ListSessions(c) \/ TrimSessions(c)
    PROVE  SessionsInv'
  <1>1. CASE Login(c)
    <2> DEFINE w == [step |-> "inserted", of |-> NoToken, rows |-> {}]
    <2>1. FreshToken \in Unused BY <1>1, FreshIsUnused DEF Login
    <2>2. token = Revoke({}) BY DEF Revoke, SessionsInv, SessionsTypeOK
    <2>3. ~LockedFor(c, {}) BY LockedIs
    <2>4. InsertToken(FreshToken, NoToken, Revoke({})) BY <1>1, <2>2 DEF Login
    <2>5. work' = [work EXCEPT ![c] = w] BY <1>1 DEF Login, Does
    <2>6. w \in [step : Steps, of : Tokens \cup {NoToken}, rows : SUBSET Tokens] BY DEF Steps
    <2> HIDE DEF w
    <2>7. w.step \notin {"read", "claimed", "listed"} BY DEF w
    <2>8. {} \in SUBSET Tokens /\ NoToken \in Tokens \cup {NoToken} OBVIOUS
    <2> QED BY <2>1, <2>3, <2>4, <2>5, <2>6, <2>7, <2>8, InsertKeepsSessions
  <1>2. CASE ListSessions(c)
    <2> DEFINE w == [step |-> "trimming", of |-> NoToken, rows |-> Excess(Live)]
    <2>1. w \in [step : Steps, of : Tokens \cup {NoToken}, rows : SUBSET Tokens]
      BY DEF Steps, Excess, Live
    <2>2. work' = [work EXCEPT ![c] = w] BY <1>2 DEF ListSessions, Does
    <2> HIDE DEF w
    <2>3. w.step = "trimming" BY DEF w
    <2> QED BY <1>2, <2>1, <2>2, <2>3, WorkKeepsSessions DEF ListSessions
  <1>3. CASE TrimSessions(c)
    <2>1. work[c].rows \in SUBSET Tokens BY DEF SessionsInv, SessionsTypeOK
    <2> QED BY <1>3, <2>1, RevokeKeepsSessions DEF TrimSessions, Ends
  <1> QED BY <1>1, <1>2, <1>3

LEMMA RefreshKeepsSessions ==
    ASSUME SessionsInv, NEW c \in Clients,
           \/ \E t \in Tokens : ReadToken(c, t)
           \/ ClaimRotation(c) \/ ListInRotation(c) \/ CommitRotation(c)
    PROVE  SessionsInv'
  <1> DEFINE Works == [step : Steps, of : Tokens \cup {NoToken}, rows : SUBSET Tokens]
  <1>0. work[c] \in Works BY DEF SessionsInv, SessionsTypeOK
  <1>1. ASSUME NEW R \in SUBSET Tokens, Does(c, "revoking", NoToken, R),
               UNCHANGED <<token, parent, family>>
        PROVE  SessionsInv'
    <2> DEFINE w == [step |-> "revoking", of |-> NoToken, rows |-> R]
    <2>1. w \in Works BY DEF Steps
    <2>2. work' = [work EXCEPT ![c] = w] BY <1>1 DEF Does
    <2> HIDE DEF w
    <2>3. w.step = "revoking" BY DEF w
    <2> QED BY <1>1, <2>1, <2>2, <2>3, WorkKeepsSessions
  <1>2. ASSUME NEW t \in Tokens, ReadToken(c, t) PROVE SessionsInv'
    <2>1. CASE token[t] = "live" /\ Does(c, "read", t, {})
      <3>0. UNCHANGED <<token, parent, family>> BY <1>2 DEF ReadToken
      <3> DEFINE w == [step |-> "read", of |-> t, rows |-> {}]
      <3>1. w \in Works BY DEF Steps
      <3>2. work' = [work EXCEPT ![c] = w] BY <2>1 DEF Does
      <3>3. t \in Tokens \ Unused BY <2>1 DEF Unused
      <3> HIDE DEF w
      <3>4. w.step = "read" /\ w.of = t BY DEF w
      <3> QED BY <3>0, <3>1, <3>2, <3>3, <3>4, WorkKeepsSessions
    <2>2. CASE Does(c, "revoking", NoToken,
                    {u \in Tokens : token[u] # "none" /\ family[u] = family[t]})
      BY <1>1, <1>2, <2>2 DEF ReadToken
    <2> QED BY <1>2, <2>1, <2>2 DEF ReadToken
  <1>3. CASE ClaimRotation(c)
    <2> DEFINE t == work[c].of
    <2>1. t \in Tokens BY <1>3 DEF ClaimRotation, SessionsInv, LocksInv
    <2>2. CASE MayRotate(t) /\ Does(c, "claimed", t, {})
      <3> DEFINE w == [step |-> "claimed", of |-> t, rows |-> {}]
      <3>1. w \in Works BY <2>1 DEF Steps
      <3>2. work' = [work EXCEPT ![c] = w] BY <2>2 DEF Does
      <3>3. t \in Live /\ ~LockedFor(c, {t}) BY <1>3, <2>1, <2>2 DEF ClaimRotation, MayRotate, Live
      <3>4. w.step = "claimed" /\ w.of = t OBVIOUS
      <3> HIDE DEF w, t
      <3> QED BY <1>3, <3>1, <3>2, <3>3, <3>4, WorkKeepsSessions DEF ClaimRotation
    <2>3. CASE Does(c, "revoking", NoToken,
                    {u \in Tokens : token[u] # "none" /\ family[u] = family[t]})
      BY <1>1, <1>3, <2>3 DEF ClaimRotation
    <2> QED BY <1>3, <2>2, <2>3 DEF ClaimRotation
  <1>4. CASE ListInRotation(c)
    <2> DEFINE t == work[c].of
               R == Excess((Live \ {t}) \cup {MaxTokens + 1}) \cap Tokens
               w == [step |-> "listed", of |-> t, rows |-> R]
    <2>1. w \in Works BY <1>0 DEF Steps
    <2>2. work' = [work EXCEPT ![c] = w] BY <1>4 DEF ListInRotation, Does
    <2>3. w.step = "listed" /\ w.of = work[c].of OBVIOUS
    <2> HIDE DEF w
    <2> QED BY <1>4, <2>1, <2>2, <2>3, WorkKeepsSessions DEF ListInRotation
  <1>5. CASE CommitRotation(c)
    <2> DEFINE t == work[c].of
               R == {t} \cup work[c].rows
    <2>1. HoldsToken(c) BY DEF SessionsInv, LocksInv
    <2>2. t \in Live /\ t \in Tokens BY <1>5, <2>1 DEF CommitRotation, HoldsToken, Live
    <2>3. ~LockedFor(c, R)
      <3>1. ~LockedFor(c, work[c].rows) BY <1>5 DEF CommitRotation
      <3> QED BY <1>5, <2>1, <3>1, LockedIs DEF CommitRotation, HoldsToken
    <2>4. R \in SUBSET Tokens BY <1>0, <2>2
    <2>5. FreshToken \in Unused BY <1>5, FreshIsUnused DEF CommitRotation
    <2>6. InsertToken(FreshToken, t, Revoke(R)) BY <1>5 DEF CommitRotation
    <2>7. work' = [work EXCEPT ![c] = NoWork] /\ NoWork.step = "idle"
      BY <1>5 DEF CommitRotation, Ends, NoWork
    <2>8. t \in R OBVIOUS
    <2> HIDE DEF R, t
    <2> QED BY <2>2, <2>3, <2>4, <2>5, <2>6, <2>7, <2>8, NoWorkType, InsertKeepsSessions
  <1> QED BY <1>2, <1>3, <1>4, <1>5

LEMMA RevokingKeepsSessions ==
    ASSUME SessionsInv, NEW c \in Clients,
           \/ \E t \in Tokens : RevokeSession(t)
           \/ RollBackSession(c)
           \/ \E step \in {"revoking all", "renewing"} : RevokeAllSessions(c, step)
           \/ FinishRevoking(c)
    PROVE  SessionsInv'
  <1>1. ASSUME NEW t \in Tokens, RevokeSession(t) PROVE SessionsInv'
    <2>1. {t} \in SUBSET Tokens OBVIOUS
    <2> QED BY <1>1, <2>1, RevokeKeepsSessions DEF RevokeSession
  <1>2. CASE RollBackSession(c)
    <2>1. NoWork.step = "idle" BY DEF NoWork
    <2> QED BY <1>2, <2>1, NoWorkType, WorkKeepsSessions DEF RollBackSession, Ends
  <1>3. ASSUME NEW step \in {"revoking all", "renewing"}, RevokeAllSessions(c, step)
        PROVE  SessionsInv'
    <2> DEFINE w == [step |-> step, of |-> NoToken, rows |-> Live]
    <2>1. w \in [step : Steps, of : Tokens \cup {NoToken}, rows : SUBSET Tokens]
      BY DEF Steps, Live
    <2>2. work' = [work EXCEPT ![c] = w] BY <1>3 DEF RevokeAllSessions, Does
    <2>3. w.step = step OBVIOUS
    <2> HIDE DEF w
    <2> QED BY <1>3, <2>1, <2>2, <2>3, WorkKeepsSessions DEF RevokeAllSessions
  <1>4. CASE FinishRevoking(c)
    <2>1. RevokedAtLast(c) \in SUBSET Tokens BY DEF SessionsInv, SessionsTypeOK, RevokedAtLast
    <2>2. ~LockedFor(c, RevokedAtLast(c)) /\ work' = [work EXCEPT ![c] = NoWork]
      BY <1>4 DEF FinishRevoking, Ends
    <2>3. CASE work[c].step = "renewing"
      <3>1. FreshToken \in Unused BY <1>4, <2>3, FreshIsUnused DEF FinishRevoking
      <3>2. InsertToken(FreshToken, NoToken, Revoke(RevokedAtLast(c)))
        BY <1>4, <2>3 DEF FinishRevoking
      <3>3. NoWork.step = "idle" BY DEF NoWork
      <3> QED BY <2>1, <2>2, <3>1, <3>2, <3>3, NoWorkType, InsertKeepsSessions
    <2>4. CASE work[c].step # "renewing"
      <3>1. token' = Revoke(RevokedAtLast(c)) /\ UNCHANGED <<parent, family>>
        BY <1>4, <2>4 DEF FinishRevoking
      <3> QED BY <2>1, <2>2, <3>1, RevokeKeepsSessions
    <2> QED BY <2>3, <2>4
  <1> QED BY <1>1, <1>2, <1>3, <1>4

LEMMA SessionsHold == SessionsSpec => []SessionsInv
  <1>1. SessionsInv /\ [SessionsNext]_sessionsVars => SessionsInv'
    <2> SUFFICES ASSUME SessionsInv, [SessionsNext]_sessionsVars PROVE SessionsInv' OBVIOUS
    <2>1. CASE UNCHANGED sessionsVars
      BY <2>1 DEF sessionsVars, SessionsInv, SessionsTypeOK, TokensInv, LocksInv, HoldsToken,
                  OneLivePerFamily, RotatedOnce, Live, Unused
    <2>2. CASE SessionsNext
      BY <2>2, LoginKeepsSessions, RefreshKeepsSessions, RevokingKeepsSessions DEF SessionsNext
    <2> QED BY <2>1, <2>2
  <1> QED BY <1>1, SessionsInitInv, PTL DEF SessionsSpec

\* 05 section 5: with any number of refreshes, logins and revocations that
\* overlap, a session never has two usable tokens.
THEOREM OneLiveToken == SessionsSpec => []OneLivePerFamily
  <1>1. SessionsInv => OneLivePerFamily BY DEF SessionsInv
  <1> QED BY <1>1, SessionsHold, PTL

\* 05 section 5: a refresh token is exchanged for at most one other.
THEOREM ExchangedOnce == SessionsSpec => []RotatedOnce
  <1>1. SessionsInv => RotatedOnce BY DEF SessionsInv
  <1> QED BY <1>1, SessionsHold, PTL

-----------------------------------------------------------------------------
(* The slot grid.  Every claim is aligned with the schedule it was accepted *)
(* on, and no two have one start: on schedules that cut the day at the same *)
(* times, starts that differ are a whole slot apart.                        *)
LEMMA Quotient ==
    ASSUME NEW n \in Int, NEW d \in Nat \ {0}, n % d = 0
    PROVE  \E q \in Int : n = d * q
  <1>1. n = d * (n \div d) /\ n \div d \in Int OBVIOUS
  <1> QED BY <1>1

LEMMA WholeSlotsApart ==
    ASSUME NEW d \in Nat \ {0}, NEW m \in Int, -d < d * m, d * m < d
    PROVE  m = 0
  <1>1. CASE m >= 1
    <2>1. d * m >= d BY <1>1
    <2> QED BY <2>1
  <1>2. CASE m <= -1
    <2>1. d * m <= -d BY <1>2
    <2> QED BY <2>1
  <1> QED BY <1>1, <1>2

LEMMA SameStart ==
    ASSUME NEW d \in Nat \ {0}, NEW a \in Int, NEW b \in Int, NEW o \in Int, NEW p \in Int,
           (a - o) % d = 0, (b - p) % d = 0, (o - p) % d = 0,
           a < b + d, b < a + d
    PROVE  a = b
  <1>0. a - o \in Int /\ b - p \in Int /\ o - p \in Int OBVIOUS
  <1>1. PICK i \in Int : a - o = d * i BY <1>0, Quotient
  <1>2. PICK j \in Int : b - p = d * j BY <1>0, Quotient
  <1>3. PICK k \in Int : o - p = d * k BY <1>0, Quotient
  <1> DEFINE m == i - j + k
  <1>4. m \in Int OBVIOUS
  <1>5. a - b = d * m BY <1>1, <1>2, <1>3
  <1>6. m = 0 BY <1>4, <1>5, WholeSlotsApart
  <1> QED BY <1>5, <1>6

GridInv ==
    /\ CourtGridTypeOK
    /\ \A e \in Editors : patch[e] # NoPatch => patch[e].duration \in Durations
    /\ \A c \in Claimers : request[c] # NoRequest =>
           /\ request[c].schedule \in Schedules
           /\ \A t \in request[c].starts : IsSlotAligned(t, request[c].schedule)
    /\ \A x \in claims :
           /\ IsSlotAligned(x.start, x.schedule)
           /\ x.end = x.start + x.schedule.duration
    /\ \A x, y \in claims : x.start = y.start => x = y

LEMMA ScheduleType == \A g \in Schedules : /\ g.opens \in Nat /\ g.closes \in Nat
                                           /\ g.duration \in Nat \ {0}
  BY CourtGridAssumption DEF Schedules

LEMMA GridType == \A g \in Schedules : BuildSlotGrid(g) \subseteq Int
  BY ScheduleType DEF BuildSlotGrid

LEMMA GridInit == CourtGridInit => GridInv
  <1> SUFFICES ASSUME CourtGridInit PROVE GridInv OBVIOUS
  <1>1. NoRequest \in [starts : SUBSET Int, schedule : Schedules \cup {NoSchedule}]
    BY DEF NoRequest
  <1>2. NoPatch \in [duration : Durations \cup {0}, version : Nat] BY DEF NoPatch
  <1>3. CourtGridTypeOK BY <1>1, <1>2 DEF CourtGridInit, CourtGridTypeOK
  <1> QED BY <1>3 DEF CourtGridInit, GridInv

LEMMA InsertKeepsGrid ==
    ASSUME GridInv, NEW c \in Claimers, InsertClaims(c)
    PROVE  GridInv'
  <1> DEFINE r == request[c]
  <1>1. /\ r.schedule \in Schedules /\ r.starts \subseteq Int
        /\ \A t \in r.starts : IsSlotAligned(t, r.schedule)
    BY DEF InsertClaims, GridInv, CourtGridTypeOK
  <1>2. UNCHANGED <<schedule, edits, patch>> BY DEF InsertClaims
  <1>3. NoRequest \in [starts : SUBSET Int, schedule : Schedules \cup {NoSchedule}]
    BY DEF NoRequest
  <1>4. request' = [request EXCEPT ![c] = NoRequest] BY DEF InsertClaims
  <1>5. \A x \in ClaimsFrom(c) :
            /\ x \in [by : Claimers, start : Int, end : Int, schedule : Schedules]
            /\ x.start \in r.starts /\ x.schedule = r.schedule
            /\ x.end = x.start + x.schedule.duration
            /\ x.by = c
    BY <1>1, ScheduleType DEF ClaimsFrom
  <1>6. \A x, y \in ClaimsFrom(c) : x.start = y.start => x = y
    BY DEF ClaimsFrom
  <1>7. \/ claims' = claims
        \/ claims' = claims \cup ClaimsFrom(c) /\ \A x \in claims : x.start \notin r.starts
    BY DEF InsertClaims, StartsFree
  <1>8. CourtGridTypeOK'
    BY <1>2, <1>3, <1>4, <1>5, <1>7 DEF GridInv, CourtGridTypeOK
  <1>9. \A x \in claims' : /\ IsSlotAligned(x.start, x.schedule)
                           /\ x.end = x.start + x.schedule.duration
    BY <1>1, <1>5, <1>7 DEF GridInv
  <1>10. \A x, y \in claims' : x.start = y.start => x = y
    BY <1>5, <1>6, <1>7 DEF GridInv
  <1>11. \A d \in Claimers : request'[d] # NoRequest =>
             /\ request'[d].schedule \in Schedules
             /\ \A t \in request'[d].starts : IsSlotAligned(t, request'[d].schedule)
    BY <1>4 DEF GridInv, CourtGridTypeOK
  <1>12. \A e \in Editors : patch'[e] # NoPatch => patch'[e].duration \in Durations
    BY <1>2 DEF GridInv
  <1> QED BY <1>8, <1>9, <1>10, <1>11, <1>12 DEF GridInv

LEMMA GridStep == GridInv /\ [CourtGridNext]_courtGridVars => GridInv'
  <1> SUFFICES ASSUME GridInv, [CourtGridNext]_courtGridVars PROVE GridInv' OBVIOUS
  <1>1. ASSUME NEW c \in Claimers, NEW starts \in SUBSET StartTimes, ReadGrid(c, starts)
        PROVE  GridInv'
    <2> DEFINE r == [starts |-> starts, schedule |-> schedule]
    <2>1. schedule \in Schedules BY DEF GridInv, CourtGridTypeOK
    <2>2. starts \subseteq Int BY GridType DEF StartTimes
    <2>3. r \in [starts : SUBSET Int, schedule : Schedules \cup {NoSchedule}] BY <2>1, <2>2
    <2>4. request' = [request EXCEPT ![c] = r] /\ UNCHANGED <<schedule, edits, claims, patch>>
      BY <1>1 DEF ReadGrid
    <2>5. \A t \in starts : IsSlotAligned(t, schedule) BY <1>1 DEF ReadGrid
    <2>6. CourtGridTypeOK' BY <2>3, <2>4 DEF GridInv, CourtGridTypeOK
    <2>7. \A d \in Claimers : request'[d] # NoRequest =>
              /\ request'[d].schedule \in Schedules
              /\ \A t \in request'[d].starts : IsSlotAligned(t, request'[d].schedule)
      BY <2>1, <2>4, <2>5 DEF GridInv, CourtGridTypeOK
    <2> QED BY <2>4, <2>6, <2>7 DEF GridInv
  <1>2. ASSUME NEW c \in Claimers, InsertClaims(c) PROVE GridInv'
    BY <1>2, InsertKeepsGrid
  <1>3. ASSUME NEW c \in Claimers, ReleaseClaims(c) PROVE GridInv'
    BY <1>3 DEF ReleaseClaims, GridInv, CourtGridTypeOK
  <1>4. ASSUME NEW e \in Editors, NEW d \in Durations, ReadCourt(e, d) PROVE GridInv'
    <2> DEFINE w == [duration |-> d, version |-> edits]
    <2>1. w \in [duration : Durations \cup {0}, version : Nat] BY DEF GridInv, CourtGridTypeOK
    <2>2. patch' = [patch EXCEPT ![e] = w] /\ UNCHANGED <<schedule, edits, claims, request>>
      BY <1>4 DEF ReadCourt
    <2>3. CourtGridTypeOK' BY <2>1, <2>2 DEF GridInv, CourtGridTypeOK
    <2>4. \A f \in Editors : patch'[f] # NoPatch => patch'[f].duration \in Durations
      BY <2>2 DEF GridInv, CourtGridTypeOK
    <2> QED BY <2>2, <2>3, <2>4 DEF GridInv
  <1>5. ASSUME NEW e \in Editors, PatchCourt(e) PROVE GridInv'
    <2>1. patch[e].duration \in Durations BY <1>5 DEF PatchCourt, GridInv
    <2>2. schedule' = schedule \/ schedule' = [schedule EXCEPT !.duration = patch[e].duration]
      BY <1>5 DEF PatchCourt
    <2>3. schedule' \in Schedules
      BY <2>1, <2>2 DEF Schedules, GridInv, CourtGridTypeOK
    <2>4. edits' \in Nat BY <1>5 DEF PatchCourt, GridInv, CourtGridTypeOK
    <2>5. patch' = [patch EXCEPT ![e] = NoPatch] /\ UNCHANGED <<claims, request>>
      BY <1>5 DEF PatchCourt
    <2>6. NoPatch \in [duration : Durations \cup {0}, version : Nat] BY DEF NoPatch
    <2>7. CourtGridTypeOK' BY <2>3, <2>4, <2>5, <2>6 DEF GridInv, CourtGridTypeOK
    <2>8. \A f \in Editors : patch'[f] # NoPatch => patch'[f].duration \in Durations
      BY <2>5 DEF GridInv, CourtGridTypeOK
    <2> QED BY <2>5, <2>7, <2>8 DEF GridInv
  <1>6. ASSUME NEW g \in Schedules, ReplaceOperatingHours(g) PROVE GridInv'
    BY <1>6 DEF ReplaceOperatingHours, GridInv, CourtGridTypeOK
  <1>7. CASE UNCHANGED courtGridVars
    BY <1>7 DEF courtGridVars, GridInv, CourtGridTypeOK
  <1> QED BY <1>1, <1>2, <1>3, <1>4, <1>5, <1>6, <1>7 DEF CourtGridNext

LEMMA GridHolds == CourtGridSpec => []GridInv
  BY GridInit, GridStep, PTL DEF CourtGridSpec

\* slot-grid.ts: active claims of a court overlap only if they were accepted on
\* schedules that cut the day differently, for every set of hours and slot
\* durations and any number of claims and edits in flight.
THEOREM OverlapByRegrid == CourtGridSpec => []OverlapMeansRegridded
  <1>1. ASSUME GridInv, NEW x \in claims, NEW y \in claims, Overlap(x, y),
               SameCuts(x.schedule, y.schedule)
        PROVE  x = y
    <2> DEFINE g == x.schedule
               h == y.schedule
    <2>1. g \in Schedules /\ h \in Schedules /\ x.start \in Int /\ y.start \in Int
      BY <1>1 DEF GridInv, CourtGridTypeOK
    <2>2. g.duration \in Nat \ {0} /\ g.opens \in Nat /\ h.opens \in Nat /\ h.duration = g.duration
      BY <1>1, <2>1, ScheduleType DEF SameCuts
    <2>3. /\ (x.start - g.opens) % g.duration = 0 /\ (y.start - h.opens) % g.duration = 0
          /\ x.end = x.start + g.duration /\ y.end = y.start + g.duration
      BY <1>1, <2>2 DEF GridInv, IsSlotAligned
    <2>4. (g.opens - h.opens) % g.duration = 0 BY <1>1 DEF SameCuts
    <2>5. x.start < y.start + g.duration /\ y.start < x.start + g.duration
      BY <1>1, <2>3 DEF Overlap
    <2>6. x.start = y.start BY <2>1, <2>2, <2>3, <2>4, <2>5, SameStart
    <2> QED BY <1>1, <2>6 DEF GridInv
  <1>2. GridInv => OverlapMeansRegridded BY <1>1 DEF OverlapMeansRegridded
  <1> QED BY <1>2, GridHolds, PTL

(* What is offered, and what is accepted, as multiples of the duration.     *)
LEMMA MultipleLeavesNothing ==
    ASSUME NEW d \in Nat \ {0}, NEW n \in Int
    PROVE  (n * d) % d = 0 /\ (n * d) \div d = n
  OBVIOUS

LEMMA FitsInside ==
    ASSUME NEW d \in Nat \ {0}, NEW n \in Int, NEW m \in Int
    PROVE  n * d <= m <=> n <= m \div d
  <1> DEFINE q == m \div d
  <1>1. q \in Int /\ d * q <= m /\ m < d * q + d OBVIOUS
  <1> HIDE DEF q
  <1>2. CASE n <= q
    <2>1. n * d <= q * d BY <1>1, <1>2
    <2> QED BY <1>1, <1>2, <2>1 DEF q
  <1>3. CASE n >= q + 1
    <2>1. n * d >= (q + 1) * d BY <1>1, <1>3
    <2> QED BY <1>1, <1>3, <2>1 DEF q
  <1> QED BY <1>1, <1>2, <1>3

LEMMA OfferedIsAligned ==
    ASSUME NEW g \in Schedules, NEW t \in Int
    PROVE  t \in BuildSlotGrid(g) <=> IsSlotAligned(t, g)
  <1> DEFINE d == g.duration
             m == g.closes - g.opens - g.duration
  <1>1. d \in Nat \ {0} /\ g.opens \in Nat /\ g.closes \in Nat /\ m \in Int
    BY ScheduleType
  <1>2. ASSUME NEW n \in 0..(m \div d), t = g.opens + n * d PROVE IsSlotAligned(t, g)
    <2>1. n \in Int /\ 0 <= n /\ n <= m \div d BY <1>1, <1>2
    <2>2. n * d <= m BY <1>1, <2>1, FitsInside
    <2>3. t - g.opens = n * d BY <1>1, <1>2, <2>1
    <2>4. (t - g.opens) % d = 0 BY <1>1, <2>1, <2>3, MultipleLeavesNothing
    <2>5. n * d >= 0 BY <1>1, <2>1
    <2> QED BY <1>1, <2>2, <2>3, <2>4, <2>5 DEF IsSlotAligned
  <1>3. ASSUME IsSlotAligned(t, g) PROVE \E n \in 0..(m \div d) : t = g.opens + n * d
    <2>1. t - g.opens \in Int /\ (t - g.opens) % d = 0 /\ t - g.opens >= 0 /\ t - g.opens <= m
      BY <1>1, <1>3 DEF IsSlotAligned
    <2>2. PICK n \in Int : t - g.opens = d * n BY <1>1, <2>1, Quotient
    <2>3. n * d = t - g.opens BY <1>1, <2>2
    <2>4. n <= m \div d BY <1>1, <2>1, <2>3, FitsInside
    <2>5. n >= 0
      <3>1. CASE n <= -1
        <4>1. d * n <= -d BY <1>1, <3>1
        <4> QED BY <1>1, <2>1, <2>2, <4>1
      <3> QED BY <3>1
    <2>6. m \div d \in Int BY <1>1
    <2> QED BY <1>1, <2>3, <2>4, <2>5, <2>6
  <1> QED BY <1>2, <1>3 DEF BuildSlotGrid

\* slot-grid.ts: the grid offers exactly the start times that a claim is
\* accepted for, whatever the hours and the slot duration.
THEOREM OfferedClaimable == CourtGridSpec => []OfferedIsClaimable
  <1>1. ASSUME GridInv PROVE OfferedIsClaimable
    <2>1. schedule \in Schedules BY <1>1 DEF GridInv, CourtGridTypeOK
    <2>2. StartTimes \subseteq Int /\ 0..schedule.closes \subseteq Int
      BY <2>1, GridType, ScheduleType DEF StartTimes
    <2>3. BuildSlotGrid(schedule) \subseteq StartTimes BY <2>1 DEF StartTimes
    <2> QED BY <2>1, <2>2, <2>3, OfferedIsAligned DEF OfferedIsClaimable
  <1> QED BY <1>1, GridHolds, PTL

-----------------------------------------------------------------------------
(* PromoUse.  The witness of UserQuotaKept may be given back, so every set  *)
(* of a customer's redemptions needs one of its own: the last to come in.   *)
Bounded(c) ==
    \A S \in SUBSET ActiveOf(c) : S # {} => \E u \in S : Cardinality(S) <= agreed[u]

\* The row lock: one transaction has counted, and nothing is added meanwhile.
Counted ==
    /\ \A u, v \in Uses : asking[u] = "holding" /\ asking[v] = "holding" => u = v
    /\ \A u \in Uses : asking[u] = "holding" => WithinUserQuota(u)
    /\ \A u \in Uses : redeemed[u] \in {"reserved", "applied"} => asking[u] = "over"

PromoTyped ==
    /\ DOMAIN promo = {"total", "perUser", "used", "status", "valid", "version"}
    /\ promo.perUser \in Nat
    /\ redeemed \in [Uses -> {"none", "reserved", "applied", "released"}]
    /\ asking \in [Uses -> {"no", "evaluated", "checked", "holding", "over"}]
    /\ agreed \in [Uses -> Nat]
    /\ patching \in Edits \cup {NoEdit}

PromoInv ==
    PromoTyped /\ Counted /\ \A c \in {UserOf[u] : u \in Uses} \ {Guest} : Bounded(c)

LEMMA UsesCounted ==
    /\ Unlimited \in Nat
    /\ \A S \in SUBSET Uses :
          IsFiniteSet(S) /\ Cardinality(S) \in Nat /\ Cardinality(S) < Unlimited
  <1>1. Cardinality(Uses) \in Nat BY PromoUseAssumption, FS_CardinalityType
  <1>2. ASSUME NEW S \in SUBSET Uses
        PROVE  IsFiniteSet(S) /\ Cardinality(S) \in Nat /\ Cardinality(S) <= Cardinality(Uses)
    BY PromoUseAssumption, FS_Subset, FS_CardinalityType
  <1> QED BY <1>1, <1>2 DEF Unlimited

\* Redemptions that end or are applied, and edits of other things.
LEMMA ShrinkKeepsBounded ==
    ASSUME NEW c, Bounded(c), agreed' = agreed,
           \A u \in Uses : redeemed'[u] \in {"reserved", "applied"} =>
                               redeemed[u] \in {"reserved", "applied"}
    PROVE  Bounded(c)' /\ ActiveOf(c)' \subseteq ActiveOf(c)
  BY DEF Bounded, ActiveOf

LEMMA ShrinkKeepsCounted ==
    ASSUME PromoTyped, NEW u \in Uses, WithinUserQuota(u), promo'.perUser = promo.perUser,
           \A v \in Uses : redeemed'[v] \in {"reserved", "applied"} =>
                               redeemed[v] \in {"reserved", "applied"}
    PROVE  WithinUserQuota(u)'
  <1> DEFINE A == ActiveOf(UserOf[u])
             B == ActiveOf(UserOf[u])'
  <1>1. B \subseteq A /\ A \subseteq Uses BY DEF ActiveOf
  <1>2. Cardinality(B) <= Cardinality(A) /\ Cardinality(A) \in Nat /\ Cardinality(B) \in Nat
    BY <1>1, UsesCounted, FS_Subset
  <1>3. CASE UserOf[u] = Guest \/ promo.perUser = Unlimited
    BY <1>3 DEF WithinUserQuota
  <1>4. CASE Cardinality(A) + 1 <= promo.perUser
    <2>1. Cardinality(B) + 1 <= promo.perUser BY <1>2, <1>4 DEF PromoTyped
    <2> QED BY <2>1 DEF WithinUserQuota
  <1> QED BY <1>3, <1>4 DEF WithinUserQuota

LEMMA CommitKeepsBounded ==
    ASSUME PromoInv, NEW c \in {UserOf[u] : u \in Uses} \ {Guest}, NEW u \in Uses, CommitUse(u)
    PROVE  Bounded(c)'
  <1> DEFINE A == ActiveOf(c)
  <1>1. Bounded(c) /\ WithinUserQuota(u) /\ PromoTyped
    BY DEF PromoInv, Counted, CommitUse
  <1>2. agreed' = [agreed EXCEPT ![u] = promo.perUser]
    BY DEF CommitUse
  <1>3. \A v \in Uses \ {u} : redeemed'[v] = redeemed[v] /\ agreed'[v] = agreed[v]
    BY <1>1, <1>2 DEF CommitUse, PromoTyped
  <1>4. agreed'[u] = promo.perUser BY <1>1, <1>2 DEF PromoTyped
  <1>5. ActiveOf(c)' \subseteq A \cup {u} /\ (UserOf[u] # c => ActiveOf(c)' = A)
    BY <1>3 DEF ActiveOf
  <1>6. u \notin A BY DEF ActiveOf, PromoInv, Counted, CommitUse
  <1> SUFFICES ASSUME NEW S \in SUBSET ActiveOf(c)', S # {}
               PROVE  \E v \in S : Cardinality(S) <= agreed'[v]
    BY DEF Bounded
  <1>7. CASE u \notin S
    <2>1. S \subseteq A BY <1>5, <1>7
    <2>2. PICK v \in S : Cardinality(S) <= agreed[v] BY <1>1, <2>1 DEF Bounded
    <2>3. v \in Uses \ {u} BY <1>7, <2>1 DEF ActiveOf
    <2> QED BY <1>3, <2>2, <2>3
  <1>8. CASE u \in S
    <2>1. UserOf[u] = c /\ c # Guest BY <1>8 DEF ActiveOf
    <2>2. A \subseteq Uses /\ A \cup {u} \subseteq Uses BY DEF ActiveOf
    <2>3. IsFiniteSet(A) /\ Cardinality(A) \in Nat BY <2>2, UsesCounted
    <2>4. IsFiniteSet(A \cup {u}) /\ Cardinality(A \cup {u}) = Cardinality(A) + 1
      BY <1>6, <2>3, FS_AddElement
    <2>5. S \subseteq A \cup {u} BY <1>5
    <2>6. Cardinality(S) <= Cardinality(A) + 1 /\ Cardinality(S) \in Nat
          /\ Cardinality(S) < Unlimited
      BY <2>2, <2>4, <2>5, FS_Subset, UsesCounted
    <2>7. Cardinality(S) <= promo.perUser
      <3>1. CASE promo.perUser = Unlimited BY <2>6, <3>1, UsesCounted
      <3>2. CASE Cardinality(A) + 1 <= promo.perUser
        BY <1>1, <2>3, <2>6, <3>2 DEF PromoTyped
      <3> QED BY <1>1, <2>1, <3>1, <3>2 DEF WithinUserQuota
    <2> QED BY <1>4, <1>8, <2>7
  <1> QED BY <1>7, <1>8

\* The steps of createBooking before its commit: rows are as they were.
LEMMA AskStep ==
    ASSUME PromoInv, NEW u \in Uses,
           EvaluatePromo(u) \/ Precheck(u) \/ TakeQuota(u) \/ RollBackUse(u)
    PROVE  PromoInv'
  <1>1. UNCHANGED <<promo, redeemed, agreed, patching>>
    BY DEF EvaluatePromo, Precheck, TakeQuota, RollBackUse
  <1>2. \A v \in Uses \ {u} : asking'[v] = asking[v]
    BY DEF PromoInv, PromoTyped, EvaluatePromo, Precheck, TakeQuota, RollBackUse
  <1>3. asking' \in [Uses -> {"no", "evaluated", "checked", "holding", "over"}]
    BY DEF PromoInv, PromoTyped, EvaluatePromo, Precheck, TakeQuota, RollBackUse, Lost
  <1>4. \/ asking'[u] # "holding"
        \/ RowFree /\ WithinUserQuota(u)
    BY DEF PromoInv, PromoTyped, EvaluatePromo, Precheck, TakeQuota, RollBackUse, Lost
  <1>5. asking[u] = "over" => asking'[u] = "over"
    BY DEF PromoInv, PromoTyped, EvaluatePromo, Precheck, TakeQuota, RollBackUse
  <1>6. PromoTyped' BY <1>1, <1>3 DEF PromoInv, PromoTyped
  <1>7. Counted'
    <2>1. \A v \in Uses : WithinUserQuota(v)' = WithinUserQuota(v)
      BY <1>1 DEF WithinUserQuota, ActiveOf
    <2> QED BY <1>1, <1>2, <1>4, <1>5, <2>1 DEF PromoInv, Counted, RowFree
  <1>8. ASSUME NEW c PROVE Bounded(c)' = Bounded(c) BY <1>1 DEF Bounded, ActiveOf
  <1> QED BY <1>6, <1>7, <1>8 DEF PromoInv

LEMMA CommitStep ==
    ASSUME PromoInv, NEW u \in Uses, CommitUse(u)
    PROVE  PromoInv'
  <1>1. PromoTyped'
    BY DEF PromoInv, PromoTyped, CommitUse
  <1>2. \A v \in Uses \ {u} : asking'[v] = asking[v] /\ redeemed'[v] = redeemed[v]
    BY DEF PromoInv, PromoTyped, CommitUse
  <1>3. asking'[u] = "over" /\ \A v \in Uses : asking'[v] # "holding"
    BY DEF PromoInv, PromoTyped, Counted, CommitUse
  <1>4. Counted' BY <1>2, <1>3 DEF PromoInv, Counted
  <1> QED BY <1>1, <1>4, CommitKeepsBounded DEF PromoInv

\* Redemptions only leave, or become applied; quotas and requests stay.
LEMMA ReturnStep ==
    ASSUME PromoInv, PromoTyped', UNCHANGED <<asking, agreed>>, promo'.perUser = promo.perUser,
           \A v \in Uses : redeemed'[v] \in {"reserved", "applied"} =>
                               redeemed[v] \in {"reserved", "applied"}
    PROVE  PromoInv'
  <1>1. Counted' BY ShrinkKeepsCounted DEF PromoInv, Counted
  <1>2. \A c \in {UserOf[u] : u \in Uses} \ {Guest} : Bounded(c)'
    BY ShrinkKeepsBounded DEF PromoInv
  <1> QED BY <1>1, <1>2 DEF PromoInv

LEMMA GiveBackStep ==
    ASSUME PromoInv, NEW R \in SUBSET Uses, \A u \in R : redeemed[u] = "reserved",
           GiveBack(R) \/ (R = {} /\ UNCHANGED <<promo, redeemed>>),
           UNCHANGED <<asking, agreed, patching>>
    PROVE  PromoInv'
  <1>1. CASE GiveBack(R)
    <2>1. redeemed' = [u \in Uses |-> IF u \in R THEN "released" ELSE redeemed[u]]
      BY <1>1 DEF GiveBack
    <2>2. DOMAIN promo' = DOMAIN promo /\ promo'.perUser = promo.perUser
      BY <1>1 DEF GiveBack, PromoInv, PromoTyped
    <2>3. PromoTyped' BY <2>1, <2>2 DEF PromoInv, PromoTyped
    <2> QED BY <2>1, <2>2, <2>3, ReturnStep
  <1>2. CASE UNCHANGED <<promo, redeemed>>
    <2>1. PromoTyped' BY <1>2 DEF PromoInv, PromoTyped
    <2> QED BY <1>2, <2>1, ReturnStep
  <1> QED BY <1>1, <1>2

LEMMA EditStep ==
    ASSUME PromoInv, PatchPromo
    PROVE  PromoInv'
  <1>1. \A edit \in Edits : "perUser" \in DOMAIN edit => edit["perUser"] \in Nat
    <2>1. Quotas \subseteq Nat BY UsesCounted, PromoUseAssumption DEF Quotas, Unlimited
    <2>2. ASSUME NEW edit \in [perUser : Quotas] PROVE edit["perUser"] \in Nat BY <2>1
    <2>3. ASSUME NEW edit \in [total : Quotas] PROVE "perUser" \notin DOMAIN edit OBVIOUS
    <2>4. ASSUME NEW edit \in [valid : {TRUE}] PROVE "perUser" \notin DOMAIN edit OBVIOUS
    <2>5. ASSUME NEW edit \in [status : {"active", "paused"}] PROVE "perUser" \notin DOMAIN edit
      OBVIOUS
    <2> QED BY <2>2, <2>3, <2>4, <2>5 DEF Edits
  <1>2. promo'.perUser \in Nat /\ DOMAIN promo' = DOMAIN promo
    BY <1>1 DEF PatchPromo, PromoInv, PromoTyped
  <1>3. PromoTyped' BY <1>2 DEF PatchPromo, PromoInv, PromoTyped
  <1>4. Counted' BY DEF PatchPromo, RowFree, PromoInv, Counted
  <1>5. ASSUME NEW c PROVE Bounded(c)' = Bounded(c) BY DEF PatchPromo, Bounded, ActiveOf
  <1> QED BY <1>3, <1>4, <1>5 DEF PromoInv

LEMMA PromoStep == PromoInv /\ [PromoUseNext]_promoVars => PromoInv'
  <1> SUFFICES ASSUME PromoInv, [PromoUseNext]_promoVars PROVE PromoInv' OBVIOUS
  <1>1. ASSUME NEW u \in Uses,
               EvaluatePromo(u) \/ Precheck(u) \/ TakeQuota(u) \/ RollBackUse(u)
        PROVE  PromoInv'
    BY <1>1, AskStep
  <1>2. ASSUME NEW u \in Uses, CommitUse(u) PROVE PromoInv' BY <1>2, CommitStep
  <1>3. ASSUME NEW u \in Uses, ApplyRedemption(u) PROVE PromoInv'
    <2>1. PromoTyped' BY <1>3 DEF ApplyRedemption, PromoInv, PromoTyped
    <2>2. \A v \in Uses : redeemed'[v] \in {"reserved", "applied"} =>
                              redeemed[v] \in {"reserved", "applied"}
      BY <1>3 DEF ApplyRedemption, PromoInv, PromoTyped
    <2> QED BY <1>3, <2>1, <2>2, ReturnStep DEF ApplyRedemption
  <1>4. ASSUME NEW u \in Uses, ReleasePromo(u) PROVE PromoInv'
    BY <1>4, GiveBackStep DEF ReleasePromo
  <1>5. ASSUME NEW R \in SUBSET Uses, ReleaseExpiredReservations(R) PROVE PromoInv'
    BY <1>5, GiveBackStep DEF ReleaseExpiredReservations
  <1>6. CASE IncrCounter \/ DecrCounter \/ StoreCounter \/ LoseRefresh \/ LoseCounter
             \/ (\E edit \in Edits : ReadForPatch(edit)) \/ UNCHANGED promoVars
    <2>1. UNCHANGED <<promo, redeemed, asking, agreed>> /\ patching' \in Edits \cup {NoEdit}
      BY <1>6 DEF IncrCounter, DecrCounter, StoreCounter, LoseRefresh, LoseCounter,
                  ReadForPatch, promoVars, PromoInv, PromoTyped
    <2>2. PromoTyped' BY <2>1 DEF PromoInv, PromoTyped
    <2> QED BY <2>1, <2>2, ReturnStep
  <1>7. CASE EndValidity
    <2>1. promo'.perUser = promo.perUser /\ PromoTyped'
      BY <1>7 DEF EndValidity, PromoInv, PromoTyped
    <2> QED BY <1>7, <2>1, ReturnStep DEF EndValidity
  <1>8. CASE PatchPromo BY <1>8, EditStep
  <1> QED BY <1>1, <1>2, <1>3, <1>4, <1>5, <1>6, <1>7, <1>8 DEF PromoUseNext

LEMMA PromoStarts == PromoUseInit => PromoInv
  <1> SUFFICES ASSUME PromoUseInit PROVE PromoInv OBVIOUS
  <1>1. promo.perUser \in Nat BY UsesCounted, PromoUseAssumption DEF PromoUseInit, Quotas
  <1>2. PromoTyped BY <1>1 DEF PromoUseInit, PromoTyped
  <1>3. Counted BY DEF PromoUseInit, Counted
  <1>4. \A c : ActiveOf(c) = {} BY DEF PromoUseInit, ActiveOf
  <1> QED BY <1>2, <1>3, <1>4 DEF PromoInv, Bounded

\* 08 BR-PR-33: with any number of bookings at once, given back in any order,
\* and any edits of the promo, no customer has more redemptions in force than
\* one of them was allowed.
THEOREM UserQuota == PromoUseSpec => []UserQuotaKept
  <1>1. PromoInv => UserQuotaKept
    BY DEF PromoInv, Bounded, UserQuotaKept
  <1> QED BY <1>1, PromoStarts, PromoStep, PTL DEF PromoUseSpec

\* The transaction that holds the row has found room in it, and no edit gets
\* in between.
HolderHasRoom == \A u \in Uses : asking[u] = "holding" => Redeemable

InForce == {u \in Uses : redeemed[u] \in {"reserved", "applied"}}

UsedInv == HolderHasRoom /\ promo.used \in Nat /\ UsedIsExact

\* The row counts one redemption more when a use commits.
LEMMA CommitCounts ==
    ASSUME PromoInv, UsedInv, NEW u \in Uses, CommitUse(u)
    PROVE  UsedInv'
  <1>1. asking[u] = "holding" /\ u \notin InForce
    BY DEF PromoInv, Counted, CommitUse, InForce
  <1>2. InForce' = InForce \cup {u}
    BY DEF PromoInv, PromoTyped, CommitUse, InForce
  <1>3. IsFiniteSet(InForce) /\ InForce \subseteq Uses
    BY UsesCounted DEF InForce
  <1>4. Cardinality(InForce') = Cardinality(InForce) + 1
    BY <1>1, <1>2, <1>3, FS_AddElement
  <1>5. promo'.used = promo.used + 1
    BY DEF PromoInv, PromoTyped, CommitUse
  <1>6. \A v \in Uses : asking'[v] # "holding"
    BY DEF PromoInv, PromoTyped, Counted, CommitUse
  <1>7. promo.used \in Nat /\ promo.used = Cardinality(InForce)
    BY DEF UsedInv, UsedIsExact, InForce
  <1>8. promo'.used \in Nat /\ promo'.used = Cardinality(InForce')
    BY <1>4, <1>5, <1>7
  <1> QED BY <1>6, <1>8 DEF UsedInv, UsedIsExact, InForce, HolderHasRoom

\* ... and as many less as are given back at once: never below zero, so the
\* GREATEST(0, ...) of the statement hides nothing.
LEMMA GiveBackCounts ==
    ASSUME PromoInv, UsedInv, NEW R \in SUBSET Uses, \A u \in R : redeemed[u] = "reserved",
           GiveBack(R), asking' = asking
    PROVE  UsedInv'
  <1>1. redeemed' = [u \in Uses |-> IF u \in R THEN "released" ELSE redeemed[u]]
    BY DEF GiveBack
  <1>2. InForce' = InForce \ R /\ R \subseteq InForce
    BY <1>1 DEF InForce
  <1>3. IsFiniteSet(InForce) /\ Cardinality(InForce) \in Nat
    <2>1. InForce \in SUBSET Uses BY DEF InForce
    <2> QED BY <2>1, UsesCounted
  <1>4. IsFiniteSet(R) /\ Cardinality(R) \in Nat
    BY UsesCounted
  <1>5. Cardinality(R) <= Cardinality(InForce)
    BY <1>2, <1>3, FS_Subset
  <1>6. Cardinality(InForce \ R) = Cardinality(InForce) - Cardinality(InForce \cap R)
    BY <1>3, <1>4, FS_Difference
  <1>7. InForce \cap R = R
    BY <1>2
  <1>8. promo'.used = IF promo.used > Cardinality(R) THEN promo.used - Cardinality(R) ELSE 0
    BY DEF GiveBack, PromoInv, PromoTyped
  <1>9. promo.used \in Nat /\ promo.used = Cardinality(InForce)
    BY DEF UsedInv, UsedIsExact, InForce
  <1>10. Cardinality(InForce') = Cardinality(InForce) - Cardinality(R)
    BY <1>2, <1>6, <1>7
  <1>11. promo'.used \in Nat /\ promo'.used = Cardinality(InForce')
    BY <1>3, <1>4, <1>5, <1>8, <1>9, <1>10
  <1>12. HolderHasRoom'
    BY DEF GiveBack, RowFree, HolderHasRoom
  <1> QED BY <1>11, <1>12 DEF UsedInv, UsedIsExact, InForce

\* Whatever else changes the row waits for its lock and keeps the count.
LEMMA OthersKeepUsed ==
    ASSUME PromoInv, UsedInv, promo'.used = promo.used, InForce' = InForce,
           HolderHasRoom'
    PROVE  UsedInv'
  BY DEF UsedInv, UsedIsExact, InForce

LEMMA PatchKeepsUsed ==
    ASSUME PromoInv, PatchPromo
    PROVE  promo'.used = promo.used
  <1>1. patching \in Edits => "used" \notin DOMAIN patching
    <2>1. ASSUME NEW edit \in [total : Quotas] PROVE "used" \notin DOMAIN edit OBVIOUS
    <2>2. ASSUME NEW edit \in [perUser : Quotas] PROVE "used" \notin DOMAIN edit OBVIOUS
    <2>3. ASSUME NEW edit \in [valid : {TRUE}] PROVE "used" \notin DOMAIN edit OBVIOUS
    <2>4. ASSUME NEW edit \in [status : {"active", "paused"}] PROVE "used" \notin DOMAIN edit
      OBVIOUS
    <2> QED BY <2>1, <2>2, <2>3, <2>4 DEF Edits
  <1> QED BY <1>1 DEF PatchPromo, PromoInv, PromoTyped

LEMMA UsedStep == PromoInv /\ UsedInv /\ [PromoUseNext]_promoVars => UsedInv'
  <1> SUFFICES ASSUME PromoInv, UsedInv, [PromoUseNext]_promoVars PROVE UsedInv' OBVIOUS
  <1>1. ASSUME NEW u \in Uses,
               EvaluatePromo(u) \/ Precheck(u) \/ TakeQuota(u) \/ RollBackUse(u)
        PROVE  UsedInv'
    <2>1. UNCHANGED <<promo, redeemed>>
      BY <1>1 DEF EvaluatePromo, Precheck, TakeQuota, RollBackUse
    <2>2. \A v \in Uses \ {u} : asking'[v] = asking[v]
      BY <1>1 DEF PromoInv, PromoTyped, EvaluatePromo, Precheck, TakeQuota, RollBackUse
    <2>3. asking'[u] = "holding" => Redeemable
      BY <1>1 DEF PromoInv, PromoTyped, EvaluatePromo, Precheck, TakeQuota, RollBackUse, Lost
    <2>4. HolderHasRoom'
      BY <2>1, <2>2, <2>3 DEF UsedInv, HolderHasRoom, Redeemable
    <2> QED BY <2>1, <2>4, OthersKeepUsed DEF InForce
  <1>2. ASSUME NEW u \in Uses, CommitUse(u) PROVE UsedInv'
    BY <1>2, CommitCounts
  <1>3. ASSUME NEW u \in Uses, ApplyRedemption(u) PROVE UsedInv'
    <2>1. InForce' = InForce
      BY <1>3 DEF ApplyRedemption, InForce, PromoInv, PromoTyped
    <2>2. UNCHANGED <<promo, asking>>
      BY <1>3 DEF ApplyRedemption
    <2>3. HolderHasRoom'
      BY <2>2 DEF UsedInv, HolderHasRoom, Redeemable
    <2> QED BY <2>1, <2>2, <2>3, OthersKeepUsed
  <1>4. ASSUME NEW u \in Uses, ReleasePromo(u) PROVE UsedInv'
    BY <1>4, GiveBackCounts DEF ReleasePromo
  <1>5. ASSUME NEW R \in SUBSET Uses, ReleaseExpiredReservations(R) PROVE UsedInv'
    <2>1. CASE R = {}
      <3>1. UNCHANGED <<promo, redeemed, asking>>
        BY <1>5, <2>1 DEF ReleaseExpiredReservations
      <3>2. HolderHasRoom'
        BY <3>1 DEF UsedInv, HolderHasRoom, Redeemable
      <3> QED BY <3>1, <3>2, OthersKeepUsed DEF InForce
    <2>2. CASE R # {}
      BY <1>5, <2>2, GiveBackCounts DEF ReleaseExpiredReservations
    <2> QED BY <2>1, <2>2
  <1>6. CASE IncrCounter \/ DecrCounter \/ StoreCounter \/ LoseRefresh \/ LoseCounter
             \/ (\E edit \in Edits : ReadForPatch(edit)) \/ UNCHANGED promoVars
    <2>1. UNCHANGED <<promo, redeemed, asking>>
      BY <1>6 DEF IncrCounter, DecrCounter, StoreCounter, LoseRefresh, LoseCounter,
                  ReadForPatch, promoVars
    <2>2. HolderHasRoom'
      BY <2>1 DEF UsedInv, HolderHasRoom, Redeemable
    <2> QED BY <2>1, <2>2, OthersKeepUsed DEF InForce
  <1>7. CASE EndValidity \/ PatchPromo
    <2>1. promo'.used = promo.used
      BY <1>7, PatchKeepsUsed DEF EndValidity, PromoInv, PromoTyped
    <2>2. HolderHasRoom' /\ UNCHANGED redeemed
      BY <1>7 DEF EndValidity, PatchPromo, RowFree, HolderHasRoom
    <2> QED BY <2>1, <2>2, OthersKeepUsed DEF InForce
  <1> QED BY <1>1, <1>2, <1>3, <1>4, <1>5, <1>6, <1>7 DEF PromoUseNext

LEMMA UsedHolds == PromoUseSpec => [](PromoInv /\ UsedInv)
  <1>1. PromoUseInit => UsedInv
    <2>1. PromoUseInit => InForce = {} /\ promo.used = 0
      BY DEF PromoUseInit, InForce
    <2>2. PromoUseInit => HolderHasRoom
      BY DEF PromoUseInit, HolderHasRoom
    <2> QED BY <2>1, <2>2, FS_EmptySet DEF UsedInv, UsedIsExact, InForce
  <1> QED BY <1>1, PromoStarts, PromoStep, UsedStep, PTL DEF PromoUseSpec

\* quota_used is the number of redemptions in force, with any number of
\* bookings, releases and edits at once.
THEOREM UsedCountsExactly == PromoUseSpec => []UsedIsExact
  <1>1. UsedInv => UsedIsExact BY DEF UsedInv
  <1> QED BY <1>1, UsedHolds, PTL

\* The only step that raises quota_used is the commit of a use that found the
\* promo active, valid and below its quota, and it still is.
THEOREM UseWithinQuota == PromoUseSpec => AddedWithinQuota
  <1>1. PromoInv /\ UsedInv /\ [PromoUseNext]_promoVars =>
          [promo'.used > promo.used => Redeemable /\ promo'.total = promo.total]_promoVars
    <2> SUFFICES ASSUME PromoInv, UsedInv, PromoUseNext, promo'.used > promo.used
                 PROVE  Redeemable /\ promo'.total = promo.total
      OBVIOUS
    <2>0. promo.used \in Nat BY DEF UsedInv
    <2>1. ASSUME NEW u \in Uses, CommitUse(u) PROVE Redeemable /\ promo'.total = promo.total
      BY <2>1 DEF CommitUse, UsedInv, HolderHasRoom, PromoInv, PromoTyped
    <2>2. ASSUME NEW R \in SUBSET Uses, GiveBack(R) PROVE FALSE
      <3>1. Cardinality(R) \in Nat BY UsesCounted
      <3>2. promo'.used = IF promo.used > Cardinality(R) THEN promo.used - Cardinality(R) ELSE 0
        BY <2>2 DEF GiveBack, PromoInv, PromoTyped
      <3> QED BY <2>0, <3>1, <3>2
    <2>3. CASE EndValidity \/ PatchPromo
      BY <2>0, <2>3, PatchKeepsUsed DEF EndValidity, PromoInv, PromoTyped
    <2>4. CASE promo' = promo
      BY <2>0, <2>4
    <2> QED BY <2>1, <2>2, <2>3, <2>4
            DEF PromoUseNext, EvaluatePromo, Precheck, TakeQuota, RollBackUse, ApplyRedemption,
                ReleasePromo, ReleaseExpiredReservations, IncrCounter, DecrCounter,
                StoreCounter, LoseRefresh, LoseCounter, ReadForPatch
  <1> QED BY <1>1, UsedHolds, PTL DEF PromoUseSpec, AddedWithinQuota

-----------------------------------------------------------------------------
(* The e-mail outbox.  Before the provider is asked, every copy that it has *)
(* taken was followed by a death, or the row would not be sent again; the   *)
(* one that it has just taken may be the one beyond.                        *)
EmailFlags == address \in BOOLEAN /\ recording \in BOOLEAN

EmailPlaces ==
    /\ outbox \in {"none", "queued", "sent", "failed", "skipped"}
    /\ emailJob \in JobStates
    /\ sending \in {"idle", "read", "accepted"}
    /\ emailJob \in Running => sending # "idle"
    /\ sending # "idle" => emailJob \in Running

EmailCounts ==
    /\ events \in 0..MaxEvents /\ toNotify \in 0..1 /\ attempts \in 0..MaxAttempts
    /\ handedOver \in Nat /\ breaks \in 0..MaxBreaks

AttemptsLeft == emailJob # "none" /\ emailJob # "ended" => attempts < MaxAttempts

BeforeTheRow == outbox = "none" => emailJob = "none" /\ toNotify = 0 /\ recording = FALSE

CopiesPaid ==
    /\ sending = "read" => handedOver <= breaks
    /\ (outbox = "none" \/ outbox = "queued") /\ sending # "accepted" => handedOver <= breaks
    /\ handedOver <= 1 + breaks

EmailInv ==
    EmailFlags /\ EmailPlaces /\ EmailCounts /\ AttemptsLeft /\ BeforeTheRow /\ CopiesPaid

LEMMA EmailStep == EmailInv /\ [EmailNext]_emailVars => EmailInv'
  <1> SUFFICES ASSUME EmailInv, [EmailNext]_emailVars PROVE EmailInv' OBVIOUS
  <1> USE DEF EmailInv
  <1>bounds. MaxAttempts \in Nat \ {0} /\ MaxEvents \in Nat \ {0} /\ MaxBreaks \in Nat
    BY EmailAssumption DEF EmailAssumption
  <1>job. /\ emailJob = "none" \/ emailJob = "ended" => sending = "idle"
          /\ sending # "idle" => emailJob # "none" /\ emailJob # "ended"
          /\ emailJob \in Waiting =>
               sending = "idle" /\ emailJob # "none" /\ emailJob # "ended"
    BY DEF EmailPlaces, Running, Waiting, JobStates
  <1>1. CASE WriteEmailNotification
    <2>1. EmailFlags' BY <1>1 DEF WriteEmailNotification, EmailFlags
    <2>2. EmailPlaces'
      BY <1>1 DEF WriteEmailNotification, EmailPlaces, JobStates, Waiting, Running
    <2>3. EmailCounts'
      BY <1>1, <1>bounds, <1>job DEF WriteEmailNotification, EmailCounts, BeforeTheRow
    <2>4. AttemptsLeft' BY <1>1, <1>bounds, <1>job DEF WriteEmailNotification, AttemptsLeft
    <2>5. BeforeTheRow'
      BY <1>1, <1>job DEF WriteEmailNotification, BeforeTheRow, EmailCounts
    <2>6. CopiesPaid' BY <1>1, <1>job DEF WriteEmailNotification, EmailCounts, CopiesPaid
    <2> QED BY <2>1, <2>2, <2>3, <2>4, <2>5, <2>6
  <1>2. CASE EnqueueEmailNotification
    <2>1. EmailFlags' BY <1>2 DEF EnqueueEmailNotification, AddEmailJob, EmailFlags
    <2>2. EmailPlaces'
      BY <1>2
         DEF EnqueueEmailNotification, AddEmailJob, EmailPlaces, JobStates,
             Waiting, Running
    <2>3. EmailCounts'
      BY <1>2, <1>bounds, <1>job
         DEF EnqueueEmailNotification, AddEmailJob, EmailCounts, BeforeTheRow
    <2>4. AttemptsLeft'
      BY <1>2, <1>bounds, <1>job DEF EnqueueEmailNotification, AddEmailJob, AttemptsLeft
    <2>5. BeforeTheRow'
      BY <1>2, <1>job DEF EnqueueEmailNotification, AddEmailJob, BeforeTheRow, EmailCounts
    <2>6. CopiesPaid'
      BY <1>2, <1>job DEF EnqueueEmailNotification, AddEmailJob, EmailCounts, CopiesPaid
    <2> QED BY <2>1, <2>2, <2>3, <2>4, <2>5, <2>6
  <1>3. CASE LoseNotification
    <2>1. EmailFlags' BY <1>3 DEF LoseNotification, EmailFlags
    <2>2. EmailPlaces'
      BY <1>3 DEF LoseNotification, EmailPlaces, JobStates, Waiting, Running
    <2>3. EmailCounts'
      BY <1>3, <1>bounds, <1>job DEF LoseNotification, EmailCounts, BeforeTheRow
    <2>4. AttemptsLeft' BY <1>3, <1>bounds, <1>job DEF LoseNotification, AttemptsLeft
    <2>5. BeforeTheRow' BY <1>3, <1>job DEF LoseNotification, BeforeTheRow, EmailCounts
    <2>6. CopiesPaid' BY <1>3, <1>job DEF LoseNotification, EmailCounts, CopiesPaid
    <2> QED BY <2>1, <2>2, <2>3, <2>4, <2>5, <2>6
  <1>4. CASE RetryStuckNotifications
    <2>1. EmailFlags' BY <1>4 DEF RetryStuckNotifications, AddEmailJob, StuckRow, EmailFlags
    <2>2. EmailPlaces'
      BY <1>4
         DEF RetryStuckNotifications, AddEmailJob, StuckRow, EmailPlaces,
             JobStates, Waiting, Running
    <2>3. EmailCounts'
      BY <1>4, <1>bounds, <1>job
         DEF RetryStuckNotifications, AddEmailJob, StuckRow, EmailCounts,
             BeforeTheRow
    <2>4. AttemptsLeft'
      BY <1>4, <1>bounds, <1>job
         DEF RetryStuckNotifications, AddEmailJob, StuckRow, AttemptsLeft
    <2>5. BeforeTheRow'
      BY <1>4, <1>job DEF RetryStuckNotifications, AddEmailJob, StuckRow, BeforeTheRow
    <2>6. CopiesPaid'
      BY <1>4, <1>job
         DEF RetryStuckNotifications, AddEmailJob, StuckRow, EmailCounts,
             CopiesPaid
    <2> QED BY <2>1, <2>2, <2>3, <2>4, <2>5, <2>6
  <1>5. CASE ChangeAddress
    <2>1. EmailFlags' BY <1>5 DEF ChangeAddress, EmailFlags
    <2>2. EmailPlaces' BY <1>5 DEF ChangeAddress, EmailPlaces, JobStates, Waiting, Running
    <2>3. EmailCounts' BY <1>5, <1>bounds, <1>job DEF ChangeAddress, EmailCounts
    <2>4. AttemptsLeft' BY <1>5, <1>bounds, <1>job DEF ChangeAddress, AttemptsLeft
    <2>5. BeforeTheRow' BY <1>5, <1>job DEF ChangeAddress, BeforeTheRow
    <2>6. CopiesPaid' BY <1>5, <1>job DEF ChangeAddress, EmailCounts, CopiesPaid
    <2> QED BY <2>1, <2>2, <2>3, <2>4, <2>5, <2>6
  <1>6. CASE StartSendEmail
    <2>1. EmailFlags' BY <1>6 DEF StartSendEmail, Sendable, EmailFlags
    <2>2. EmailPlaces'
      BY <1>6 DEF StartSendEmail, Sendable, EmailPlaces, JobStates, Waiting, Running
    <2>3. EmailCounts' BY <1>6, <1>bounds, <1>job DEF StartSendEmail, Sendable, EmailCounts
    <2>4. AttemptsLeft'
      BY <1>6, <1>bounds, <1>job DEF StartSendEmail, Sendable, AttemptsLeft, Waiting
    <2>5. BeforeTheRow' BY <1>6, <1>job DEF StartSendEmail, Sendable, BeforeTheRow
    <2>6. CopiesPaid' BY <1>6, <1>job DEF StartSendEmail, Sendable, EmailCounts, CopiesPaid
    <2> QED BY <2>1, <2>2, <2>3, <2>4, <2>5, <2>6
  <1>7. CASE ProviderAccepts
    <2>1. EmailFlags' BY <1>7 DEF ProviderAccepts, EmailFlags
    <2>2. EmailPlaces' BY <1>7 DEF ProviderAccepts, EmailPlaces, JobStates, Waiting, Running
    <2>3. EmailCounts' BY <1>7, <1>bounds, <1>job DEF ProviderAccepts, EmailCounts
    <2>4. AttemptsLeft' BY <1>7, <1>bounds, <1>job DEF ProviderAccepts, AttemptsLeft
    <2>5. BeforeTheRow' BY <1>7, <1>job DEF ProviderAccepts, BeforeTheRow
    <2>6. CopiesPaid' BY <1>7, <1>job DEF ProviderAccepts, EmailCounts, CopiesPaid
    <2> QED BY <2>1, <2>2, <2>3, <2>4, <2>5, <2>6
  <1>8. CASE MarkNotificationSent
    <2>1. EmailFlags' BY <1>8 DEF MarkNotificationSent, EmailFlags
    <2>2. EmailPlaces'
      BY <1>8 DEF MarkNotificationSent, EmailPlaces, JobStates, Waiting, Running
    <2>3. EmailCounts' BY <1>8, <1>bounds, <1>job DEF MarkNotificationSent, EmailCounts
    <2>4. AttemptsLeft' BY <1>8, <1>bounds, <1>job DEF MarkNotificationSent, AttemptsLeft
    <2>5. BeforeTheRow' BY <1>8, <1>job DEF MarkNotificationSent, BeforeTheRow
    <2>6. CopiesPaid'
      BY <1>8, <1>job DEF MarkNotificationSent, EmailCounts, CopiesPaid, BeforeTheRow
    <2> QED BY <2>1, <2>2, <2>3, <2>4, <2>5, <2>6
  <1>9. CASE ProviderRefuses
    <2>1. EmailFlags' BY <1>9 DEF ProviderRefuses, EmailFlags
    <2>2. EmailPlaces' BY <1>9 DEF ProviderRefuses, EmailPlaces, JobStates, Waiting, Running
    <2>3. EmailCounts'
      BY <1>9, <1>bounds, <1>job DEF ProviderRefuses, EmailCounts, AttemptsLeft
    <2>4. AttemptsLeft'
      BY <1>9, <1>bounds, <1>job DEF ProviderRefuses, AttemptsLeft, EmailCounts
    <2>5. BeforeTheRow' BY <1>9, <1>job DEF ProviderRefuses, BeforeTheRow
    <2>6. CopiesPaid' BY <1>9, <1>job DEF ProviderRefuses, EmailCounts, CopiesPaid
    <2> QED BY <2>1, <2>2, <2>3, <2>4, <2>5, <2>6
  <1>10. CASE RecordEmailDeliveryFailure
    <2>1. EmailFlags' BY <1>10 DEF RecordEmailDeliveryFailure, EmailFlags
    <2>2. EmailPlaces'
      BY <1>10 DEF RecordEmailDeliveryFailure, EmailPlaces, JobStates, Waiting, Running
    <2>3. EmailCounts'
      BY <1>10, <1>bounds, <1>job DEF RecordEmailDeliveryFailure, EmailCounts
    <2>4. AttemptsLeft'
      BY <1>10, <1>bounds, <1>job DEF RecordEmailDeliveryFailure, AttemptsLeft
    <2>5. BeforeTheRow' BY <1>10, <1>job DEF RecordEmailDeliveryFailure, BeforeTheRow
    <2>6. CopiesPaid'
      BY <1>10, <1>job DEF RecordEmailDeliveryFailure, EmailCounts, CopiesPaid
    <2> QED BY <2>1, <2>2, <2>3, <2>4, <2>5, <2>6
  <1>11. CASE WorkerDies
    <2>1. EmailFlags' BY <1>11 DEF WorkerDies, EmailFlags
    <2>2. EmailPlaces' BY <1>11 DEF WorkerDies, EmailPlaces, JobStates, Running
    <2>3. /\ breaks < MaxBreaks /\ breaks' = breaks + 1 /\ sending' = "idle"
          /\ UNCHANGED <<outbox, events, toNotify, attempts, handedOver>>
      BY <1>11 DEF WorkerDies
    <2>4. EmailCounts' BY <1>bounds, <2>3 DEF EmailCounts
    <2>5. AttemptsLeft' BY <1>11, <1>job DEF WorkerDies, AttemptsLeft
    <2>6. BeforeTheRow' BY <1>11 DEF WorkerDies, BeforeTheRow
    <2>7. CopiesPaid' BY <2>3 DEF EmailCounts, CopiesPaid
    <2> QED BY <2>1, <2>2, <2>4, <2>5, <2>6, <2>7
  <1>12. CASE EvictEmailJob
    <2>1. EmailFlags' BY <1>12 DEF EvictEmailJob, EmailFlags
    <2>2. EmailPlaces' BY <1>12 DEF EvictEmailJob, EmailPlaces, JobStates, Waiting, Running
    <2>3. EmailCounts' BY <1>12, <1>bounds, <1>job DEF EvictEmailJob, EmailCounts
    <2>4. AttemptsLeft' BY <1>12, <1>bounds, <1>job DEF EvictEmailJob, AttemptsLeft
    <2>5. BeforeTheRow' BY <1>12, <1>job DEF EvictEmailJob, BeforeTheRow
    <2>6. CopiesPaid' BY <1>12, <1>job DEF EvictEmailJob, EmailCounts, CopiesPaid
    <2> QED BY <2>1, <2>2, <2>3, <2>4, <2>5, <2>6
  <1>13. CASE UNCHANGED emailVars
    BY <1>13 DEF emailVars, EmailFlags, EmailPlaces, EmailCounts, AttemptsLeft, BeforeTheRow,
                 CopiesPaid
  <1> QED BY <1>1, <1>2, <1>3, <1>4, <1>5, <1>6, <1>7, <1>8, <1>9, <1>10, <1>11, <1>12, <1>13
          DEF EmailNext

\* 02 J-25: with any number of events, sweeps, attempts and deaths, an e-mail is
\* handed over once and once more per process that died.
THEOREM HandedOverOnce == EmailInit /\ [][EmailNext]_emailVars => []SentTwiceOnlyByCrash
  <1>1. EmailInit => EmailInv
    <2> SUFFICES ASSUME EmailInit PROVE EmailInv OBVIOUS
    <2>1. EmailFlags BY DEF EmailInit, EmailFlags
    <2>2. EmailPlaces BY DEF EmailInit, EmailPlaces, JobStates, Running
    <2>3. EmailCounts BY EmailAssumption DEF EmailInit, EmailCounts, EmailAssumption
    <2>4. AttemptsLeft /\ BeforeTheRow /\ CopiesPaid
      BY DEF EmailInit, AttemptsLeft, BeforeTheRow, CopiesPaid
    <2> QED BY <2>1, <2>2, <2>3, <2>4 DEF EmailInv
  <1>2. EmailInv => SentTwiceOnlyByCrash BY DEF EmailInv, CopiesPaid, SentTwiceOnlyByCrash
  <1> QED BY <1>1, <1>2, EmailStep, PTL

-----------------------------------------------------------------------------
(* Media files.  A sweep and a deletion hide the row before they remove its *)
(* object, and what a confirmation in flight may still turn ready has its   *)
(* object: the sweep shows a row again only when the storage kept it.       *)
RowHidden == sweep.step = "claimed" \/ sweep.step = "removed" \/ sweep.step = "refused"

Confirmable ==
    \/ media = "pending"
    \/ (sweep.step = "claimed" \/ sweep.step = "refused") /\ sweep.was = "pending"

SweepHides ==
    /\ sweep.step # "idle" => sweep.was # "new"
    /\ RowHidden \/ (sweep.step = "listed" /\ sweep.was = "deleted") => media = "deleted"
    /\ deleteRequest = "marked" =>
         /\ media = "deleted" \/ media = "gone"
         /\ RowHidden => sweep.was = "deleted"

ObjectSeen ==
    /\ media = "new" => confirming = {}
    /\ Confirmable /\ confirming # {} => object \/ doubtful
    /\ ReadyHasObject

MediaInv == MediaTypeOK /\ SweepHides /\ ObjectSeen

LEMMA MediaStep == MediaInv /\ [MediaNext]_mediaVars => MediaInv'
  <1> SUFFICES ASSUME MediaInv, [MediaNext]_mediaVars PROVE MediaInv' OBVIOUS
  <1> USE DEF MediaInv
  <1>1. CASE PresignMediaUpload
    <2>1. MediaTypeOK' BY <1>1 DEF PresignMediaUpload, MediaTypeOK, NoSweep, SweepSteps
    <2>2. SweepHides'
      BY <1>1 DEF PresignMediaUpload, SweepHides, RowHidden, MediaTypeOK, NoSweep
    <2>3. ObjectSeen'
      BY <1>1
         DEF PresignMediaUpload, SweepHides, ObjectSeen, RowHidden, Confirmable,
             ReadyHasObject, MediaTypeOK, NoSweep
    <2> QED BY <2>1, <2>2, <2>3
  <1>2. CASE DeletePendingMedia
    <2>1. MediaTypeOK' BY <1>2 DEF DeletePendingMedia, MediaTypeOK, NoSweep, SweepSteps
    <2>2. SweepHides'
      BY <1>2 DEF DeletePendingMedia, SweepHides, RowHidden, MediaTypeOK, NoSweep
    <2>3. ObjectSeen'
      BY <1>2
         DEF DeletePendingMedia, SweepHides, ObjectSeen, RowHidden, Confirmable,
             ReadyHasObject, MediaTypeOK, NoSweep
    <2> QED BY <2>1, <2>2, <2>3
  <1>3. CASE Upload
    <2>1. MediaTypeOK' BY <1>3 DEF Upload, MediaTypeOK, NoSweep, SweepSteps
    <2>2. SweepHides' BY <1>3 DEF Upload, SweepHides, RowHidden, MediaTypeOK, NoSweep
    <2>3. ObjectSeen'
      BY <1>3
         DEF Upload, SweepHides, ObjectSeen, RowHidden, Confirmable,
             ReadyHasObject, MediaTypeOK, NoSweep
    <2> QED BY <2>1, <2>2, <2>3
  <1>4. CASE UrlExpires
    <2>1. MediaTypeOK' BY <1>4 DEF UrlExpires, MediaTypeOK, NoSweep, SweepSteps
    <2>2. SweepHides' BY <1>4 DEF UrlExpires, SweepHides, RowHidden, MediaTypeOK, NoSweep
    <2>3. ObjectSeen'
      BY <1>4
         DEF UrlExpires, SweepHides, ObjectSeen, RowHidden, Confirmable,
             ReadyHasObject, MediaTypeOK, NoSweep
    <2> QED BY <2>1, <2>2, <2>3
  <1>5. CASE GrowOld
    <2>1. MediaTypeOK' BY <1>5 DEF GrowOld, MediaTypeOK, NoSweep, SweepSteps
    <2>2. SweepHides' BY <1>5 DEF GrowOld, SweepHides, RowHidden, MediaTypeOK, NoSweep
    <2>3. ObjectSeen'
      BY <1>5
         DEF GrowOld, SweepHides, ObjectSeen, RowHidden, Confirmable,
             ReadyHasObject, MediaTypeOK, NoSweep
    <2> QED BY <2>1, <2>2, <2>3
  <1>6. ASSUME NEW c \in Confirmers, HeadObject(c) PROVE MediaInv'
    <2>1. MediaTypeOK' BY <1>6 DEF HeadObject, MediaTypeOK, NoSweep, SweepSteps
    <2>2. SweepHides' BY <1>6 DEF HeadObject, SweepHides, RowHidden, MediaTypeOK, NoSweep
    <2>3. ObjectSeen'
      BY <1>6
         DEF HeadObject, SweepHides, ObjectSeen, RowHidden, Confirmable,
             ReadyHasObject, MediaTypeOK, NoSweep
    <2> QED BY <2>1, <2>2, <2>3
  <1>7. ASSUME NEW c \in Confirmers, MarkMediaReady(c) PROVE MediaInv'
    <2>1. MediaTypeOK' BY <1>7 DEF MarkMediaReady, MediaTypeOK, NoSweep, SweepSteps
    <2>2. SweepHides'
      BY <1>7 DEF MarkMediaReady, SweepHides, RowHidden, MediaTypeOK, NoSweep
    <2>3. ObjectSeen'
      BY <1>7
         DEF MarkMediaReady, SweepHides, ObjectSeen, RowHidden, Confirmable,
             ReadyHasObject, MediaTypeOK, NoSweep
    <2> QED BY <2>1, <2>2, <2>3
  <1>8. CASE MarkMediaDeleted
    <2>1. MediaTypeOK' BY <1>8 DEF MarkMediaDeleted, MediaTypeOK, NoSweep, SweepSteps
    <2>2. SweepHides'
      BY <1>8 DEF MarkMediaDeleted, SweepHides, RowHidden, MediaTypeOK, NoSweep
    <2>3. ObjectSeen'
      BY <1>8
         DEF MarkMediaDeleted, SweepHides, ObjectSeen, RowHidden, Confirmable,
             ReadyHasObject, MediaTypeOK, NoSweep
    <2> QED BY <2>1, <2>2, <2>3
  <1>9. CASE DeleteObject
    <2>1. MediaTypeOK' BY <1>9 DEF DeleteObject, MediaTypeOK, NoSweep, SweepSteps
    <2>2. SweepHides' BY <1>9 DEF DeleteObject, SweepHides, RowHidden, MediaTypeOK, NoSweep
    <2>3. ObjectSeen'
      BY <1>9
         DEF DeleteObject, SweepHides, ObjectSeen, RowHidden, Confirmable,
             ReadyHasObject, MediaTypeOK, NoSweep
    <2> QED BY <2>1, <2>2, <2>3
  <1>10. CASE ListMediaCleanupCandidates
    <2>1. MediaTypeOK'
      BY <1>10
         DEF ListMediaCleanupCandidates, CleanupCandidate, MediaTypeOK, NoSweep,
             SweepSteps
    <2>2. SweepHides'
      BY <1>10
         DEF ListMediaCleanupCandidates, CleanupCandidate, SweepHides, RowHidden,
             MediaTypeOK, NoSweep
    <2>3. ObjectSeen'
      BY <1>10
         DEF ListMediaCleanupCandidates, CleanupCandidate, SweepHides, ObjectSeen,
             RowHidden, Confirmable, ReadyHasObject, MediaTypeOK, NoSweep
    <2> QED BY <2>1, <2>2, <2>3
  <1>11. CASE ClaimForCleanup
    <2>1. MediaTypeOK'
      BY <1>11
         DEF ClaimForCleanup, SweepTo, StatusWhileRemoved, MediaTypeOK, NoSweep,
             SweepSteps
    <2>2. SweepHides'
      BY <1>11
         DEF ClaimForCleanup, SweepTo, StatusWhileRemoved, SweepHides, RowHidden,
             MediaTypeOK, NoSweep
    <2>3. ObjectSeen'
      BY <1>11
         DEF ClaimForCleanup, SweepTo, StatusWhileRemoved, SweepHides, ObjectSeen,
             RowHidden, Confirmable, ReadyHasObject, MediaTypeOK, NoSweep
    <2> QED BY <2>1, <2>2, <2>3
  <1>12. CASE SweepObject
    <2>1. MediaTypeOK' BY <1>12 DEF SweepObject, SweepTo, MediaTypeOK, NoSweep, SweepSteps
    <2>2. SweepHides'
      BY <1>12 DEF SweepObject, SweepTo, SweepHides, RowHidden, MediaTypeOK, NoSweep
    <2>3. ObjectSeen'
      BY <1>12
         DEF SweepObject, SweepTo, SweepHides, ObjectSeen, RowHidden, Confirmable,
             ReadyHasObject, MediaTypeOK, NoSweep
    <2> QED BY <2>1, <2>2, <2>3
  <1>13. CASE PermanentlyDeleteMedia
    <2>1. MediaTypeOK' BY <1>13 DEF PermanentlyDeleteMedia, MediaTypeOK, NoSweep, SweepSteps
    <2>2. SweepHides'
      BY <1>13 DEF PermanentlyDeleteMedia, SweepHides, RowHidden, MediaTypeOK, NoSweep
    <2>3. ObjectSeen'
      BY <1>13
         DEF PermanentlyDeleteMedia, SweepHides, ObjectSeen, RowHidden,
             Confirmable, ReadyHasObject, MediaTypeOK, NoSweep
    <2> QED BY <2>1, <2>2, <2>3
  <1>14. CASE RestoreMediaPending
    <2>1. MediaTypeOK' BY <1>14 DEF RestoreMediaPending, MediaTypeOK, NoSweep, SweepSteps
    <2>2. SweepHides'
      BY <1>14 DEF RestoreMediaPending, SweepHides, RowHidden, MediaTypeOK, NoSweep
    <2>3. ObjectSeen'
      BY <1>14
         DEF RestoreMediaPending, SweepHides, ObjectSeen, RowHidden, Confirmable,
             ReadyHasObject, MediaTypeOK, NoSweep
    <2> QED BY <2>1, <2>2, <2>3
  <1>15. CASE Crash
    <2>1. MediaTypeOK' BY <1>15 DEF Crash, MediaTypeOK, NoSweep, SweepSteps
    <2>2. SweepHides' BY <1>15 DEF Crash, SweepHides, RowHidden, MediaTypeOK, NoSweep
    <2>3. ObjectSeen'
      BY <1>15
         DEF Crash, SweepHides, ObjectSeen, RowHidden, Confirmable, ReadyHasObject,
             MediaTypeOK, NoSweep
    <2> QED BY <2>1, <2>2, <2>3
  <1>16. CASE UNCHANGED mediaVars
    BY <1>16 DEF mediaVars, MediaTypeOK, SweepHides, ObjectSeen, RowHidden, Confirmable,
                 ReadyHasObject
  <1> QED BY <1>1, <1>2, <1>3, <1>4, <1>5, <1>6, <1>7, <1>8, <1>9, <1>10, <1>11, <1>12, <1>13,
             <1>14, <1>15, <1>16 DEF MediaNext, SweepStep

\* 02 J-32: with any number of confirmations in flight, whatever the storage
\* refuses and wherever the process dies, a file shown as ready has its object.
THEOREM ReadyStored == MediaInit /\ [][MediaNext]_mediaVars => []ReadyHasObject
  <1>1. MediaInit => MediaInv
    <2> SUFFICES ASSUME MediaInit PROVE MediaInv OBVIOUS
    <2>1. sweep.step = "idle" BY DEF MediaInit, NoSweep
    <2>2. MediaTypeOK BY DEF MediaInit, MediaTypeOK, NoSweep, SweepSteps
    <2> QED BY <2>1, <2>2
            DEF MediaInit, MediaInv, SweepHides, ObjectSeen, RowHidden, Confirmable,
                ReadyHasObject
  <1>2. MediaInv => ReadyHasObject BY DEF MediaInv, ObjectSeen
  <1> QED BY <1>1, <1>2, MediaStep, PTL

-----------------------------------------------------------------------------
(* Prices.  The sort keys of a rule, compared one after the other.          *)
KeysBefore(a, b) ==
    \E i \in 1..6 : a[i] < b[i] /\ \A j \in 1..(i - 1) : a[j] = b[j]

LEMMA KeysBeforeTransitive ==
    ASSUME NEW a \in [1..6 -> Int], NEW b \in [1..6 -> Int], NEW c \in [1..6 -> Int],
           KeysBefore(a, b), KeysBefore(b, c)
    PROVE  KeysBefore(a, c)
  <1>1. PICK i \in 1..6 : a[i] < b[i] /\ \A j \in 1..(i - 1) : a[j] = b[j]
    BY DEF KeysBefore
  <1>2. PICK k \in 1..6 : b[k] < c[k] /\ \A j \in 1..(k - 1) : b[j] = c[j]
    BY DEF KeysBefore
  <1>3. CASE i <= k
    <2>1. a[i] < c[i]
      <3>1. b[i] = c[i] \/ i = k BY <1>2, <1>3
      <3> QED BY <1>1, <1>2, <3>1
    <2>2. \A j \in 1..(i - 1) : a[j] = c[j] BY <1>1, <1>2, <1>3
    <2> QED BY <2>1, <2>2 DEF KeysBefore
  <1>4. CASE k < i
    <2>1. a[k] < c[k]
      <3>1. a[k] = b[k] BY <1>1, <1>4
      <3> QED BY <1>2, <3>1
    <2>2. \A j \in 1..(k - 1) : a[j] = c[j] BY <1>1, <1>2, <1>4
    <2> QED BY <2>1, <2>2 DEF KeysBefore
  <1> QED BY <1>3, <1>4

LEMMA KeysBeforeTotal ==
    ASSUME NEW a \in [1..6 -> Int], NEW b \in [1..6 -> Int], a[6] # b[6]
    PROVE  KeysBefore(a, b) \/ KeysBefore(b, a)
  <1> DEFINE Differ == {i \in Nat : i \in 1..6 /\ a[i] # b[i]}
  <1>1. PICK i \in Differ : \A j \in Differ : ~(j < i)
    <2>1. 6 \in Differ OBVIOUS
    <2>2. Differ \subseteq Nat OBVIOUS
    <2> HIDE DEF Differ
    <2> QED BY <2>1, <2>2, LeastNatural
  <1>2. i \in 1..6 /\ a[i] # b[i] BY <1>1
  <1>3. \A j \in 1..(i - 1) : a[j] = b[j]
    <2> SUFFICES ASSUME NEW j \in 1..(i - 1), a[j] # b[j] PROVE FALSE OBVIOUS
    <2>1. j \in Differ /\ j < i BY <1>2
    <2> QED BY <1>1, <2>1
  <1>4. a[i] \in Int /\ b[i] \in Int BY <1>2
  <1>5. CASE a[i] < b[i] BY <1>2, <1>3, <1>5 DEF KeysBefore
  <1>6. CASE b[i] < a[i] BY <1>2, <1>3, <1>6 DEF KeysBefore
  <1> QED BY <1>2, <1>4, <1>5, <1>6

LEMMA KeysBeforeAsymmetric ==
    ASSUME NEW a \in [1..6 -> Int], NEW b \in [1..6 -> Int], KeysBefore(a, b)
    PROVE  ~KeysBefore(b, a)
  <1> SUFFICES ASSUME KeysBefore(b, a) PROVE FALSE OBVIOUS
  <1>1. KeysBefore(a, a) BY KeysBeforeTransitive
  <1>2. PICK i \in 1..6 : a[i] < a[i] BY <1>1 DEF KeysBefore
  <1>3. a[i] \in Int BY <1>2
  <1> QED BY <1>2, <1>3

SortKeysOf(x) ==
    <<-x.priority, IF x.courtSpecific THEN 0 ELSE 1, -Specificity[x.dayType],
      x.ends - x.starts, -x.createdAt, x.id>>

LEMMA RuleKeys ==
    ASSUME NEW r \in Rules
    PROVE  SortKeysOf(r) \in [1..6 -> Int] /\ SortKeysOf(r)[6] = r.id
  <1>1. r \in RuleFields BY PricingAssumption
  <1>2. /\ r.id \in Nat /\ r.priority \in Int /\ r.courtSpecific \in BOOLEAN
        /\ r.starts \in Nat /\ r.ends \in Nat /\ r.createdAt \in Nat
        /\ r.dayType \in {"weekday", "weekend", "holiday", "specific_date"}
    BY <1>1 DEF RuleFields
  <1>3. Specificity[r.dayType] \in Int BY <1>2 DEF Specificity
  <1>4. (IF r.courtSpecific THEN 0 ELSE 1) \in Int OBVIOUS
  <1>5. /\ -r.priority \in Int /\ -Specificity[r.dayType] \in Int
        /\ r.ends - r.starts \in Int /\ -r.createdAt \in Int
    BY <1>2, <1>3
  <1>6. SortKeysOf(r) \in Int \X Int \X Int \X Int \X Int \X Int
    BY <1>2, <1>3, <1>4, <1>5 DEF SortKeysOf
  <1>7. SortKeysOf(r) \in [1..6 -> Int] BY <1>6
  <1>8. SortKeysOf(r)[6] = r.id BY DEF SortKeysOf
  <1> QED BY <1>7, <1>8

LEMMA SortsByKeys ==
    ASSUME NEW r, NEW q
    PROVE  SortsBefore(r, q) <=> KeysBefore(SortKeysOf(r), SortKeysOf(q))
  BY DEF SortsBefore, KeysBefore, SortKeysOf

(* comparePriceRules orders the rules of a table, each before or after each.*)
LEMMA SortsTotally ==
    ASSUME NEW r \in Rules, NEW q \in Rules, r # q
    PROVE  /\ SortsBefore(r, q) \/ SortsBefore(q, r)
           /\ ~(SortsBefore(r, q) /\ SortsBefore(q, r))
  <1>1. r.id # q.id BY PricingAssumption
  <1> QED BY <1>1, RuleKeys, SortsByKeys, KeysBeforeTotal, KeysBeforeAsymmetric

LEMMA SortsTransitively ==
    ASSUME NEW r \in Rules, NEW q \in Rules, NEW p \in Rules,
           SortsBefore(r, q), SortsBefore(q, p)
    PROVE  SortsBefore(r, p)
  BY RuleKeys, SortsByKeys, KeysBeforeTransitive

(* Among finitely many rules one comes first.                               *)
IsFirst(r, T) == \A q \in T : q # r => SortsBefore(r, q)

LEMMA OneComesFirst ==
    ASSUME NEW M \in SUBSET Rules, IsFiniteSet(M), M # {}
    PROVE  \E r \in M : IsFirst(r, M)
  <1> DEFINE Bad == {T \in SUBSET M : T # {} /\ ~\E r \in T : IsFirst(r, T)}
  <1> SUFFICES ASSUME Bad # {} PROVE FALSE OBVIOUS
  <1>1. PICK T \in Bad : \A U \in SUBSET T : U # T => U \notin Bad
    <2>1. Bad \subseteq SUBSET M OBVIOUS
    <2> HIDE DEF Bad
    <2> QED BY <2>1, SmallestSubset
  <1>2. PICK x \in T : TRUE BY <1>1
  <1> DEFINE U == T \ {x}
  <1>3. U \in SUBSET T /\ U # T /\ U \in SUBSET M BY <1>1, <1>2
  <1>4. CASE U = {}
    <2>1. IsFirst(x, T) BY <1>4 DEF IsFirst
    <2> QED BY <1>1, <1>2, <2>1
  <1>5. CASE U # {}
    <2>1. PICK r \in U : IsFirst(r, U) BY <1>1, <1>3, <1>5
    <2>2. r \in Rules /\ x \in Rules /\ r # x /\ T \subseteq Rules BY <1>1, <1>2, <2>1
    <2>3. CASE SortsBefore(r, x)
      <3>1. IsFirst(r, T) BY <2>1, <2>3 DEF IsFirst
      <3> QED BY <1>1, <2>1, <3>1
    <2>4. CASE SortsBefore(x, r)
      <3>1. \A q \in U : q # r => SortsBefore(r, q) /\ q \in Rules BY <2>1, <2>2 DEF IsFirst
      <3>2. \A q \in U : SortsBefore(x, q) BY <2>2, <2>4, <3>1, SortsTransitively
      <3>3. IsFirst(x, T) BY <3>2 DEF IsFirst
      <3> QED BY <1>1, <1>2, <3>3
    <2> QED BY <2>2, <2>3, <2>4, SortsTotally
  <1> QED BY <1>4, <1>5

(* The rule that prices a slot, said without an order of the rows.          *)
Matching(rules, day, hour) == {r \in rules : RuleMatches(r, day, hour, rules)}
FirstMatching(rules, day, hour) ==
    {r \in Matching(rules, day, hour) : IsFirst(r, Matching(rules, day, hour))}

LEMMA RowsOfATable ==
    ASSUME NEW S, IsFiniteSet(S), NEW rows \in SetToSeqs(S)
    PROVE  /\ {rows[i] : i \in DOMAIN rows} = S
           /\ \A i \in DOMAIN rows : rows[i] \in S
           /\ \A i, j \in DOMAIN rows : i # j => rows[i] # rows[j]
           /\ DOMAIN rows \subseteq Nat
  <1> DEFINE D == 1..Cardinality(S)
  <1>1. rows \in [D -> S] /\ \A i, j \in D : i # j => rows[i] # rows[j]
    BY DEF SetToSeqs
  <1>2. Cardinality(S) \in Nat BY FS_CardinalityType
  <1>3. D \subseteq Nat BY <1>2
  <1>4. rows \in Injection(D, S) BY <1>1 DEF Injection, IsInjective
  <1>5. Cardinality(D) = Cardinality(S)
    <2>1. Cardinality(D) = IF 1 > Cardinality(S) THEN 0 ELSE Cardinality(S) - 1 + 1
      BY <1>2, FS_Interval
    <2> HIDE DEF D
    <2> QED BY <1>2, <2>1
  <1>6. rows \in Surjection(D, S) BY <1>4, <1>5, FS_Injection
  <1>7. \A r \in S : \E i \in D : rows[i] = r BY <1>6 DEF Surjection
  <1> QED BY <1>1, <1>3, <1>7

LEMMA PriceRuleIsFirst ==
    ASSUME NEW S \in SUBSET Rules, IsFiniteSet(S), NEW rows \in SetToSeqs(S), NEW day, NEW hour
    PROVE  PriceRule(rows, day, hour) = FirstMatching(S, day, hour)
  <1> DEFINE D == DOMAIN rows
             Match(i) == RuleMatches(rows[i], day, hour, S)
             Wins(k) == /\ Match(k)
                        /\ \A j \in D \ {k} : Match(j) =>
                             \/ SortsBefore(rows[k], rows[j])
                             \/ ~SortsBefore(rows[j], rows[k]) /\ k < j
  <1>1. /\ {rows[i] : i \in D} = S /\ \A i \in D : rows[i] \in S
        /\ \A i, j \in D : i # j => rows[i] # rows[j]
    BY RowsOfATable
  <1>2. PriceRule(rows, day, hour) = {rows[i] : i \in {k \in D : Wins(k)}}
    BY <1>1 DEF PriceRule
  <1>3. ASSUME NEW k \in D PROVE Wins(k) <=> rows[k] \in FirstMatching(S, day, hour)
    <2>1. ASSUME Wins(k) PROVE rows[k] \in FirstMatching(S, day, hour)
      <3>1. rows[k] \in Matching(S, day, hour) BY <1>1, <2>1 DEF Matching
      <3>2. ASSUME NEW q \in Matching(S, day, hour), q # rows[k]
            PROVE  SortsBefore(rows[k], q)
        <4>1. PICK j \in D : q = rows[j] BY <1>1 DEF Matching
        <4>2. j # k /\ Match(j) BY <3>2, <4>1 DEF Matching
        <4>3. SortsBefore(rows[k], rows[j]) \/ ~SortsBefore(rows[j], rows[k])
          BY <2>1, <4>2
        <4>4. rows[k] \in Rules /\ rows[j] \in Rules /\ rows[k] # rows[j] BY <1>1, <4>2
        <4> QED BY <4>1, <4>3, <4>4, SortsTotally
      <3> QED BY <3>1, <3>2 DEF FirstMatching, IsFirst
    <2>2. ASSUME rows[k] \in FirstMatching(S, day, hour) PROVE Wins(k)
      <3>1. Match(k) BY <2>2 DEF FirstMatching, Matching
      <3>2. ASSUME NEW j \in D \ {k}, Match(j) PROVE SortsBefore(rows[k], rows[j])
        <4>1. rows[j] \in Matching(S, day, hour) /\ rows[j] # rows[k]
          BY <1>1, <3>2 DEF Matching
        <4> QED BY <2>2, <4>1 DEF FirstMatching, IsFirst
      <3> QED BY <3>1, <3>2
    <2> QED BY <2>1, <2>2
  <1> HIDE DEF Wins
  <1>4. FirstMatching(S, day, hour) \subseteq S BY DEF FirstMatching, Matching
  <1> QED BY <1>1, <1>2, <1>3, <1>4

LEMMA FirstIsUnique ==
    ASSUME NEW S \in SUBSET Rules, IsFiniteSet(S), NEW day, NEW hour
    PROVE  Cardinality(FirstMatching(S, day, hour)) =
               IF \E r \in S : RuleMatches(r, day, hour, S) THEN 1 ELSE 0
  <1> DEFINE M == Matching(S, day, hour)
             F == FirstMatching(S, day, hour)
  <1>1. M \in SUBSET Rules /\ M \in SUBSET S /\ IsFiniteSet(M) BY FS_Subset DEF Matching
  <1>2. CASE M = {}
    <2>1. F = {} BY <1>2 DEF FirstMatching
    <2>2. ~\E r \in S : RuleMatches(r, day, hour, S) BY <1>2 DEF Matching
    <2> QED BY <2>1, <2>2, FS_EmptySet
  <1>3. CASE M # {}
    <2>1. PICK r \in M : IsFirst(r, M)
      <3> HIDE DEF M
      <3> QED BY <1>1, <1>3, OneComesFirst
    <2>2. ASSUME NEW q \in F PROVE q = r
      <3>1. q \in M /\ IsFirst(q, M) BY <2>2 DEF FirstMatching
      <3>2. q # r => SortsBefore(q, r) /\ SortsBefore(r, q) BY <2>1, <3>1 DEF IsFirst
      <3> QED BY <1>1, <3>1, <3>2, SortsTotally
    <2>3. r \in F BY <2>1 DEF FirstMatching
    <2>4. F = {r} BY <2>2, <2>3
    <2>5. \E x \in S : RuleMatches(x, day, hour, S) BY <1>3 DEF Matching
    <2> QED BY <2>4, <2>5, FS_Singleton
  <1> QED BY <1>2, <1>3
(* Quotes.  What Math.round does to hundreds.                               *)
Halves(d) == d = 1 \/ d = 2 \/ d = 100

LEMMA RoundedIsInt ==
    ASSUME NEW n \in Int, NEW d \in Int, Halves(d)
    PROVE  RoundTo100(n, d) \in Int
  BY DEF RoundTo100, Halves

LEMMA RoundedIsNear ==
    ASSUME NEW n \in Int
    PROVE  /\ RoundTo100(n, 1) % 100 = 0
           /\ n - 50 <= RoundTo100(n, 1) /\ RoundTo100(n, 1) <= n + 50
  <1>1. RoundTo100(n, 1) = 100 * ((n + 50) \div 100) BY DEF RoundTo100
  <1> QED BY <1>1

LEMMA RoundingIsMonotone ==
    ASSUME NEW n \in Int, NEW m \in Int, n <= m, NEW d \in Int, Halves(d)
    PROVE  RoundTo100(n, d) <= RoundTo100(m, d)
  <1>1. CASE d = 1
    <2>1. \A x \in Int : RoundTo100(x, 1) = 100 * ((x + 50) \div 100) BY DEF RoundTo100
    <2>2. (n + 50) \div 100 <= (m + 50) \div 100 OBVIOUS
    <2> QED BY <1>1, <2>1, <2>2
  <1>2. CASE d = 2
    <2>1. \A x \in Int : RoundTo100(x, 2) = 100 * ((x + 100) \div 200) BY DEF RoundTo100
    <2>2. (n + 100) \div 200 <= (m + 100) \div 200 OBVIOUS
    <2> QED BY <1>2, <2>1, <2>2
  <1>3. CASE d = 100
    <2>1. \A x \in Int : RoundTo100(x, 100) = 100 * ((x + 5000) \div 10000) BY DEF RoundTo100
    <2>2. (n + 5000) \div 10000 <= (m + 5000) \div 10000 OBVIOUS
    <2> QED BY <1>3, <2>1, <2>2
  <1> QED BY <1>1, <1>2, <1>3 DEF Halves

LEMMA RoundedNat ==
    ASSUME NEW n \in Nat, NEW d \in Int, Halves(d)
    PROVE  RoundTo100(n, d) \in Nat
  <1>1. RoundTo100(0, d) <= RoundTo100(n, d) BY RoundingIsMonotone
  <1>2. RoundTo100(0, d) = 0
    <2>1. CASE d = 1 BY <2>1 DEF RoundTo100
    <2>2. CASE d = 2 BY <2>2 DEF RoundTo100
    <2>3. CASE d = 100 BY <2>3 DEF RoundTo100
    <2> QED BY <2>1, <2>2, <2>3 DEF Halves
  <1>3. RoundTo100(n, d) \in Int BY RoundedIsInt
  <1> QED BY <1>1, <1>2, <1>3

LEMMA MoreTax ==
    ASSUME NEW x \in Nat, NEW y \in Nat, x <= y, NEW rate \in Nat
    PROVE  x * rate \in Nat /\ y * rate \in Nat /\ x * rate <= y * rate
  OBVIOUS

(* The cheapest slots exist.                                                *)
Cheap(prices, I, n) ==
    /\ I \in SUBSET DOMAIN prices /\ Cardinality(I) = n
    /\ \A i \in I, j \in DOMAIN prices \ I : prices[i] <= prices[j]

LEMMA CheapestOfSome ==
    ASSUME NEW D, NEW prices \in [D -> Nat], D # {}
    PROVE  \E i \in D : \A j \in D : prices[i] <= prices[j]
  <1> DEFINE Amounts == {prices[i] : i \in D}
  <1>1. Amounts \subseteq Nat /\ Amounts # {} OBVIOUS
  <1>2. PICK a \in Amounts : \A b \in Amounts : ~(b < a)
    <2> HIDE DEF Amounts
    <2> QED BY <1>1, LeastNatural
  <1>3. PICK i \in D : prices[i] = a OBVIOUS
  <1>4. ASSUME NEW j \in D PROVE prices[i] <= prices[j]
    <2>1. prices[j] \in Amounts /\ prices[j] \in Nat /\ prices[i] \in Nat OBVIOUS
    <2>2. ~(prices[j] < a) BY <1>2, <2>1
    <2> HIDE DEF Amounts
    <2> QED BY <1>3, <2>1, <2>2
  <1> QED BY <1>4

LEMMA CheapExist ==
    ASSUME NEW D, IsFiniteSet(D), NEW prices \in [D -> Nat],
           NEW n \in Nat, n <= Cardinality(D)
    PROVE  \E I : Cheap(prices, I, n)
  <1> DEFINE Bad == {k \in Nat : k <= Cardinality(D) /\ ~\E I : Cheap(prices, I, k)}
  <1> SUFFICES ASSUME Bad # {} PROVE FALSE OBVIOUS
  <1>1. PICK k \in Bad : \A m \in Bad : ~(m < k)
    <2>1. Bad \subseteq Nat OBVIOUS
    <2> HIDE DEF Bad
    <2> QED BY <2>1, LeastNatural
  <1>2. k \in Nat /\ k <= Cardinality(D) /\ Cardinality(D) \in Nat BY <1>1, FS_CardinalityType
  <1>3. CASE k = 0
    <2>1. Cheap(prices, {}, 0) BY FS_EmptySet DEF Cheap
    <2> QED BY <1>1, <1>3, <2>1
  <1>4. CASE k > 0
    <2>1. k - 1 \in Nat /\ k - 1 <= Cardinality(D) /\ k - 1 < k BY <1>2, <1>4
    <2>2. PICK I : Cheap(prices, I, k - 1)
      <3>1. k - 1 \notin Bad BY <1>1, <2>1
      <3> QED BY <2>1, <3>1
    <2>3. I \in SUBSET D /\ Cardinality(I) = k - 1 BY <2>2 DEF Cheap
    <2>4. IsFiniteSet(I) BY <2>3, FS_Subset
    <2>5. D \ I # {}
      <3> SUFFICES ASSUME I = D PROVE FALSE BY <2>3
      <3> QED BY <1>2, <2>1, <2>3
    <2>6. PICK x \in D \ I : \A j \in D \ I : prices[x] <= prices[j]
      <3> DEFINE rest == [i \in D \ I |-> prices[i]]
      <3>1. PICK x \in D \ I : \A j \in D \ I : rest[x] <= rest[j]
        <4>1. rest \in [D \ I -> Nat] OBVIOUS
        <4> HIDE DEF rest
        <4> QED BY <2>5, <4>1, CheapestOfSome
      <3> QED BY <3>1
    <2>7. Cardinality(I \cup {x}) = k
      <3>1. Cardinality(I \cup {x}) = Cardinality(I) + 1 BY <2>4, <2>6, FS_AddElement
      <3> QED BY <1>2, <2>3, <3>1
    <2>8. Cheap(prices, I \cup {x}, k)
      <3>1. \A i \in I, j \in D \ I : prices[i] <= prices[j] BY <2>2 DEF Cheap
      <3>2. \A i \in I \cup {x}, j \in D \ (I \cup {x}) : prices[i] <= prices[j]
        BY <2>6, <3>1
      <3> QED BY <2>3, <2>6, <2>7, <3>2 DEF Cheap
    <2> QED BY <1>1, <2>8
  <1> QED BY <1>2, <1>3, <1>4

LEMMA CheapestIsPart ==
    ASSUME NEW n \in Nat, NEW prices \in [1..n -> Nat], NEW count \in Nat
    PROVE  Cheapest(prices, count) \in SUBSET (1..n)
  <1> DEFINE k == AtMost(count, n)
  <1>1. k \in Nat /\ k <= n BY DEF AtMost
  <1>2. DOMAIN prices = 1..n /\ Len(prices) = n
    <2>1. prices \in Seq(Nat) OBVIOUS
    <2> QED BY <2>1
  <1>3. IsFiniteSet(1..n) /\ Cardinality(1..n) = n
    <2>1. Cardinality(1..n) = IF 1 > n THEN 0 ELSE n - 1 + 1 BY FS_Interval
    <2> QED BY <2>1, FS_Interval
  <1>4. \E I : Cheap(prices, I, k)
    <2> HIDE DEF k
    <2> QED BY <1>1, <1>3, CheapExist
  <1>5. \E I \in SUBSET DOMAIN prices :
            /\ Cardinality(I) = AtMost(count, Len(prices))
            /\ \A i \in I, j \in DOMAIN prices \ I : prices[i] <= prices[j]
    BY <1>2, <1>4 DEF Cheap
  <1> QED BY <1>2, <1>5 DEF Cheapest

LEMMA SubtotalIsNat ==
    ASSUME NEW n \in Nat, NEW prices \in [1..n -> Nat]
    PROVE  SumFunction(prices) \in Nat
  <1>1. IsFiniteSet(1..n) BY FS_Interval
  <1>2. SumFunctionOnSet(prices, 1..n) \in Nat BY <1>1, SumIsNat
  <1> QED BY <1>2 DEF SumFunction

LEMMA FreeSlotsAreNat ==
    ASSUME NEW n \in Nat, NEW prices \in [1..n -> Nat], NEW count \in Nat
    PROVE  SumFunctionOnSet(prices, Cheapest(prices, count)) \in Nat
  <1>1. Cheapest(prices, count) \in SUBSET (1..n) BY CheapestIsPart
  <1>2. IsFiniteSet(Cheapest(prices, count)) BY <1>1, FS_Interval, FS_Subset
  <1>3. \A i \in Cheapest(prices, count) : prices[i] \in Nat BY <1>1
  <1> QED BY <1>2, <1>3, SumIsNat

LEMMA RawDiscountIsNat ==
    ASSUME NEW n \in Nat, NEW prices \in [1..n -> Nat], NEW base \in Nat,
           NEW offer \in PromoTerms
    PROVE  RawDiscount(offer, base, prices) \in Nat
  <1>1. CASE offer \in [type : {"none"}]
    BY <1>1 DEF RawDiscount
  <1>2. CASE offer \in [type : {"percent"}, percent : Nat, cap : Nat]
    <2>1. offer.type = "percent" /\ offer.percent \in Nat /\ offer.cap \in Nat BY <1>2
    <2>2. base * offer.percent \in Nat /\ 100 * offer.cap \in Nat BY <2>1
    <2>3. AtMost(base * offer.percent, 100 * offer.cap) \in Nat BY <2>2 DEF AtMost
    <2> QED BY <2>1, <2>3 DEF RawDiscount
  <1>3. CASE offer \in [type : {"fixed"}, value : Nat]
    <2>1. offer.type = "fixed" /\ offer.value \in Nat BY <1>3
    <2> QED BY <2>1 DEF RawDiscount
  <1>4. CASE offer \in [type : {"free_slot"}, count : Nat]
    <2>1. offer.type = "free_slot" /\ offer.count \in Nat BY <1>4
    <2>2. SumFunctionOnSet(prices, Cheapest(prices, offer.count)) \in Nat
      BY <2>1, FreeSlotsAreNat
    <2> QED BY <2>1, <2>2 DEF RawDiscount
  <1> QED BY <1>1, <1>2, <1>3, <1>4 DEF PromoTerms

LEMMA DiscountIsPart ==
    ASSUME NEW n \in Nat, NEW prices \in [1..n -> Nat], NEW base \in Nat,
           NEW offer \in PromoTerms
    PROVE  /\ Discount(offer, base, prices) \in Nat
           /\ Discount(offer, base, prices) <= base
           /\ offer.type = "none" => Discount(offer, base, prices) = 0
  <1> DEFINE rounded == RoundTo100(RawDiscount(offer, base, prices), 100)
  <1>1. RawDiscount(offer, base, prices) \in Nat BY RawDiscountIsNat
  <1>2. Halves(100) BY DEF Halves
  <1>3. rounded \in Nat BY <1>1, <1>2, RoundedNat
  <1>4. offer.type = "none" => rounded = 0
    <2>1. offer.type = "none" => RawDiscount(offer, base, prices) = 0 BY DEF RawDiscount
    <2>2. RoundTo100(0, 100) = 0 BY DEF RoundTo100
    <2> QED BY <2>1, <2>2
  <1>5. Discount(offer, base, prices) = AtLeast(0, AtMost(rounded, base)) BY DEF Discount
  <1> HIDE DEF rounded
  <1> QED BY <1>3, <1>4, <1>5 DEF AtLeast, AtMost

\* The total, of what is left after the discount.
TotalOf(net, rate) ==
    AtLeast(0, RoundTo100(net + RoundTo100(net * rate, 100), 1))

LEMMA TotalIsNear ==
    ASSUME NEW net \in Nat, NEW rate \in Nat
    PROVE  /\ TotalOf(net, rate) \in Nat /\ TotalOf(net, rate) % 100 = 0
           /\ TotalOf(net, rate) - (net + RoundTo100(net * rate, 100)) \in -50..50
  <1>1. Halves(1) /\ Halves(100) BY DEF Halves
  <1>2. net * rate \in Nat BY MoreTax
  <1>3. RoundTo100(net * rate, 100) \in Nat BY <1>1, <1>2, RoundedNat
  <1> DEFINE raw == net + RoundTo100(net * rate, 100)
  <1>4. raw \in Nat BY <1>3
  <1>5. /\ RoundTo100(raw, 1) \in Nat /\ RoundTo100(raw, 1) % 100 = 0
        /\ raw - 50 <= RoundTo100(raw, 1) /\ RoundTo100(raw, 1) <= raw + 50
    <2> HIDE DEF raw
    <2>1. RoundTo100(raw, 1) \in Nat BY <1>1, <1>4, RoundedNat
    <2>2. raw \in Int BY <1>4
    <2> QED BY <2>1, <2>2, RoundedIsNear
  <1>6. TotalOf(net, rate) = RoundTo100(raw, 1) BY <1>5 DEF TotalOf, AtLeast
  <1> HIDE DEF raw
  <1>7. RoundTo100(raw, 1) - raw \in -50..50 BY <1>4, <1>5
  <1> QED BY <1>5, <1>6, <1>7 DEF raw

LEMMA TotalIsMonotone ==
    ASSUME NEW x \in Nat, NEW y \in Nat, x <= y, NEW rate \in Nat
    PROVE  TotalOf(x, rate) <= TotalOf(y, rate)
  <1>1. Halves(1) /\ Halves(100) BY DEF Halves
  <1>2. x * rate \in Nat /\ y * rate \in Nat /\ x * rate <= y * rate BY MoreTax
  <1>3. RoundTo100(x * rate, 100) <= RoundTo100(y * rate, 100)
    BY <1>1, <1>2, RoundingIsMonotone
  <1>4. RoundTo100(x * rate, 100) \in Nat /\ RoundTo100(y * rate, 100) \in Nat
    BY <1>1, <1>2, RoundedNat
  <1> DEFINE p == x + RoundTo100(x * rate, 100)
             q == y + RoundTo100(y * rate, 100)
  <1>5. p \in Nat /\ q \in Nat /\ p <= q BY <1>3, <1>4
  <1>6. TotalOf(x, rate) = AtLeast(0, RoundTo100(p, 1)) /\ TotalOf(y, rate) = AtLeast(0, RoundTo100(q, 1))
    BY DEF TotalOf
  <1> HIDE DEF p, q
  <1>7. RoundTo100(p, 1) <= RoundTo100(q, 1) /\ RoundTo100(p, 1) \in Nat /\ RoundTo100(q, 1) \in Nat
    BY <1>1, <1>5, RoundingIsMonotone, RoundedNat
  <1> QED BY <1>6, <1>7 DEF AtLeast

\* How the parts of quote q hang together.
PartsOf(q, prices, addons, offer, rate) ==
    /\ q.base = SumFunction(prices) + addons /\ q.base \in Nat
    /\ q.discount = Discount(offer, q.base, prices)
    /\ q.discount \in Nat /\ q.discount <= q.base
    /\ q.tax = RoundTo100((q.base - q.discount) * rate, 100) /\ q.tax \in Nat
    /\ q.total = TotalOf(q.base - q.discount, rate)
    /\ q.rounding = q.total - (q.base - q.discount + q.tax)

LEMMA QuoteParts ==
    ASSUME NEW n \in Nat, NEW prices \in [1..n -> Nat], NEW addons \in Nat,
           NEW offer \in PromoTerms, NEW rate \in Nat
    PROVE  PartsOf(Quote(prices, addons, offer, rate), prices, addons, offer, rate)
  <1> DEFINE q == Quote(prices, addons, offer, rate)
  <1>1. q.base = SumFunction(prices) + addons BY DEF Quote
  <1>2. q.base \in Nat BY <1>1, SubtotalIsNat
  <1>3. q.discount = Discount(offer, q.base, prices) BY DEF Quote
  <1>4. q.discount \in Nat /\ q.discount <= q.base
    <2> HIDE DEF q
    <2> QED BY <1>2, <1>3, DiscountIsPart
  <1>5. q.tax = RoundTo100((q.base - q.discount) * rate, 100) BY DEF Quote
  <1>6. q.tax \in Nat
    <2> HIDE DEF q
    <2>1. q.base - q.discount \in Nat BY <1>2, <1>4
    <2>2. (q.base - q.discount) * rate \in Nat BY <2>1, MoreTax
    <2>3. Halves(100) BY DEF Halves
    <2> QED BY <1>5, <2>2, <2>3, RoundedNat
  <1>7. q.total = TotalOf(q.base - q.discount, rate) BY DEF Quote, TotalOf
  <1>8. q.rounding = q.total - (q.base - q.discount + q.tax) BY DEF Quote
  <1> QED BY <1>1, <1>2, <1>3, <1>4, <1>5, <1>6, <1>7, <1>8 DEF PartsOf

-----------------------------------------------------------------------------
(* Both answers.                                                            *)
PricingInv ==
    /\ inquiry \in PriceInquiries \cup QuoteInquiries
    /\ PriceIgnoresRowOrder /\ QuoteAddsUp

LEMMA PriceInquired ==
    ASSUME inquiry \in PriceInquiries \cup QuoteInquiries, inquiry.of = "price"
    PROVE  inquiry.rules \in SUBSET Rules /\ IsFiniteSet(inquiry.rules)
  <1>1. inquiry \in PriceInquiries BY DEF QuoteInquiries
  <1> QED BY <1>1 DEF PriceInquiries

LEMMA QuoteInquired ==
    ASSUME inquiry \in PriceInquiries \cup QuoteInquiries, inquiry.of = "quote"
    PROVE  /\ \E n \in Nat : inquiry.perHour \in [1..n -> Nat]
           /\ inquiry.addons \in Nat /\ inquiry.promo \in PromoTerms /\ inquiry.taxRate \in Nat
  <1>1. inquiry \in QuoteInquiries BY DEF PriceInquiries
  <1>2. /\ inquiry.perHour \in UNION {[1..n -> UnitPrices] : n \in 1..MaxLines}
        /\ inquiry.addons \in AddonTotals /\ inquiry.promo \in Promos
        /\ inquiry.taxRate \in TaxRates
    BY <1>1 DEF QuoteInquiries
  <1>3. PICK n \in 1..MaxLines : inquiry.perHour \in [1..n -> UnitPrices] BY <1>2
  <1>4. /\ UnitPrices \subseteq Nat /\ AddonTotals \subseteq Nat /\ TaxRates \subseteq Nat
        /\ Promos \subseteq PromoTerms /\ MaxLines \in Nat
    BY PricingAssumption
  <1>5. n \in Nat BY <1>3, <1>4
  <1>6. inquiry.perHour \in [1..n -> Nat] BY <1>3, <1>4
  <1> QED BY <1>2, <1>4, <1>5, <1>6

LEMMA PriceAnswered ==
    ASSUME inquiry \in PriceInquiries \cup QuoteInquiries, AnswerPrice
    PROVE  PriceIgnoresRowOrder' /\ QuoteAddsUp'
  <1> DEFINE S == inquiry.rules
             F == FirstMatching(S, inquiry.day, inquiry.hour)
  <1>1. inquiry.of = "price" /\ inquiry' = inquiry BY DEF AnswerPrice
  <1>2. S \in SUBSET Rules /\ IsFiniteSet(S) BY <1>1, PriceInquired
  <1>3. PICK rows \in SetToSeqs(S) :
            answer' = [of |-> "price", rule |-> PriceRule(rows, inquiry.day, inquiry.hour)]
    BY DEF AnswerPrice
  <1>4. \A r \in SetToSeqs(S) : PriceRule(r, inquiry.day, inquiry.hour) = F
    BY <1>2, PriceRuleIsFirst
  <1>5. answer'.of = "price" /\ answer'.rule = F BY <1>3, <1>4
  <1>6. Cardinality(F) =
            IF \E r \in S : RuleMatches(r, inquiry.day, inquiry.hour, S) THEN 1 ELSE 0
    BY <1>2, FirstIsUnique
  <1>7. QuoteAddsUp' BY <1>5 DEF QuoteAddsUp
  <1> HIDE DEF F
  <1>8. PriceIgnoresRowOrder' BY <1>1, <1>4, <1>5, <1>6 DEF PriceIgnoresRowOrder
  <1> QED BY <1>7, <1>8

LEMMA QuoteAnswered ==
    ASSUME inquiry \in PriceInquiries \cup QuoteInquiries, AnswerQuote
    PROVE  PriceIgnoresRowOrder' /\ QuoteAddsUp'
  <1> DEFINE prices == [i \in DOMAIN inquiry.perHour |-> UnitPrice(inquiry.perHour[i])]
             q == Quote(prices, inquiry.addons, inquiry.promo, inquiry.taxRate)
             full == Quote(prices, inquiry.addons, [type |-> "none"], inquiry.taxRate)
  <1>1. inquiry.of = "quote" /\ inquiry' = inquiry BY DEF AnswerQuote
  <1>2. answer' = [of |-> "quote", quote |-> q, full |-> full] BY DEF AnswerQuote
  <1>3. /\ inquiry.addons \in Nat /\ inquiry.promo \in PromoTerms /\ inquiry.taxRate \in Nat
    BY <1>1, QuoteInquired
  <1>4. PICK n \in Nat : inquiry.perHour \in [1..n -> Nat] BY <1>1, QuoteInquired
  <1>5. prices \in [1..n -> Nat]
    <2>1. \A x \in Nat : UnitPrice(x) \in Nat BY RoundedNat DEF UnitPrice, Halves
    <2> QED BY <1>4, <2>1
  <1>6. [type |-> "none"] \in PromoTerms BY DEF PromoTerms
  <1> DEFINE rate == inquiry.taxRate
             net == q.base - q.discount
  <1> HIDE DEF prices
  <1>7. PartsOf(q, prices, inquiry.addons, inquiry.promo, rate) BY <1>3, <1>5, QuoteParts
  <1>8. PartsOf(full, prices, inquiry.addons, [type |-> "none"], rate)
    BY <1>3, <1>5, <1>6, QuoteParts
  <1> HIDE DEF q, full, rate
  <1>9. full.discount = 0
    <2>1. full.base \in Nat /\ full.discount = Discount([type |-> "none"], full.base, prices)
      BY <1>8 DEF PartsOf
    <2> QED BY <1>5, <1>6, <2>1, DiscountIsPart
  <1>10. full.total = TotalOf(q.base, rate)
    <2>1. full.base = q.base /\ q.base \in Nat BY <1>7, <1>8 DEF PartsOf
    <2>2. full.total = TotalOf(full.base - full.discount, rate) BY <1>8 DEF PartsOf
    <2>3. full.base - full.discount = q.base BY <1>9, <2>1
    <2> QED BY <2>2, <2>3
  <1>11. net \in Nat /\ net <= q.base /\ rate \in Nat BY <1>3, <1>7 DEF rate, PartsOf
  <1>12. q.total <= full.total
    <2>1. q.base \in Nat /\ q.total = TotalOf(net, rate) BY <1>7 DEF PartsOf
    <2> QED BY <1>10, <1>11, <2>1, TotalIsMonotone
  <1>13. /\ q.total \in Nat /\ q.total % 100 = 0
         /\ q.total - (net + RoundTo100(net * rate, 100)) \in -50..50
    <2>1. q.total = TotalOf(net, rate) BY <1>7 DEF PartsOf
    <2> QED BY <1>11, <2>1, TotalIsNear
  <1>14. q.rounding \in -50..50 BY <1>7, <1>13 DEF PartsOf
  <1>15. q.total = q.base - q.discount + q.tax + q.rounding BY <1>7, <1>13 DEF PartsOf
  <1>16. answer'.of = "quote" /\ answer'.quote = q /\ answer'.full = full BY <1>2
  <1>17. 0 <= q.discount /\ q.discount <= q.base /\ q.total >= 0 BY <1>7, <1>13 DEF PartsOf
  <1>18. QuoteAddsUp' BY <1>12, <1>13, <1>14, <1>15, <1>16, <1>17 DEF QuoteAddsUp
  <1>19. PriceIgnoresRowOrder' BY <1>16 DEF PriceIgnoresRowOrder
  <1> QED BY <1>18, <1>19

LEMMA PricingHolds == PricingSpec => []PricingInv
  <1>1. PricingInit => PricingInv
    BY DEF PricingInit, PricingInv, NoAnswer, PriceIgnoresRowOrder, QuoteAddsUp
  <1>2. PricingInv /\ [PricingNext]_pricingVars => PricingInv'
    <2> SUFFICES ASSUME PricingInv, [PricingNext]_pricingVars PROVE PricingInv' OBVIOUS
    <2>1. inquiry' = inquiry BY DEF PricingNext, AnswerPrice, AnswerQuote, pricingVars
    <2>2. CASE AnswerPrice BY <2>1, <2>2, PriceAnswered DEF PricingInv
    <2>3. CASE AnswerQuote BY <2>1, <2>3, QuoteAnswered DEF PricingInv
    <2>4. CASE UNCHANGED pricingVars
      BY <2>4 DEF PricingInv, pricingVars, PriceIgnoresRowOrder, QuoteAddsUp
    <2> QED BY <2>2, <2>3, <2>4 DEF PricingNext
  <1> QED BY <1>1, <1>2, PTL DEF PricingSpec

\* 07 P2: whatever rules are stored and in whatever order they are read, one
\* rule prices a slot whenever some rule matches it.
THEOREM OnePriceForASlot == PricingSpec => []PriceIgnoresRowOrder
  <1>1. PricingInv => PriceIgnoresRowOrder BY DEF PricingInv
  <1> QED BY <1>1, PricingHolds, PTL

\* 07 P3 to P10: for any prices, add-ons, promo and tax rate the parts of a
\* quote add up to its total, and a promo never makes it dearer.
THEOREM QuotesAddUp == PricingSpec => []QuoteAddsUp
  <1>1. PricingInv => QuoteAddsUp BY DEF PricingInv
  <1> QED BY <1>1, PricingHolds, PTL
=============================================================================
