------------------------------ MODULE PromoUse ------------------------------
(***************************************************************************)
(* One promo: its quotas in PostgreSQL, the counter in Redis that answers  *)
(* before them, J-09 that refreshes it, and the edits of an admin.         *)
(*                                                                         *)
(* incrementPromoQuota locks the promo's row until its transaction ends,   *)
(* so what a use inserts and counts is seen by all or by nobody; every     *)
(* other write to that row waits (RowFree).                                *)
(***************************************************************************)
EXTENDS Integers, FiniteSets

CONSTANTS
    Uses,         \* bookings that ask for the promo, each once
    UserOf,   \* whose booking it is
    Guest,        \* the customer of a booking without an account
    MaxQuota,     \* bound on quota_total and quota_per_user
    MaxPatches,   \* bound on an admin's edits
    PromoFaults   \* of "redis", "crash"

ASSUME PromoUseAssumption ==
    /\ IsFiniteSet(Uses)
    /\ MaxQuota \in Nat /\ MaxPatches \in Nat
    /\ PromoFaults \subseteq {"redis", "crash"}

VARIABLES
    promo,       \* the row of promos
    redeemed,    \* promo_redemptions.status of each use
    asking,      \* per use: how far its createBooking has come
    agreed,      \* per use: quota_per_user when it was counted
    counter,     \* the Redis key promoQuota
    callbacks,   \* afterCommit INCRs and DECRs not yet run
    refreshing,  \* what J-09 read and has not stored yet
    patching     \* the edit in flight, with what it has read

promoVars == <<promo, redeemed, asking, agreed, counter, callbacks, refreshing, patching>>

-----------------------------------------------------------------------------
Unlimited == Cardinality(Uses) + 1   \* NULL: no count of uses gets there
Quotas == 1..MaxQuota \cup {Unlimited}
NoCounter == -Unlimited              \* no key: DECRs do not get there
NoEdit == [none |-> 0]

\* The fields of an edit that tell.
Edits ==
    [total : Quotas] \cup [perUser : Quotas] \cup [valid : {TRUE}]
    \cup [status : {"active", "paused"}]

PromoUseInit ==
    /\ promo \in [total : Quotas, perUser : Quotas, used : {0}, status : {"active"},
                  valid : {TRUE}, version : {0}]
    /\ redeemed = [u \in Uses |-> "none"]
    /\ asking = [u \in Uses |-> "no"]
    /\ agreed = [u \in Uses |-> 0]
    /\ counter = NoCounter
    /\ callbacks = [incr |-> 0, decr |-> 0]
    /\ refreshing = NoCounter
    /\ patching = NoEdit

RowFree == \A u \in Uses : asking[u] # "holding"

\* countActiveUserRedemptions
ActiveOf(c) == {u \in Uses : UserOf[u] = c /\ redeemed[u] \in {"reserved", "applied"}}

\* The WHERE of incrementPromoQuota; evaluatePromo asks the same, unlocked.
Redeemable == promo.status = "active" /\ promo.valid /\ promo.used < promo.total

Lost(fault, value) == IF fault \in PromoFaults THEN {value} ELSE {}

-----------------------------------------------------------------------------
(* createBooking: evaluatePromo before the transaction, reservePromo in it. *)

EvaluatePromo(u) ==
    /\ asking[u] = "no"
    /\ Redeemable
    /\ IF UserOf[u] = Guest THEN promo.perUser = Unlimited
                                ELSE Cardinality(ActiveOf(UserOf[u])) < promo.perUser
    /\ asking' = [asking EXCEPT ![u] = "evaluated"]
    /\ UNCHANGED <<promo, redeemed, agreed, counter, callbacks, refreshing, patching>>

CounterFull == promo.total # Unlimited /\ counter # NoCounter /\ counter >= promo.total

\* The counter refuses, or lets pass; a Redis that is down lets pass.  A
\* booking that is refused the promo is made without it.
Precheck(u) ==
    /\ asking[u] = "evaluated"
    /\ \E next \in {IF CounterFull THEN "over" ELSE "checked"} \cup Lost("redis", "checked") :
          asking' = [asking EXCEPT ![u] = next]
    /\ UNCHANGED <<promo, redeemed, agreed, counter, callbacks, refreshing, patching>>

\* Faulty: what evaluatePromo counted is not counted again.
CountedBefore(u) == TRUE
\* The count after the insert, which it includes.
WithinUserQuota(u) ==
    \/ UserOf[u] = Guest \/ promo.perUser = Unlimited
    \/ Cardinality(ActiveOf(UserOf[u])) + 1 <= promo.perUser

\* incrementPromoQuota, insertPromoRedemption and the count.  A refusal rolls
\* back to the savepoint, which unlocks the row.
TakeQuota(u) ==
    /\ asking[u] = "checked"
    /\ RowFree
    /\ asking' = [asking EXCEPT ![u] =
                     IF Redeemable /\ WithinUserQuota(u) THEN "holding" ELSE "over"]
    /\ UNCHANGED <<promo, redeemed, agreed, counter, callbacks, refreshing, patching>>

\* The booking commits; a walk-in applies the promo at once.
CommitUse(u) ==
    /\ asking[u] = "holding"
    /\ asking' = [asking EXCEPT ![u] = "over"]
    /\ promo' = [promo EXCEPT !.used = @ + 1]
    /\ \E st \in {"reserved", "applied"} : redeemed' = [redeemed EXCEPT ![u] = st]
    /\ agreed' = [agreed EXCEPT ![u] = promo.perUser]
    /\ callbacks' \in
          Lost("crash", callbacks)
          \cup {IF promo.total = Unlimited THEN callbacks ELSE [callbacks EXCEPT !.incr = @ + 1]}
    /\ UNCHANGED <<counter, refreshing, patching>>

\* A slot was taken, or the process dies: the transaction rolls back.
RollBackUse(u) ==
    /\ asking[u] = "holding"
    /\ asking' = [asking EXCEPT ![u] = "over"]
    /\ UNCHANGED <<promo, redeemed, agreed, counter, callbacks, refreshing, patching>>

-----------------------------------------------------------------------------
(* What happens to a redemption.                                            *)

\* applyBookingPromoRedemptions
ApplyRedemption(u) ==
    /\ redeemed[u] = "reserved"
    /\ redeemed' = [redeemed EXCEPT ![u] = "applied"]
    /\ UNCHANGED <<promo, asking, agreed, counter, callbacks, refreshing, patching>>

GiveBack(R) ==
    /\ RowFree
    /\ redeemed' = [u \in Uses |-> IF u \in R THEN "released" ELSE redeemed[u]]
    /\ promo' = [promo EXCEPT !.used = IF @ > Cardinality(R) THEN @ - Cardinality(R) ELSE 0]

\* releaseBookingPromo, of a cancellation, an expiry or a lost slot.
ReleasePromo(u) ==
    /\ redeemed[u] = "reserved"
    /\ GiveBack({u})
    /\ callbacks' \in {[callbacks EXCEPT !.decr = @ + 1]} \cup Lost("crash", callbacks)
    /\ UNCHANGED <<asking, agreed, counter, refreshing, patching>>

\* Faulty: the quota instead of its use.
RefreshWithTotal(row) == row.total
\* J-09 stores quota_used, as read after its releases.
RefreshValue(row) == row.used

\* J-09: reserved_until is past for any of the reserved (R);
\* listLimitedPromoQuotas skips a promo without a total.
ReleaseExpiredReservations(R) ==
    /\ refreshing = NoCounter
    /\ \A u \in R : redeemed[u] = "reserved"
    /\ IF R = {} THEN UNCHANGED <<promo, redeemed>> ELSE GiveBack(R)
    /\ refreshing' = IF promo.total = Unlimited THEN NoCounter ELSE RefreshValue(promo')
    /\ UNCHANGED <<asking, agreed, counter, callbacks, patching>>

-----------------------------------------------------------------------------
(* The counter in Redis.                                                    *)

Plus(n) == IF counter = NoCounter THEN n ELSE counter + n

IncrCounter ==
    /\ callbacks.incr > 0
    /\ callbacks' = [callbacks EXCEPT !.incr = @ - 1]
    /\ counter' \in {Plus(1)} \cup Lost("redis", counter)
    /\ UNCHANGED <<promo, redeemed, asking, agreed, refreshing, patching>>

DecrCounter ==
    /\ callbacks.decr > 0
    /\ callbacks' = [callbacks EXCEPT !.decr = @ - 1]
    /\ counter' \in {Plus(-1)} \cup Lost("redis", counter)
    /\ UNCHANGED <<promo, redeemed, asking, agreed, refreshing, patching>>

StoreCounter ==
    /\ refreshing # NoCounter
    /\ counter' = refreshing
    /\ refreshing' = NoCounter
    /\ UNCHANGED <<promo, redeemed, asking, agreed, callbacks, patching>>

\* Redis is down, or the worker dies, when J-09 would store.
LoseRefresh ==
    /\ PromoFaults # {}
    /\ refreshing # NoCounter
    /\ refreshing' = NoCounter
    /\ UNCHANGED <<promo, redeemed, asking, agreed, counter, callbacks, patching>>

\* EXPIRE 120, or a Redis that restarts empty.
LoseCounter ==
    /\ counter # NoCounter
    /\ counter' = NoCounter
    /\ UNCHANGED <<promo, redeemed, asking, agreed, callbacks, refreshing, patching>>

-----------------------------------------------------------------------------
(* The admin: patchAdminPromo, changeAdminPromoStatus.                      *)

\* valid_until passes.
EndValidity ==
    /\ promo.valid
    /\ RowFree
    /\ promo' = [promo EXCEPT !.valid = FALSE]
    /\ UNCHANGED <<redeemed, asking, agreed, counter, callbacks, refreshing, patching>>

\* USED_MUTABLE_FIELDS is tested on the row as read before the transaction;
\* patchAdminPromo activates an expired promo too.
MayEdit(edit) == "perUser" \in DOMAIN edit => promo.used = 0

ReadForPatch(edit) ==
    /\ patching = NoEdit /\ promo.version < MaxPatches
    /\ MayEdit(edit)
    /\ patching' = edit
    /\ UNCHANGED <<promo, redeemed, asking, agreed, counter, callbacks, refreshing>>

\* The version counts edits only, and there is one edit at a time: If-Match
\* never stops it.
PatchPromo ==
    /\ patching # NoEdit
    /\ RowFree
    /\ promo' = [f \in DOMAIN promo |->
                    IF f \in DOMAIN patching THEN patching[f]
                    ELSE IF f = "version" THEN promo.version + 1 ELSE promo[f]]
    /\ patching' = NoEdit
    /\ UNCHANGED <<redeemed, asking, agreed, counter, callbacks, refreshing>>

-----------------------------------------------------------------------------
PromoUseNext ==
    \/ \E u \in Uses :
          \/ EvaluatePromo(u) \/ Precheck(u) \/ TakeQuota(u) \/ CommitUse(u) \/ RollBackUse(u)
          \/ ApplyRedemption(u) \/ ReleasePromo(u)
    \/ \E R \in SUBSET Uses : ReleaseExpiredReservations(R)
    \/ IncrCounter \/ DecrCounter \/ StoreCounter \/ LoseRefresh \/ LoseCounter
    \/ EndValidity
    \/ \E edit \in Edits : ReadForPatch(edit)
    \/ PatchPromo

PromoUseSpec == PromoUseInit /\ [][PromoUseNext]_promoVars

\* BullMQ repeats J-09 every minute; Redis is not down for ever, callbacks
\* run and transactions end.
PromoUseFairness ==
    /\ WF_promoVars(\E R \in SUBSET Uses : ReleaseExpiredReservations(R))
    /\ SF_promoVars(StoreCounter)
    /\ WF_promoVars(IncrCounter) /\ WF_promoVars(DecrCounter)
    /\ \A u \in Uses : WF_promoVars(CommitUse(u) \/ RollBackUse(u))

-----------------------------------------------------------------------------
PromoUseTypeOK ==
    /\ promo \in [total : Quotas, perUser : Quotas, used : 0..Cardinality(Uses),
                  status : {"active", "paused"}, valid : BOOLEAN, version : Nat]
    /\ redeemed \in [Uses -> {"none", "reserved", "applied", "released"}]
    /\ asking \in [Uses -> {"no", "evaluated", "checked", "holding", "over"}]
    /\ agreed \in [Uses -> Quotas \cup {0}]
    /\ counter \in Int
    /\ callbacks \in [incr : Nat, decr : Nat]
    /\ refreshing \in Int
    /\ patching \in Edits \cup {NoEdit}

\* 08 BR-PR-33, T-PR-03: however the bookings of a customer race, and
\* whatever an admin edits meanwhile, the customer has never more redemptions
\* in force than one of them was allowed.
UserQuotaKept ==
    \A c \in {UserOf[u] : u \in Uses} \ {Guest} :
        ActiveOf(c) # {} =>
            \E u \in ActiveOf(c) : Cardinality(ActiveOf(c)) <= agreed[u]

\* The row counts its redemptions exactly, whatever is given back by whom and
\* edited in between.
UsedIsExact ==
    promo.used = Cardinality({u \in Uses : redeemed[u] \in {"reserved", "applied"}})

\* 08 BR-PR-30: a use is added only while the promo is active, valid and below
\* its quota, though an admin may have changed all of it since the evaluation.
AddedWithinQuota ==
    [][promo'.used > promo.used => Redeemable /\ promo'.total = promo.total]_promoVars

\* 08 BR-PR-36: whatever callbacks are lost or late, the counter does not go on
\* refusing a promo that has room.
RoomIsOffered ==
    CounterFull /\ promo.used < promo.total
        ~> ~(CounterFull /\ promo.used < promo.total)
=============================================================================
