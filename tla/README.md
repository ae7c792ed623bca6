# Hola platform: formal models of the booking core and its services

The repository is a monorepo for booking sport courts: an API (`src/apps/api`, Hono, Drizzle,
PostgreSQL, Redis, BullMQ), two front ends and shared packages. The API keeps almost all the state that
matters. This directory models it where several actors meet: court slots and the bookings that hold
them, payments, refunds and promos; the requests, jobs, caches and outboxes around them; refresh tokens,
and the one piece of front-end code that keeps a protocol of its own, the session of a page.

1. Inventory, 2. Modules, 3. Runs, 4. Where the code and its documents disagree, 5. What is proved,
6. What is not modelled and why.

## 1. Inventory

### Components and their state

| component | state | operations | hard behaviour | what makes it correct |
|---|---|---|---|---|
| slots (`modules/slots`) | `slot_claims` rows: `held`, `confirmed`, `released`; Redis hold keys | reserve with takeover of lapsed holds, confirm, release, forced release, reclaim | concurrent claims decided by a partial unique index only; reclaim inside a savepoint; keys deleted by whoever releases a slot | no slot with two owners; a live hold is kept; a reclaim is all or nothing |
| bookings (`modules/bookings`) | `bookings.status`, `hold_expires_at`, items, check-in | create (web, walk-in), cancel, check-in, no-show, J-01 expiry, J-02 completion, J-03 reminder, J-04 no-show | reads before the transaction that uses them; sweepers against requests; delayed jobs that are lost | cancellation is final; expired bookings block nothing; confirmed means paid; who checked in was not absent |
| payments (`modules/payments`) | `payments.status`, `payment_webhook_events`, revenue events | create, manual, cancel, settle, sync, J-05 webhook, J-06 reconcile, J-07 expiry | at-least-once webhooks, five workers, late settlements, advisory locks that only some paths take | one open payment; paid is final; money is revenue or refunded |
| promos (`modules/promos`) | `quota_used`, `promo_redemptions.status`, a counter in Redis | reserve, apply, release, J-09, admin edits | four paths give the same reservation back; a counter kept by callbacks | the quota equals the redemptions in force; a counter does not refuse for ever |
| courts: maintenance | `court_maintenances.status` | create, create with force, cancel | overrides paid bookings | a maintenance keeps its slots |
| courts: schedule | slot duration, operating hours | admin edits | the grid is read before the court is locked | claims on one grid never overlap |
| refunds (`modules/refunds`) | `refunds.status`, destination, `payments.refund_status`, finance events | request, approve, reject, J-08, complete | an approval reads before it locks; a job identifier that is spent | never more than was paid, never paid twice, never to nowhere |
| availability | Redis cache of grids | fill, invalidate | a fill races an invalidation | no stale grid survives its TTL |
| pricing | rules, quotes | evaluate | ties between rules, rounding three times | one price per slot, a total that adds up |
| notifications | outbox rows, jobs | write, enqueue, J-25 send, J-36 retry | a crash between sending and marking | nothing forgotten, duplicates only by crashes |
| auth | refresh tokens in families | login, refresh, logout, revoke | overlapping refreshes of one token | one usable token per session |
| idempotency (middleware) | Redis response, row per key | claim, run, store, replay | a request that breaks off anywhere; a handler that fails after its commit | one effect per key |
| media | `media_files` rows, objects in a store | presign, upload, confirm, delete, J-32 | row and object in different systems | a ready file has its object |
| session of a page (`apps/web`, `packages/api-client`) | tokens in memory, the cookie all tabs share | restore, login, logout, change of password, logout everywhere, call, refresh and replay | late answers; many calls refresh at once | who logged out stays out; no token is sent twice by its page |
| jobs (`jobs`, `config/queues.ts`) | BullMQ queues | add, repeat, retry | retained job identifiers swallow new ones | part of the modules above |
| profile, admin and system, other middleware, providers, lib, the rest of the front ends | see PROJECT.json and section 6 | | | |

### How they interact

* `createBooking` runs behind the idempotency middleware. It takes a Redis key per slot, then claims slots
  and reserves a promo in one transaction; `createPayment` opens a payment for a pending booking and asks
  Midtrans for a page. Midtrans settles, and tells the API by a webhook that is stored first
  (`receiveMidtransWebhook`) and processed by a job (J-05), or when J-06 or an admin's sync asks. All of
  these end in `markPaidInScope`.
* `markPaidInScope` is the hub. It updates the payment, reads the booking, confirms or reclaims the
  slots, applies or releases the promo, writes the revenue event or an approved refund.
* J-01 expires holds, J-09 reservations of promos, J-07 payments, and with a payment its booking. They
  share rows with the requests and with each other, and nothing orders them.
* A court maintenance claims slots like a booking; with force it first cancels the bookings in the way.
* The booking's advisory lock serializes `createPayment` and `createManualPayment` among themselves.
  Settlements, expiries and cancellations do not take it: only row locks and the guards of UPDATE
  statements stand between them.
* What follows a commit (refund jobs, reminders, e-mails, cache invalidations, promo counters, Redis keys)
  is an `afterCommit` callback: it runs later, and not at all when the process dies or Redis refuses.
* A cancellation or a late settlement gives birth to an approved refund, which J-08 moves on; J-02 to J-04
  end the confirmed booking; each of these writes e-mail rows that J-25 sends and J-36 looks after.

The hazards that follow from this, each at its line with the properties that would catch it, are listed
in `PROJECT.json`.

## 2. Modules

| module | what it is |
|---|---|
| `SlotClaims` | the table `slot_claims` and every statement of `slots.repository.ts` on it, as functions from table to table; `CanInsert` and `CanReclaim` say when the unique index accepts |
| `BookingPayments` | the core: bookings, promo, payments, gateway, webhooks, refunds owed, maintenance, J-01, J-05, J-06, J-07, J-09 |
| `SlotBoard`, `SlotBoardRefinement` | the abstract specification of who has each slot and how firmly; `BookingPayments` implements it |
| `RequestBoard` | `BookingRequest` implements `SlotBoard` too, each request being a booking |
| `Refunds` | the refunds of one payment: amounts, approvals, J-08 under its job identifier, the books |
| `OnceOnly`, `Idempotency` | what an idempotency key promises; the middleware, which implements it |
| `BookingRequest` | `POST /bookings` behind `Idempotency`: Redis keys, claims, releases (extends `Idempotency`) |
| `PromoUse` | one promo with quotas per user, its counter in Redis, J-09, an admin's edits |
| `Attendance` | a confirmed booking up to its end: check-in, no-show, J-02, J-03, J-04, their delayed jobs |
| `Sessions` | refresh-token families of one user, statement by statement |
| `BrowserSession` | the pages of one browser: store, client, cookie, and the API that rotates it |
| `EmailOutbox` | one e-mail row, its job J-25, the sweep J-36 |
| `AvailabilityCache` | one cached grid |
| `MediaFiles` | one file: row, object, confirmations, deletion, J-32 |
| `CourtGrid` | the slot grid of a court, claims and edits of the schedule |
| `Pricing` | the choice of a price rule and the total of a quote, as functions |
| `MCBookingPayments`, `MCSlotBoard`, `MCRequests`, `MCServices`, `MCSweepers`, `MCOvertaking` | instances for TLC |
| `BookingPaymentsProofs` | lemmas about the statements of `SlotClaims`; types, exclusive slots and their handover, rows of bookings and maintenances, the quota |
| `MoneyProofs` | payments: the row locks, one open payment, paid is final; money is accounted for, kept once, confirmed means paid; what may take a confirmed slot; what an event of Midtrans is spent on |
| `BoardProofs` | `BookingPayments` implements `SlotBoard` |
| `RequestProofs` | `Idempotency` and `BookingRequest` implement `OnceOnly`, `BookingRequest` implements `SlotBoard`; one owner per slot and one order per key |
| `RefundsProofs` | the amounts, the books, the destinations and the finality of refunds |
| `ServicesProofs` | attendance, sessions, e-mail, media, the grid, prices and quotes, the quotas of a promo |
| `Totals` | lemmas about sums over finite sets, for the amounts of refunds and quotes |
| `BrowserProofs` | the session of a page, with any number of pages and calls |

### The core: state and actions

| variable | in the code |
|---|---|
| `claims` | `slot_claims.status` by owner (booking or maintenance) and slot; a slot is a (court, start) pair; `none` is no row |
| `bookingStatus`, `holdLapsed` | `bookings.status`; whether `hold_expires_at` is past (time only moves forward: `LapseHold`) |
| `redemption`, `quotaUsed` | `promo_redemptions.status`, `promos.quota_used` |
| `payStatus`, `payDue` | `payments.status`; whether `payments.expires_at` is past |
| `gateway` | Midtrans' own transaction (external): requested, open, settled, closed |
| `webhook` | the stored settlement event: none, received, processed |
| `refund`, `revenue` | `refunds.status` per payment; payments named by a revenue finance event |
| `maintenance` | `court_maintenances.status` |
| `paying` | the per-booking payment advisory lock |
| `settling` | a settlement transaction in flight: what it read, and whether it holds its payment row |
| `cancelRead` | what `cancelBooking` read before opening its transaction |

A transaction is one action when its row locks, or the guards of its own UPDATEs, make it equivalent
to one. It is several where a value is read and used later:

* `createPayment`: `CheckPayable` under the advisory lock, then `InsertPayment`. Between them anything
  that does not take the lock may happen.
* a settlement: `ReadPayment` (the row by order id), `LockPayment` (the UPDATE of the payment, then the
  unlocked read of the booking), then one of `SettleConfirm`, `SettleReclaim`, `SettleLostHold`,
  `SettleRecover`, `SettleTooLate`, `SettleExtra`, which make the other writes and commit. `MissPayment` is
  the UPDATE that matches no row, `AbortSettlement` a rollback at any moment.
* a manual payment inserts and settles its row in one transaction: `InsertManual`, then the same ends.
* `cancelBooking`: `ReadForCancel`, then `CancelBooking`.

READ COMMITTED hides what is not committed, so the writes of a settlement happen in its last action;
its stage `locked` keeps the payment row locked (`RowLocked`), and an UPDATE of that row by anyone else
waits, that is, is not enabled.

### The other modules: where the steps are cut

* `Refunds`: `createRefundInScope`, `approveRefund`, `markRefundCompleted` lock the payment row and are one
  step each, except that `approveRefund` reads the refund before it locks (`StartApproval`, `ApproveRefund`)
  and J-08 reads it before its UPDATE (`StartJ08`, `ProcessManualRefund`). `job` is what BullMQ knows under
  `refund-<id>`; `toEnqueue` is a committed callback that may be lost.
* `Idempotency`: every await of the middleware is a step: Redis (`ReadCacheHit`, `ReadCacheMiss`), the INSERT
  (`Claim`), `ReadRecord`, the handler (`HandlerCommits`, `HandlerFails`), `ForgetRecord`, `StoreResponse`,
  `StoreInCache`; `BreakOff` is a process that dies or a connection that ends at any of them. The handlers of
  bookings, manual payments and refunds are one transaction and their answer; that of `POST /payments` commits
  its row and then asks the provider (`ProviderAnswers`), so it may fail when it has taken effect. The rows of
  payments carry the key under a unique index of their own (`PaymentKeyFree`).
* `BookingRequest`: one SET NX per slot, then the transaction, then the deletions; `deleting` are keys that
  the callback of some release will delete, whoever has set them meanwhile. `Direct` are requests that do
  not pass the keys.
* `PromoUse`: a use reads the counter, then locks the promo's row (`asking`) until it commits or rolls back;
  the INCR and DECR follow as callbacks; J-09 reads and stores the counter in two steps; an admin reads the
  row before the transaction that edits it.
* `Attendance`: `ReadForCheckIn` and `CheckInBooking` are apart; a run of a job is one step; jobs are `none`,
  `waiting` or `ended`, and an ended one swallows an add under its identifier.
* `Sessions`: every statement of a rotation, a login, a logout or a revocation is a step; `work` says which
  rows a transaction has written, and those wait for it.
* `BrowserSession`: a request about the session is sent with the cookie of that moment, is served, its headers
  reach the browser, and the code that awaits it goes on: four steps, and any of them may fail on the way. All that
  writes the store of `auth-store.ts` is there: `EndRestore`, the only one that compares revisions (`MayPublish`),
  `EndLogin`, `Leave`, `EndPassword` (the form of the password), `EndEverywhere` (logout from all devices) and the
  failure of a refresh. The last two calls of the account are sent like any call of the page, so that they may find
  their access token expired first, and are served by `CallServed`.
* `EmailOutbox`: the provider is called between the read and the UPDATE; a worker dies anywhere, once per job
  without consequence (BullMQ runs a stalled job again), twice and the job has failed.
* `AvailabilityCache`: a miss, the reads of calendar and claims, and the write of the grid are separate steps.
* `MediaFiles`: row and object change in separate steps; the storage may refuse, or remove the object and
  report an error (`doubtful`).
* `CourtGrid`: a claim reads the schedule, then locks the court and inserts; an edit of the slot duration is
  read and written under a version, an edit of the hours is not. Time is counted in half hours.
* `Pricing`: pure functions; an inquiry chooses its inputs, an answer applies them. The code sorts the prices to
  give the cheapest slots away; the module takes a set of slots that no other slot undercuts (`Cheapest`).

Requests that are rejected change nothing and are absent, unless their answer matters. Operators marked
"Faulty" stand beside the definition they distort: they are what the properties have been checked to be able
to refute (`mutants` in `PROJECT.json`).

### Abstractions

* Slots, customers, bookings, payments, keys, bodies are model values. In the core, amounts are reduced to "0
  or not" (`FreeBookings`), because a refund of 0 violates a CHECK and rolls the whole transaction back; in
  `Refunds` and `Pricing` they are numbers.
* The core takes the refund policy as a nondeterministic verdict (`RefundOwed`), and so does `Refunds` (`Owed`):
  its arithmetic does not influence the protocol.
* One promo, one refunded payment, one attended booking, one e-mail, one cached grid, one file, one court: the
  others of their kind share nothing with it in the code that is modelled.
* Time is a set of one-way flags; `Attendance` counts stations of one clock. No step depends on a duration
  beyond the order of these.
* When a booking has several paid payments the code takes the latest; the core takes any.
* `completed` and `no_show` are reached in `Attendance`, not in `BookingPayments`, whose confirmed bookings only
  end by cancellation: J-02 and J-04 touch no payment and no claim.
* `Sessions`: the sessions beyond the limit are the oldest by insertion; the code orders by `last_used_at`, the time of
  the request that inserted the row, which is another order only for requests that overlap.
* `BrowserSession`: the API serves a request in one step, authentication included (`Sessions` has its statements); a
  refusal is a failed request, since pages do not tell them apart; a page has one change of the password and one logout
  everywhere under way; ending one other session (`DELETE /auth/sessions/:id`) is left out; a restore does not
  last as long as an access token lives; calls of a page without a session need no token and are left out;
  reloading a page is the loss of its answers followed by `Open`.

## 3. Runs

Bounds are the sets and numbers in the `.cfg` files, named there; there are no state constraints. Counters are
bounded by them: a booking is created once, a payment inserted once, a promo edited `MaxPatches` times, a token
issued `MaxTokens` times. `CHECK_DEADLOCK FALSE` everywhere, because such an instance really comes to rest when
everything in it is over. Symmetry permutes what the specification treats alike (slots, workers, maintenances,
the payments of one booking, refunds, staff, the two equal requests), and no run with a liveness property uses it.

`MCRequests`, `MCServices`, `MCSweepers` and `MCOvertaking` hold several specifications that share nothing. A behaviour chooses
one of them (`part`) and the others stay in their first state, where none of their actions is fair.

| run | instance | shows |
|---|---|---|
| `concurrent` | 1 booking, 1 slot, 2 payments, 2 settlements in flight | types; one open payment; a confirmed booking has a paid, recorded, unreturned payment; an expired booking rises only by money; cancelled is final; paid is final |
| `late_payment` | 2 bookings, one free, on 1 slot, 3 payments | money that comes in is revenue or on its way back; the settling step leaves all slots confirmed or refunds; expired bookings block nothing |
| `overtaking` | 2 bookings on 2 slots, 1 promo with quota 1, 1 payment; a page with 2 calls and 3 tokens | exclusive slots, live holds kept, exact quota, handovers only off lapsed holds; a page that logged out gets a session back from the answer to a change of the password only, and never shows a token it has spent |
| `maintenance` | 2 maintenances, a booking and a walk-in on 2 slots | a maintenance keeps its slots; refinement of `SlotBoard` with takeover, reclaim and override |
| `sweepers` | 1 booking, 1 payment; a promo with 2 uses of one customer and 1 edit | J-01 and J-09 end every lapsed hold and reservation; a promo with room is not refused for ever; quota per user |
| `requests` | `POST /bookings` sent twice under one key beside a rival that wants one of its 2 slots, with failures; 2 refunds of one payment under 2 admins | one owner per slot, one order per key; refunds never exceed the payment, the payment's columns tell them, books, destinations, never paid twice |
| `services` | 2 staff at the desk; 4 tokens; 2 attempts, 2 events and 2 deaths for an e-mail; 2 readers and 2 changes of a grid; 2 confirmations of a file; 4 requests under one key; 2 claims and an edit of a court; 10 price rules, quotes of 1 or 2 lines | attendance, sessions, e-mail, cache, media, `Idempotency` implements `OnceOnly`, grid, prices; and what the repeated jobs and the TTL make happen |
| `v_...` | | the disagreements of section 4 |

Why this is enough to be interesting. Two payments with two settlements are what every race on payment rows
needs (a settlement against a settlement, a new attempt, or an expiry of the other attempt); two bookings on
two slots are what a partial loss needs (one slot of two sold to someone else), and the third payment lets
a late one meet a booking that has one already. A retry, its original and a rival for one of two slots are
what it takes for a key in Redis to be deleted by one request while another relies on it. Two refunds of half
the amount, and automatic ones of all of it less the gateway fee, are what it takes to exceed a payment. Four
tokens allow two logins with overlapping rotations, or a third session over a limit of two. Two deaths are what
BullMQ needs to give up a stalled job. Two calls of a page are what a shared refresh needs, three tokens let
it happen after a first one, or a change of the password beside a logout and a restore. Four requests of one key are a payment, its
retry, the retry with another body and an operation of another scope; `payment.manual`, a second scope that inserts payments,
is left to the theorem. Three rules of ten give every pair that ties in some prefix of the order of
precedence. The theorems below remove the bounds for every safety property of the passing runs.

### Fairness

| where | assumed | because |
|---|---|---|
| `SweeperFairness` | weak: `SweepHolds`, `SweepPromos` | `jobs/index.ts` registers J-01 and J-09 as repeatable jobs every minute, and their UPDATEs test only the rows themselves |
| `PromoUseFairness` | weak: J-09, callbacks, ends of transactions; strong: `StoreCounter` | J-09 repeats every minute, and Redis is not down for ever; that the key is lost is never assumed |
| `AttendanceFairness` | weak: time, the no-show job; strong: a run of J-02 that reaches its callbacks | J-02 runs every 15 minutes, and some run of it is not interrupted |
| `EmailFairness` | weak: J-36, the worker, the provider's answer, recording a failure | J-36 runs every 5 minutes; the client of the provider has a timeout |
| `AvailabilityFairness` | weak: TTL, callbacks, readers | Redis ends a key's life by itself |
| `MediaFairness` | weak: the URL ends, a row grows old, J-32 comes; strong: its steps up to the removal | J-32 comes back weekly, and some week the storage answers |
| `Fairness` of `Refunds`, for `v_refund_stuck` | weak: the callback, the start of J-08, approvals; strong: the UPDATE of J-08 | more than BullMQ gives, so that the counterexample cannot be blamed on retries that ran out |

Nothing is assumed of customers, of Midtrans, of admins or of the settlement jobs.

## 4. Where the code and its documentation disagree

Each of these is a run that TLC ends with a counterexample; `PROJECT.json` quotes the lines.

| run | the documents | the code |
|---|---|---|
| `v_expired_money` | money for an expired payment is taken through the same path | J-07 expires the payment between the read and the UPDATE, which matches nothing; the event is completed and the money forgotten |
| `v_late_j07` | a confirmed claim is released by cancellation only | J-07 of a second payment releases the slots of a booking that its first payment confirmed |
| `v_cancel_refund` | cancelling a paid booking requests its refund | a cancellation that read the booking as unpaid requests none |
| `v_refund_stuck` | completing the destination of an approved refund makes J-08 move it | the job was added before the destination was known, has ended under its identifier, and the second add is ignored |
| `v_overlap` | comparing start times keeps claims of a court apart | new operating hours shift the grid by less than a slot, and nothing asks about the claims on the old one |

Met while reading, and not turned into runs of their own.

Payments and bookings:
* A settlement that read a booking as pending confirms the slots of a booking that was cancelled meanwhile
  (`payments.service.ts:195`); a forced maintenance on one slot of a booking leaves its other slots claimed
  (`slots.service.ts:515`); the branch that recovers an expired booking does not apply its promo
  (`payments.service.ts:221`); money for a superseded payment is refused on every retry (`payment-state.ts:17`).
* `released` is called terminal (03-DATA-MODEL.md:1402) but a reclaim revives it (`slots.repository.ts:259`); a
  payment may be created for a booking that has just ceased to be pending (07-MODULE-PAYMENT.md:468, part of the
  trace of `v_late_j07`); an expiry reported by the provider does not expire the booking
  (07-MODULE-PAYMENT.md:528 against `payments.service.ts:583`); the limit of two confirmed bookings per day
  (06-MODULE-BOOKING.md:89) is read from the settings (`bookings.repository.ts:44`) and never enforced; walk-ins
  cannot be cancelled; `claimSlots` (`slots.service.ts:175`) is called by nobody.
* `PaymentStatus` tells a customer that the booking is confirmed for every paid payment, also a refunded one.
* One race that reads alarming is not one: two settlements of the same booking that both saw it as pending.
  `createPayment` cannot supersede a payment while a settlement holds its row, and cannot insert beside it, so
  there is never a second pending payment for the second settlement to hold. `PaidIsAccounted` checks it.

Refunds and promos:
* A partial refund that was approved makes the automatic refund of `cancelBooking`, and of a forced maintenance,
  fail, and with it the cancellation (`refunds.service.ts:101`); `refund_status` can go back from full to partial
  after a refund that kept the gateway fee.
* Lowering `quota_total` below what is used is possible and breaks BR-PR-40; `releasePromo` decrements, and so
  creates, a counter for promos without a quota, against BR-PR-37.

Attendance and pricing:
* `round.ts:8` says that amounts are rounded for the price of a slot (P3) and for the total (P10) only; the tax
  (`pricing-pipeline.ts:286`) and the discount (`promo-discount.ts:49`) are rounded too, as `Pricing` has it.
* Staff may mark a no-show after a check-in; a J-04 that has failed is retained and not revived by J-02.
* `matchingPriceRule` (`pricing-pipeline.ts:120`) never compares the date of a rule with the slot's, and nothing before it
  does: on a date that has a price rule of its own, the rule of another date may set the price. One slot without
  a price makes the whole availability grid fail (`availability.service.ts:84`) although the schema says that only
  that slot is not sold.

Requests, e-mail, media:
* `POST /payments` may answer a failure of the provider with its payment already committed
  (`payments.service.ts:331` against `:383`). The middleware then forgets the key so that a failure may be tried
  again with it (`idempotency.ts:178`), but the retry inserts a second payment with the key of the first and
  `uq_payments_idempotency_key` refuses it: only a new key helps. `OnceOnly` therefore excepts such operations
  from "nobody is told that nothing happened when it did" (`MayFailLate`).
* Idempotency records are never deleted and `expiresAt` is never compared (04, section 8); a retry with the same
  body is told that the key was reused when the original fails at the same moment (`idempotency.ts:160`).
* J-36 takes the oldest 100 rows, and rows that it can never send stay among them (`notification.service.ts:221`).
* A file is put back to pending after a failure of the storage that may have removed its object
  (`media.service.ts:298`); an upload that ends after the deletion leaves an object that nobody owns.

Sessions:
* A change of the password that is under way when the customer logs out logs the page in again:
  `PasswordChangeForm.tsx:60` publishes its answer without the comparison of revisions that a restore makes.
  `LeftStaysOut` names it as the one exception.
* Overlapping rotations exceed the limit of sessions (`auth.service.ts:155`).
* Two tabs that refresh the same cookie at once trigger the detection of reuse, although the comment at
  `auth-store.ts:85` counts tabs as covered: `NoFalseReuse` holds for the calls of one page only.
* A logout with an access token older than 15 minutes is answered 401: the cookie and the session stay although
  `logout.ts:4` says they are revoked, and the next load of a page restores them. A refresh in flight at logout
  leaves a token in the closure of the client (`api-client/src/index.ts:119`) or a live cookie. A revoked cookie is
  never cleared, so that every load of a page raises the token version again.

## 5. What is proved

TLAPS proves these theorems for every value of the constants that satisfies the named assumptions of the modules:
`CoreAssumption` (finitely many bookings; each payment belongs to one booking and each booking to one customer;
limits are naturals), `OwnersDisjoint` (bookings and maintenances have different identifiers), `NobodyAssumption` (the
marker for an empty slot is no owner), and for the other modules `IdempotencyAssumption`,
`BookingRequestAssumption`, `RefundsAssumption`, `AttendanceAssumption`, `SessionsAssumption`, `CourtGridAssumption`,
`PromoUseAssumption`, `EmailAssumption`, `MediaAssumption` and `BrowserSessionAssumption`, which give the constants
their types and make the sets finite that something is counted or summed over, and `PricingAssumption` (a table of
rules with distinct identifiers, prices that are naturals). Nothing else is assumed, and no fairness. Some
theorems state what no run checks: `ChargedOnce`, `NoticeNotWasted`, `ConfirmedLostKnowingly`, `AppliedPromoStays`,
`UsedIsExact`, `AddedWithinQuota`, `OrdersImplementBoard`.

| module | theorem | establishes |
|---|---|---|
| `BookingPaymentsProofs` | `TypeCorrect` | `[]TypeOK` |
| | `NoDoubleBooking` | `[]SlotExclusive` |
| | `RowsCorrect` | `[]RowsInv`, the relation between a booking's status and its claims |
| | `HoldsKept`, `ExpiredBlocksNothing` | `[](LiveHoldKept /\ ExpiredOwnsNothing)` |
| | `MaintenanceHolds` | `[]MaintenanceKept` |
| | `QuotaKept` | `[]QuotaExact` |
| | `AppliedKept` | `AppliedPromoStays` |
| | `FairHandover` | `HandoverOnlyOffLapsedHold` |
| `MoneyProofs` | `OneOpenPayment` | `[]OnePendingPayment` |
| | `LocksCorrect` | `[]LockInv`, what may be locked by whom |
| | `SettledOnce` | `PaymentIsSettledOnce` |
| | `MoneyCorrect` | `[]MoneyInv`, the relation between money, bookings and what transactions have read |
| | `MoneyAccounted` | `[]PaidIsAccounted` |
| | `ConfirmedPaid` | `[]ConfirmedIsPaid` |
| | `RiseByPayment`, `CancelledFinal` | `RiseOnlyByPayment`, `CancelledIsFinal` |
| | `PaymentBuysSlots` | `PaidBuysSlots` |
| | `ChargedAtMostOnce` | `[]ChargedOnce`: of the payments of a booking at most one is kept |
| | `NoticeSpentOnce` | `[]NoticeNotWasted`: an event is completed only when its payment waits no more |
| | `ConfirmedKept` | `ConfirmedLostKnowingly`: who may take a confirmed slot |
| `BoardProofs` | `BoardImplemented` | `ImplementsBoard`, the refinement of `SlotBoard` |
| `RequestProofs` | `IdempotencyTypeCorrect`, `RowsOwned` | types; `[]RowsAreOwned` |
| | `PromiseKept` | `KeepsThePromise`, the refinement of `OnceOnly` |
| | `OneOwnerPerSlot` | `[]SlotHasOneOwner` |
| | `WholeOrNothing` | a booking in force owns every slot it asked for or none |
| | `OrderedOnce` | `[]OneOrderPerKey` |
| | `OrdersKeepPromise` | `KeepsThePromise`, for `BookingRequest` |
| | `OrdersOnBoard` | `OrdersImplementBoard`, the refinement of `SlotBoard` by the orders |
| `RefundsProofs` | `RefundsTypeCorrect` | types |
| | `RefundsBooked` | `[]RefundsAreBooked` |
| | `DestinationKnown` | `[]PaidToKnownDestination` |
| | `PaidOnce` | `NeverPaidTwice` |
| | `AllocationBounded` | `[]AllocatedWithinPayment` |
| | `ColumnsTell` | `[]PaymentTellsRefunds` |
| `ServicesProofs` | `AttendanceDecided` | `[]AttendanceDecides` |
| | `OneLiveToken`, `ExchangedOnce` | `[]OneLivePerFamily`; a token has at most one successor |
| | `OverlapByRegrid` | `[]OverlapMeansRegridded` |
| | `OfferedClaimable` | `[]OfferedIsClaimable` |
| | `UserQuota` | `[]UserQuotaKept` |
| | `UsedCountsExactly` | `[]UsedIsExact`: `quota_used` counts the redemptions in force |
| | `UseWithinQuota` | `AddedWithinQuota`: nothing is counted beyond the total quota |
| | `HandedOverOnce` | `[]SentTwiceOnlyByCrash` |
| | `ReadyStored` | `[]ReadyHasObject` |
| | `OnePriceForASlot` | `[]PriceIgnoresRowOrder` |
| | `QuotesAddUp` | `[]QuoteAddsUp` |
| `BrowserProofs` | `BrowserTypeCorrect` | types |
| | `LeftStaysLeft` | `LeftStaysOut` |
| | `NeverReused` | `[]NoFalseReuse` |

**Slots.** `SlotExclusive` is inductive given the types: each statement either deactivates rows
(`ShrinkKeepsExclusive`), or activates rows that the index has just accepted (`InsertKeepsExclusive`,
`ReclaimKeepsExclusive`, `ForcedInsertFits`). `LiveHoldKept`, `ExpiredOwnsNothing` and `MaintenanceKept` are
not: `RowsInv` adds that a booking not yet made has no rows and that a pending one has no confirmed row, without
which a settlement could turn a lost hold into a whole one. `FairTake` is the reason for `FairHandover`: a row of a
booking becomes active only where the index saw nothing but what the takeover had just released.

**The promo of the core.** `QuotaExact` needs one more fact, in `PromoInv`: a booking that is not made yet has no
redemption. `EveryPromoMove` reduces all steps to four moves on the counter (reserve, apply, release a set, nothing).

**Payments.** `OnePendingPayment` is inductive: the lemmas `EveryMove` and `PaymentStepCases` reduce the steps to
one that inserts (and supersedes first), steps that end one pending payment, and commits. `PaymentIsSettledOnce`
needs `LockInv`: a settlement that holds a row found it pending or expired, and it stays so, because nobody ends
or supersedes a locked row, two settlements never hold the same row, and a manual payment, which supersedes all
pending rows when it commits, waits for every settlement that holds one.

**Money.** No single fact about payments and bookings is inductive, because a settlement decides on the status that it
read. `MoneyInv` names what makes those stale reads harmless. A payment exists only for a booking that was made
(`Made`). When a payment expired while its gateway transaction may be settled, J-07 expired it and so its booking
is no longer pending (`LateIsOver`). A payment that carries revenue is paid and its booking confirmed or
cancelled (`RevenueStands`), and only a paid payment has a refund (`RefundOfPaid`). A settlement of the gateway
locks only what the gateway has settled (`LockedIsSettled`); while one that read its booking as pending holds its
row, no payment of that booking has expired late or carries revenue (`PendingStaysUnsold`);
a cancellation refunds only payments of its own booking (`CancelReadsOwn`). The lemma `SettlesAlone` is the heart of
it: no two settlements of one booking run together when one of them read the booking as pending. `OneRevenue` adds that
the books name one payment of a booking: with `PaidIsAccounted` every other paid payment is on its way back.

What the documents say of a confirmed slot and of an event of Midtrans is refuted in section 4; the theorems say what is
true instead. `ConfirmedKept`: a confirmed slot goes only with its booking, by a cancellation, or to J-07 expiring a
payment of that booking. The hard case is `SettleLostHold`, which releases all rows of a booking that it read as pending: had the
booking been confirmed since, another payment would have bought it, against `PendingStaysUnsold`, and a walk-in, which needs no payment, is
never read as pending (`CounterSales`). `NoticeSpentOnce`: an event may be completed for a payment that was not
settled, but never for one that still waits; a settlement that misses its row has read one that exists (`ReadExists`), and
nothing returns to pending.

**The board.** The refinement needs no more than the invariants above: with one owner per slot `holder` is well
defined (`BoardRead`), and the lemmas `TakeStep`, `DropStep`, `RegainStep`, `OverrideStep`, `FirmUpStep` and
`SweepStep` turn what a statement writes row by row into a step of the board. `RowsInv` supplies that a new owner
has no rows, and that a booking that is recovered had no active one.

**Idempotency.** `RowsAreOwned` is the inductive invariant: a request that runs the handler, or is about to forget or
complete its row, owns the row of its key, and a request that took effect keeps its row under its own name, unless it is
a payment that failed after its commit (`GaveUp`). So a second request reaches the handler only behind such a payment, and
the unique key of payments refuses it when it is a payment too; a row replays, and Redis has, only the outcome of a request
that `Succeeded`. Hence every step of the middleware performs, tells, or stutters (`PromiseStep`). `BookingRequest` runs the same
middleware: its other steps are stutters to it, and the theorems carry over. `ClaimsInv` adds the slots: only a handler
that has committed owns any, and two owners of a slot are excluded by the index whatever the Redis keys say. So the
orders can be read as the bookings of `SlotBoard` (`RequestBoard`): the holder of a slot is its one owner, a walk-in is
firm at once, and what `ClaimsInv` says of the whole claim makes a release a `Drop` of all that the order has.

**Refunds.** `RefundsInv`: a destination is never taken away and the terms of a refund never change, so what J-08 has read
is still true when it writes (`SeenIsThere`); accruals and settlements follow the status. The amounts need `AmountsInv`: an approval
that has read its refund as approved, before it locked the payment, leaves its amount out of what is already given
away, so such a refund must still be in force (`ReadApprovedStands`); and amounts are positive, so that a completion
moves the columns. The sums are those of `Totals`. Its recursive sum is no induction over data for the
provers: that the recursion has a solution, that it has one only and that the order of summation does not matter is each
shown by contradiction on a smallest subset that would violate it, which exists because strict inclusion of finite sets is well-founded.

**Services.** `AttendanceInv` adds that a no-show by the job is final, so that a check-in in flight finds nothing to
check in. `SessionsInv`: the row that a rotation claimed is live and locked by nobody else until it ends (`LocksInv`), and
the parent of every token is revoked and of the same family (`TokensInv`); so a rotation that commits replaces the only
live token of its family. `GridInv`: every claim is aligned on the schedule it was read with and one slot of it long, and
no two have the same start; on schedules that cut the day alike, starts are whole slots apart (`WholeSlotsApart`).
`PromoInv`: the use that `UserQuotaKept` points at may be given back, so every set of a customer's redemptions needs such a
use of its own (`Bounded`), and while one transaction has counted under the row lock nothing is added (`Counted`).
`UsedInv` adds that whoever holds the row lock found room that nobody can take (`HolderHasRoom`); the count is exact, so the
`GREATEST(0, ...)` of a release never cuts anything off.
`EmailInv` pays for every copy that the provider has: before it is asked, each was followed by a death (`CopiesPaid`),
which holds because a row not written yet has no job (`BeforeTheRow`). `MediaInv`: a sweep or a deletion hides the row before
the object goes (`SweepHides`), so what a confirmation in flight may still make ready has its object (`ObjectSeen`).

**The session of a page.** `LeftStaysOut` is an action property: with `LeftBars` (a restore that began before its page was
left is outdated) `LeftStep` goes through what a page does, and only the answer to a change of the password gives a page
that was left another token. `SpendInv` is
a conjunction: a page has one refresh under way at most (`OneRefresh`); a token that was not issued is known to nobody
(`UnissuedUnknown`); a token on its way to a page is on its way once, and nobody sends it before the browser has it
(`PostedOnce`); only an answer that tells of tokens brings one (`TokensTold`); a page that exchanged a token sends it no
more: the cookie has moved on, or the refresh that will move it is still under way (`SpentUnsent`); what was found to be used
again is spent for good (`AlarmsStand`). `NoFalseReuse` alone is far from inductive: which token a request shows is decided by
the cookie at the moment it is sent, several steps after the answer that replaced it.

**Prices.** `SortsBefore` compares two rules by a list of keys that ends in their identifiers, so it is a total order on the
rules of a table (`SortsTotally`, `SortsTransitively`), a finite set of them has one first rule (`OneComesFirst`), and every listing of the table
yields it. A quote adds up because rounding to hundreds is monotone and moves a total by at most fifty (`RoundedIsNear`,
`RoundingIsMonotone`), and a discount is a part of its base (`DiscountIsPart`).

Only model-checked, not proved: liveness (`LapsedHoldEnds`, `RoomIsOffered`, `PastBookingEnds`, `QueuedMailIsTried`,
`StaleGridEnds`, `DeletedGoesAway`), which is out of the prover's reach. Every invariant, action property and
refinement that a passing run checks has its theorem.

The violated properties of section 4 are no theorems, of course: TLC refutes them.

## 6. What is not modelled and why

The map covers about a tenth of the 54,602 implementation lines, because most of them are not the program's logic.
About 19,000 are the API. The others are user interfaces: `apps/web` (12,500), `apps/admin` (13,700, with an
analytics dashboard over demo data), and `references` (7,700, a visual prototype that nothing imports).
Components with status `partly` say in PROJECT.json what they leave out.

* **Pages and forms**, except those that write the session's store. They display what the API answered and send what
  the user typed; the server decides everything again. The checkout's idempotency key is chosen per selection of slots, the pay button's per click:
  both reach the models as the keys of `Requests`, in any combination.
* **Rate limiting** is one atomic Lua script that lets requests through when Redis is down: there is nothing to
  interleave, and the models start where a request reaches its handler. **Authentication** of a request, errors,
  logging: the same.
* **The cache of user contexts** (60 s) and reads by the admin pages that are stale for a moment: no step of the
  modelled code decides by them, except whether a revoked access token is still accepted.
* **Registration, verification, password mail, profile, settings, audit log, staff notes, sports, special dates,
  edits of price rules**: one statement each on rows that no other step reads in the middle of something. The
  special date reaches `Pricing` as an input.
* **The range query of the availability** fills several keys one after the other, each as in `AvailabilityCache`.
* **Backup, clean-up of tokens, templates, parsing of Midtrans' messages**: I/O and formatting.
* **Lock order.** `markPaidInScope` updates claims before the booking, `cancelBooking` and J-07 the other way round.
  PostgreSQL breaks such a deadlock by rolling one transaction back, which the models have as `AbortSettlement` and
  as requests that do not happen; a deadlock as such is no state of theirs.
* **Deliveries of J-05 and J-06.** The core lets them happen at any time and any number of times, or never; their
  attempts are not counted.
