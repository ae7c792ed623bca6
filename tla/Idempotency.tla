----------------------------- MODULE Idempotency -----------------------------
(***************************************************************************)
(* The middleware idempotency around the handlers of POST /bookings,       *)
(* /payments, /payments/manual and /refunds: a response cached in Redis, a *)
(* record per key in PostgreSQL that the first request claims, the         *)
(* handler, and the response stored for the requests that repeat it.       *)
(*                                                                         *)
(* A retry is a request of its own with the same call.  Every await of the *)
(* middleware separates two steps.  A record is unique on the key alone;   *)
(* its scope and body are those of the request that inserted it.  A        *)
(* handler is one transaction, and then its answer; only that of POST      *)
(* /payments goes on to the payment provider, which may fail it when its   *)
(* payment is already committed.                                           *)
(***************************************************************************)
CONSTANTS
    Requests,   \* requests that clients send, retries included
    Keys,       \* Idempotency-Keys
    Scopes,     \* names of operations: "booking.create", "payment.create", ...
    Bodies,     \* hashes of canonical bodies
    Call,       \* key, scope and body of each request
    Faults      \* of "redis", "break off": what may fail

ASSUME IdempotencyAssumption ==
    /\ Call \in [Requests -> [key : Keys, scope : Scopes, body : Bodies]]
    /\ "nobody" \notin Requests

VARIABLES
    stage,      \* how far each request has come
    record,     \* idempotency_records: who inserted the row, whose response it has
    cached,     \* requests whose response is in Redis
    reply,      \* what the client was answered, and whose response it was
    executed    \* requests whose handler has committed

idempotencyVars == <<stage, record, cached, reply, executed>>

-----------------------------------------------------------------------------
Nobody == "nobody"
Stages == {"new", "missed", "conflicted", "running", "committed", "failed", "done", "stored",
           "answered"}
Answers == {"none", "created", "replayed", "reused", "busy", "failed", "error"}

NoRecord == [by |-> Nobody, response |-> Nobody]
Unanswered == [kind |-> "none", from |-> Nobody]

KeyOf(q) == Call[q].key
SameSlotInRedis(p, q) == Call[p].scope = Call[q].scope /\ KeyOf(p) = KeyOf(q)

At(q, s) == stage[q] = s
GoTo(q, s) == stage' = [stage EXCEPT ![q] = s]

Answer(q, kind, from) ==
    /\ reply' = [reply EXCEPT ![q] = [kind |-> kind, from |-> from]]
    /\ GoTo(q, "answered")

\* The last step of the middleware was taken; its answer may be cut off.
AnswerOrBreakOff(q, kind, from) ==
    \/ Answer(q, kind, from)
    \/ "break off" \in Faults /\ Answer(q, "error", Nobody)

\* The handler goes on to the provider once its transaction has committed.
CallsProvider(q) == Call[q].scope = "payment.create"

\* Its row carries the key, in the unique column that no other payment repeats.
InsertsPayment(q) == Call[q].scope \in {"payment.create", "payment.manual"}
PaymentKeyFree(q) ==
    InsertsPayment(q) => \A p \in executed : InsertsPayment(p) => KeyOf(p) # KeyOf(q)

IdempotencyInit ==
    /\ stage = [q \in Requests |-> "new"]
    /\ record = [k \in Keys |-> NoRecord]
    /\ cached = {}
    /\ reply = [q \in Requests |-> Unanswered]
    /\ executed = {}

-----------------------------------------------------------------------------
(* Layer 1.  Redis that fails reads as a miss.                              *)
ReadCacheHit(q) ==
    /\ At(q, "new")
    /\ \E p \in cached :
        /\ SameSlotInRedis(p, q)
        /\ IF Call[p].body = Call[q].body
           THEN Answer(q, "replayed", p)
           ELSE Answer(q, "reused", Nobody)
    /\ UNCHANGED <<record, cached, executed>>

ReadCacheMiss(q) ==
    /\ At(q, "new")
    /\ "redis" \in Faults \/ \A p \in cached : ~SameSlotInRedis(p, q)
    /\ GoTo(q, "missed")
    /\ UNCHANGED <<record, cached, reply, executed>>

(* Layer 2: the INSERT, decided by the unique index.                        *)
Claim(q) ==
    /\ At(q, "missed")
    /\ IF record[KeyOf(q)] = NoRecord
       THEN /\ record' = [record EXCEPT ![KeyOf(q)] = [by |-> q, response |-> Nobody]]
            /\ GoTo(q, "running")
       ELSE /\ GoTo(q, "conflicted")
            /\ UNCHANGED record
    /\ UNCHANGED <<cached, reply, executed>>

\* Faulty: only the key is compared.
SameKey(row, q) == row.by \in Requests /\ KeyOf(row.by) = KeyOf(q)

\* The row at hand is one of the same operation with the same body.
Matches(row, q) == row.by \in Requests /\ Call[row.by] = Call[q]

(* After the conflict the row is read by a statement of its own; it may be  *)
(* gone by then.                                                            *)
ReadRecord(q) ==
    /\ At(q, "conflicted")
    /\ LET row == record[KeyOf(q)] IN
        CASE ~Matches(row, q) -> Answer(q, "reused", Nobody)
          [] Matches(row, q) /\ row.response = Nobody -> Answer(q, "busy", Nobody)
          [] Matches(row, q) /\ row.response # Nobody -> Answer(q, "replayed", row.response)
    /\ UNCHANGED <<record, cached, executed>>

-----------------------------------------------------------------------------
(* next(): the handler commits its transaction, or answers 4xx or 5xx with  *)
(* nothing committed.  A payment of nothing is settled in the transaction.  *)
HandlerCommits(q) ==
    /\ At(q, "running")
    /\ PaymentKeyFree(q)
    /\ executed' = executed \cup {q}
    /\ GoTo(q, "done") \/ (CallsProvider(q) /\ GoTo(q, "committed"))
    /\ UNCHANGED <<record, cached, reply>>

HandlerFails(q) ==
    /\ At(q, "running")
    /\ GoTo(q, "failed")
    /\ UNCHANGED <<record, cached, reply, executed>>

(* createTransaction at the provider and saveGatewayTransaction; whatever   *)
(* fails, or a payment no longer pending, is an answer 4xx or 5xx.          *)
ProviderAnswers(q) ==
    /\ At(q, "committed")
    /\ GoTo(q, "done") \/ GoTo(q, "failed")
    /\ UNCHANGED <<record, cached, reply, executed>>

\* Faulty: the record goes whatever the handler did.
MayAlwaysForget(q) == stage[q] \in {"failed", "done"}
MayForget(q) == At(q, "failed")

(* A failure may be tried again with the same key, whatever was committed.  *)
ForgetRecord(q) ==
    /\ MayForget(q)
    /\ record' = IF Matches(record[KeyOf(q)], q)
                 THEN [record EXCEPT ![KeyOf(q)] = NoRecord] ELSE record
    /\ AnswerOrBreakOff(q, "failed", Nobody)
    /\ UNCHANGED <<cached, executed>>

StoreResponse(q) ==
    /\ At(q, "done")
    /\ record' = IF Matches(record[KeyOf(q)], q)
                 THEN [record EXCEPT ![KeyOf(q)] = [by |-> @.by, response |-> q]] ELSE record
    /\ GoTo(q, "stored")
    /\ UNCHANGED <<cached, reply, executed>>

\* SET overwrites what the key held; Redis may be down.
StoreInCache(q) ==
    /\ At(q, "stored")
    /\ \/ cached' = {p \in cached : ~SameSlotInRedis(p, q)} \cup {q}
       \/ "redis" \in Faults /\ UNCHANGED cached
    /\ AnswerOrBreakOff(q, "created", q)
    /\ UNCHANGED <<record, executed>>

-----------------------------------------------------------------------------
\* The TTL of 24 hours, an eviction, a corrupt or outdated value.
LoseCached(p) ==
    /\ p \in cached
    /\ cached' = cached \ {p}
    /\ UNCHANGED <<stage, record, reply, executed>>

(* The process dies or PostgreSQL stops answering: nothing that the request *)
(* had still to do is done, and the client is left with no answer or a 5xx. *)
BreakOff(q) ==
    /\ "break off" \in Faults
    /\ stage[q] \notin {"new", "answered"}
    /\ Answer(q, "error", Nobody)
    /\ UNCHANGED <<record, cached, executed>>

MiddlewareStep(q) ==
    \/ ReadCacheHit(q) \/ ReadCacheMiss(q) \/ Claim(q) \/ ReadRecord(q)
    \/ ForgetRecord(q) \/ StoreResponse(q) \/ StoreInCache(q)

IdempotencyNext ==
    \/ \E q \in Requests :
        \/ MiddlewareStep(q) \/ BreakOff(q)
        \/ HandlerCommits(q) \/ HandlerFails(q) \/ ProviderAnswers(q)
    \/ \E p \in Requests : LoseCached(p)

IdempotencySpec == IdempotencyInit /\ [][IdempotencyNext]_idempotencyVars

-----------------------------------------------------------------------------
IdempotencyTypeOK ==
    /\ stage \in [Requests -> Stages]
    /\ record \in [Keys -> [by : Requests \cup {Nobody}, response : Requests \cup {Nobody}]]
    /\ cached \subseteq Requests
    /\ reply \in [Requests -> [kind : Answers, from : Requests \cup {Nobody}]]
    /\ executed \subseteq Requests

\* Who holds a row that nobody has completed or given up.
OwnsRecord(q) == stage[q] \in {"running", "committed", "failed", "done"}

\* A payment was committed, then failed: its row may be given up all the same.
GaveUp(q) == CallsProvider(q) /\ reply[q].kind \in {"failed", "error"}

\* It took effect, keeps its row, and has not failed afterwards.
Succeeded(q) ==
    /\ q \in executed /\ record[KeyOf(q)].by = q
    /\ stage[q] \notin {"committed", "failed"} /\ reply[q].kind # "failed"

(* Why the promise holds: whoever runs the handler owns the row of its key  *)
(* until it is done with it; an operation that took effect keeps its row    *)
(* for ever, unless it is a payment that failed afterwards; a row has a     *)
(* response, and Redis has one, only of an operation that succeeded.        *)
RowsAreOwned ==
    /\ \A q \in Requests :
        /\ OwnsRecord(q) => record[KeyOf(q)] = [by |-> q, response |-> Nobody]
        /\ q \in executed => /\ record[KeyOf(q)].by = q \/ GaveUp(q)
                             /\ stage[q] \in {"committed", "failed", "done", "stored", "answered"}
                             /\ stage[q] \in {"committed", "failed"} => CallsProvider(q)
        /\ stage[q] \in {"committed", "done", "stored"} => q \in executed
        /\ reply[q].kind = "none" <=> stage[q] # "answered"
        /\ reply[q].kind = "failed" => q \notin executed \/ CallsProvider(q)
        /\ reply[q].kind \in {"reused", "busy"} => q \notin executed
        /\ reply[q].kind \in {"created", "replayed"} =>
               Succeeded(reply[q].from) /\ Call[reply[q].from] = Call[q]
    /\ \A k \in Keys :
        /\ record[k].by \in Requests => KeyOf(record[k].by) = k
        /\ record[k].response \in Requests =>
               record[k].response = record[k].by /\ Succeeded(record[k].by)
    /\ \A p \in cached : Succeeded(p)

\* The refinement mapping: what took effect under each key, and what an
\* answer tells its client.
Effect == [k \in Keys |-> {q \in executed : KeyOf(q) = k}]
Meaning(kind) ==
    CASE kind = "none" -> "nothing"
      [] kind \in {"created", "replayed"} -> "done"
      [] kind \in {"reused", "busy", "failed"} -> "not done"
      [] kind = "error" -> "unknown"
Told == [q \in Requests |-> Meaning(reply[q].kind)]
FailingLate == {q \in Requests : CallsProvider(q)}

Once == INSTANCE OnceOnly WITH effect <- Effect, told <- Told, MayFailLate <- FailingLate

\* 04 section 8: the middleware keeps the promise of OnceOnly, through Redis
\* failures, overlapping retries, requests that break off anywhere, and
\* payments that fail at the provider after their commit.
KeepsThePromise == Once!Spec
=============================================================================
