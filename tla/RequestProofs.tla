---------------------------- MODULE RequestProofs ----------------------------
(***************************************************************************)
(* Proofs about Idempotency and BookingRequest, for any number of requests,*)
(* keys and slots, with and without the failures of Redis and processes.   *)
(***************************************************************************)
EXTENDS RequestBoard, TLAPS

(* The owner of a record that nobody has.                                   *)
LEMMA NobodyElse == Nobody \notin Requests
  BY IdempotencyAssumption DEF Nobody

LEMMA CallType == \A q \in Requests : KeyOf(q) \in Keys
  BY IdempotencyAssumption DEF KeyOf

LEMMA AnswerType ==
    ASSUME IdempotencyTypeOK, NEW q \in Requests, NEW kind \in Answers,
           NEW from \in Requests \cup {Nobody}, Answer(q, kind, from)
    PROVE  /\ stage' \in [Requests -> Stages]
           /\ reply' \in [Requests -> [kind : Answers, from : Requests \cup {Nobody}]]
  BY DEF IdempotencyTypeOK, Answer, GoTo, Stages

LEMMA AnswerOrBreakOffType ==
    ASSUME IdempotencyTypeOK, NEW q \in Requests, NEW kind \in Answers,
           NEW from \in Requests \cup {Nobody}, AnswerOrBreakOff(q, kind, from)
    PROVE  /\ stage' \in [Requests -> Stages]
           /\ reply' \in [Requests -> [kind : Answers, from : Requests \cup {Nobody}]]
  BY AnswerType DEF AnswerOrBreakOff, Answers

-----------------------------------------------------------------------------
(* Type correctness.                                                        *)
LEMMA IdempotencyInitType == IdempotencyInit => IdempotencyTypeOK
  BY DEF IdempotencyInit, IdempotencyTypeOK, Stages, Answers, NoRecord, Unanswered

LEMMA MiddlewareType ==
    ASSUME IdempotencyTypeOK, NEW q \in Requests, MiddlewareStep(q)
    PROVE  IdempotencyTypeOK'
  <1> USE CallType
  <1>1. CASE ReadCacheHit(q)
    <2>1. PICK p \in cached : IF Call[p].body = Call[q].body
                              THEN Answer(q, "replayed", p) ELSE Answer(q, "reused", Nobody)
      BY <1>1 DEF ReadCacheHit
    <2>2. p \in Requests BY DEF IdempotencyTypeOK
    <2>3. UNCHANGED <<record, cached, executed>> BY <1>1 DEF ReadCacheHit
    <2> QED BY <2>1, <2>2, <2>3, AnswerType DEF IdempotencyTypeOK, Answers
  <1>2. CASE ReadCacheMiss(q)
    BY <1>2 DEF ReadCacheMiss, GoTo, IdempotencyTypeOK, Stages
  <1>3. CASE Claim(q)
    <2>1. stage' \in [Requests -> Stages]
      BY <1>3 DEF Claim, GoTo, IdempotencyTypeOK, Stages
    <2>2. record' = record \/ record' = [record EXCEPT ![KeyOf(q)] = [by |-> q, response |-> Nobody]]
      BY <1>3 DEF Claim
    <2>3. record' \in [Keys -> [by : Requests \cup {Nobody}, response : Requests \cup {Nobody}]]
      BY <2>2 DEF IdempotencyTypeOK
    <2>4. UNCHANGED <<cached, reply, executed>> BY <1>3 DEF Claim
    <2> QED BY <2>1, <2>3, <2>4 DEF IdempotencyTypeOK
  <1>4. CASE ReadRecord(q)
    <2> DEFINE row == record[KeyOf(q)]
    <2>1. row.response \in Requests \cup {Nobody} BY DEF IdempotencyTypeOK
    <2>2. \/ Answer(q, "reused", Nobody) \/ Answer(q, "busy", Nobody)
          \/ Answer(q, "replayed", row.response)
      BY <1>4 DEF ReadRecord
    <2>3. UNCHANGED <<record, cached, executed>> BY <1>4 DEF ReadRecord
    <2> QED BY <2>1, <2>2, <2>3, AnswerType DEF IdempotencyTypeOK, Answers
  <1>5. CASE ForgetRecord(q)
    <2>1. AnswerOrBreakOff(q, "failed", Nobody) /\ UNCHANGED <<cached, executed>>
      BY <1>5 DEF ForgetRecord
    <2>2. record' \in [Keys -> [by : Requests \cup {Nobody}, response : Requests \cup {Nobody}]]
      BY <1>5 DEF ForgetRecord, NoRecord, IdempotencyTypeOK
    <2> QED BY <2>1, <2>2, AnswerOrBreakOffType DEF IdempotencyTypeOK, Answers
  <1>6. CASE StoreResponse(q)
    BY <1>6 DEF StoreResponse, GoTo, IdempotencyTypeOK, Stages
  <1>7. CASE StoreInCache(q)
    <2>1. /\ AnswerOrBreakOff(q, "created", q) /\ UNCHANGED <<record, executed>>
          /\ cached' \subseteq Requests
      BY <1>7 DEF StoreInCache, IdempotencyTypeOK
    <2> QED BY <2>1, AnswerOrBreakOffType DEF IdempotencyTypeOK, Answers
  <1> QED BY <1>1, <1>2, <1>3, <1>4, <1>5, <1>6, <1>7 DEF MiddlewareStep

LEMMA IdempotencyStepType ==
    IdempotencyTypeOK /\ [IdempotencyNext]_idempotencyVars => IdempotencyTypeOK'
  <1> SUFFICES ASSUME IdempotencyTypeOK, [IdempotencyNext]_idempotencyVars
               PROVE  IdempotencyTypeOK'
    OBVIOUS
  <1>1. ASSUME NEW q \in Requests, HandlerCommits(q) \/ HandlerFails(q) \/ ProviderAnswers(q)
        PROVE  IdempotencyTypeOK'
    BY <1>1 DEF HandlerCommits, HandlerFails, ProviderAnswers, GoTo, IdempotencyTypeOK, Stages
  <1>2. ASSUME NEW q \in Requests, BreakOff(q) PROVE IdempotencyTypeOK'
    <2>1. Answer(q, "error", Nobody) /\ UNCHANGED <<record, cached, executed>>
      BY <1>2 DEF BreakOff
    <2> QED BY <2>1, AnswerType DEF IdempotencyTypeOK, Answers
  <1>3. ASSUME NEW q \in Requests, LoseCached(q) PROVE IdempotencyTypeOK'
    BY <1>3 DEF LoseCached, IdempotencyTypeOK
  <1>4. CASE UNCHANGED idempotencyVars
    BY <1>4 DEF idempotencyVars, IdempotencyTypeOK
  <1> QED BY <1>1, <1>2, <1>3, <1>4, MiddlewareType DEF IdempotencyNext

THEOREM IdempotencyTypeCorrect == IdempotencySpec => []IdempotencyTypeOK
  BY IdempotencyInitType, IdempotencyStepType, PTL DEF IdempotencySpec

-----------------------------------------------------------------------------
(* Rows are owned.  The step of one request leaves the others alone: what   *)
(* RowsAreOwned says of a request and of a key, one at a time.              *)
OwnsIt(q) ==
    /\ OwnsRecord(q) => record[KeyOf(q)] = [by |-> q, response |-> Nobody]
    /\ q \in executed => /\ record[KeyOf(q)].by = q \/ GaveUp(q)
                         /\ stage[q] \in {"committed", "failed", "done", "stored", "answered"}
                         /\ stage[q] \in {"committed", "failed"} => CallsProvider(q)
    /\ stage[q] \in {"committed", "done", "stored"} => q \in executed

Truthful(q) ==
    /\ reply[q].kind = "none" <=> stage[q] # "answered"
    /\ reply[q].kind = "failed" => q \notin executed \/ CallsProvider(q)
    /\ reply[q].kind \in {"reused", "busy"} => q \notin executed
    /\ reply[q].kind \in {"created", "replayed"} =>
           \E p \in executed : reply[q].from = p /\ Succeeded(p) /\ Call[p] = Call[q]

Backed(k) ==
    /\ record[k].by \in Requests => KeyOf(record[k].by) = k
    /\ record[k].response \in Requests =>
           \E p \in executed : record[k].response = p /\ record[k].by = p /\ Succeeded(p)

RowsParts ==
    /\ \A q \in Requests : OwnsIt(q) /\ Truthful(q)
    /\ \A k \in Keys : Backed(k)
    /\ \A p \in cached : Succeeded(p)

LEMMA RowsInParts == RowsAreOwned <=> RowsParts
  BY DEF RowsAreOwned, RowsParts, OwnsIt, Truthful, Backed, Succeeded

LEMMA RowsInPartsNext == RowsAreOwned' <=> RowsParts'
  BY RowsInParts, PTL

(* Whose row it is, nobody else owns.                                       *)
LEMMA OneOwner ==
    ASSUME RowsAreOwned, NEW q \in Requests, NEW p \in Requests,
           p # q, record[KeyOf(p)].by \in {q, Nobody}
    PROVE  /\ ~OwnsRecord(p) /\ ~Succeeded(p)
           /\ p \in executed => GaveUp(p)
  <1>1. OwnsIt(p) BY RowsInParts DEF RowsParts
  <1>2. record[KeyOf(p)].by # p BY NobodyElse
  <1> QED BY <1>1, <1>2 DEF OwnsIt, Succeeded

(* Before its answer, an operation that took effect has its row.            *)
LEMMA UnansweredOwns ==
    ASSUME RowsAreOwned, NEW q \in Requests, q \in executed, stage[q] # "answered"
    PROVE  record[KeyOf(q)].by = q
  <1>1. OwnsIt(q) /\ Truthful(q) BY RowsInParts DEF RowsParts
  <1> QED BY <1>1 DEF OwnsIt, Truthful, GaveUp

LEMMA IdempotencyInitRows == IdempotencyInit => RowsAreOwned
  BY NobodyElse, CallType
  DEF IdempotencyInit, RowsAreOwned, OwnsRecord, NoRecord, Unanswered

(* What was told and stored stays true while what succeeded stays so.       *)
LEMMA ToldStaysTrue ==
    ASSUME RowsAreOwned, \A x : Succeeded(x) => Succeeded(x)',
           executed \subseteq executed', NEW p \in Requests,
           reply'[p] = reply[p], stage'[p] = "answered" <=> stage[p] = "answered",
           p \in executed' => p \in executed
    PROVE  Truthful(p)'
  <1>1. Truthful(p) BY RowsInParts DEF RowsParts
  <1> QED BY <1>1 DEF Truthful

LEMMA RowStaysBacked ==
    ASSUME RowsAreOwned, \A x : Succeeded(x) => Succeeded(x)',
           executed \subseteq executed', NEW k \in Keys, record'[k] = record[k]
    PROVE  Backed(k)'
  <1>1. Backed(k) BY RowsInParts DEF RowsParts
  <1> QED BY <1>1 DEF Backed

(* A request that is answered, in a step that touches nothing else.         *)
LEMMA AnswerKeepsRows ==
    ASSUME IdempotencyTypeOK, RowsAreOwned, NEW q \in Requests,
           NEW kind \in Answers \ {"none", "failed"}, NEW from \in Requests \cup {Nobody},
           Answer(q, kind, from), UNCHANGED <<record, executed>>, stage[q] # "answered",
           \A p \in cached' : Succeeded(p),
           kind \in {"reused", "busy"} => q \notin executed,
           kind \in {"created", "replayed"} => Succeeded(from) /\ Call[from] = Call[q]
    PROVE  RowsAreOwned'
  <1>0. /\ stage' = [stage EXCEPT ![q] = "answered"]
        /\ reply' = [reply EXCEPT ![q] = [kind |-> kind, from |-> from]]
    BY DEF Answer, GoTo
  <1>1. ASSUME NEW p \in Requests, p # q PROVE stage'[p] = stage[p] /\ reply'[p] = reply[p]
    BY <1>0, <1>1 DEF IdempotencyTypeOK
  <1>2. stage'[q] = "answered" /\ reply'[q] = [kind |-> kind, from |-> from]
    BY <1>0 DEF IdempotencyTypeOK
  <1>3. ASSUME NEW x, Succeeded(x) PROVE Succeeded(x)'
    <2>1. x \in Requests BY <1>3 DEF Succeeded, IdempotencyTypeOK
    <2> QED BY <1>1, <1>2, <1>3, <2>1 DEF Succeeded, Answers, KeyOf
  <1>4. \A p \in Requests : OwnsIt(p)'
    <2> SUFFICES ASSUME NEW p \in Requests PROVE OwnsIt(p)' OBVIOUS
    <2>1. OwnsIt(p) BY RowsInParts DEF RowsParts
    <2>2. CASE p = q BY <1>2, <2>2, UnansweredOwns DEF OwnsIt, OwnsRecord, KeyOf
    <2>3. CASE p # q
      BY <1>1, <2>1, <2>3 DEF OwnsIt, OwnsRecord, GaveUp, CallsProvider, KeyOf
    <2> QED BY <2>2, <2>3
  <1>5. \A p \in Requests : Truthful(p)'
    <2> SUFFICES ASSUME NEW p \in Requests PROVE Truthful(p)' OBVIOUS
    <2>1. CASE p = q
      <3>1. Succeeded(from) => from \in executed BY DEF Succeeded
      <3> QED BY <1>2, <1>3, <2>1, <3>1 DEF Truthful, Answers
    <2>2. CASE p # q BY <1>1, <1>3, <2>2, ToldStaysTrue
    <2> QED BY <2>1, <2>2
  <1>6. \A k \in Keys : Backed(k)' BY <1>3, RowStaysBacked
  <1> QED BY <1>3, <1>4, <1>5, <1>6, RowsInPartsNext DEF RowsParts

(* A request that moves on: nothing is committed, or the provider answers.  *)
LEMMA MoveKeepsRows ==
    ASSUME IdempotencyTypeOK, RowsAreOwned, NEW q \in Requests, NEW s \in Stages,
           GoTo(q, s), UNCHANGED <<record, cached, reply, executed>>,
           stage[q] # "answered",
           \/ q \notin executed /\ s \in {"missed", "conflicted"}
           \/ q \notin executed /\ stage[q] = "running" /\ s = "failed"
           \/ stage[q] = "committed" /\ s \in {"done", "failed"}
    PROVE  RowsAreOwned'
  <1>0. /\ stage'[q] = s /\ \A p \in Requests : p # q => stage'[p] = stage[p]
    BY DEF GoTo, IdempotencyTypeOK
  <1>q. OwnsIt(q) BY RowsInParts DEF RowsParts
  <1>1. ASSUME NEW x, Succeeded(x) PROVE Succeeded(x)'
    <2>1. x \in Requests BY <1>1 DEF Succeeded, IdempotencyTypeOK
    <2>2. x # q BY <1>1 DEF Succeeded
    <2> QED BY <1>0, <1>1, <2>1, <2>2 DEF Succeeded, KeyOf
  <1>2. \A p \in Requests : OwnsIt(p)'
    <2> SUFFICES ASSUME NEW p \in Requests PROVE OwnsIt(p)' OBVIOUS
    <2>1. OwnsIt(p) BY RowsInParts DEF RowsParts
    <2>2. CASE p = q
      BY <1>0, <1>q, <2>2 DEF OwnsIt, OwnsRecord, GaveUp, CallsProvider, KeyOf
    <2>3. CASE p # q
      BY <1>0, <2>1, <2>3 DEF OwnsIt, OwnsRecord, GaveUp, CallsProvider, KeyOf
    <2> QED BY <2>2, <2>3
  <1>3. \A p \in Requests : Truthful(p)'
    BY <1>0, <1>1, ToldStaysTrue
  <1>4. \A k \in Keys : Backed(k)' BY <1>1, RowStaysBacked
  <1>5. \A p \in cached' : Succeeded(p)' BY <1>1, RowsInParts DEF RowsParts
  <1> QED BY <1>2, <1>3, <1>4, <1>5, RowsInPartsNext DEF RowsParts

(* The answer to a success, or the request breaks off after its last step.  *)
LEMMA LastAnswerKeepsRows ==
    ASSUME IdempotencyTypeOK, RowsAreOwned, NEW q \in Requests, stage[q] = "stored",
           AnswerOrBreakOff(q, "created", q), UNCHANGED <<record, executed>>,
           \A p \in cached' : p \in cached \/ p = q
    PROVE  RowsAreOwned'
  <1>1. Succeeded(q)
    <2>1. OwnsIt(q) /\ Truthful(q) BY RowsInParts DEF RowsParts
    <2>2. q \in executed /\ reply[q].kind = "none" BY <2>1 DEF OwnsIt, Truthful
    <2> QED BY <2>2, UnansweredOwns DEF Succeeded
  <1>2. \A p \in cached' : Succeeded(p) BY <1>1, RowsInParts DEF RowsParts
  <1>3. CASE Answer(q, "created", q) BY <1>1, <1>2, <1>3, AnswerKeepsRows DEF Answers
  <1>4. CASE Answer(q, "error", Nobody) BY <1>2, <1>4, AnswerKeepsRows DEF Answers
  <1> QED BY <1>3, <1>4 DEF AnswerOrBreakOff

(* The row of a request that failed is given up.                            *)
LEMMA ForgetKeepsRows ==
    ASSUME IdempotencyTypeOK, RowsAreOwned, NEW q \in Requests, ForgetRecord(q)
    PROVE  RowsAreOwned'
  <1> USE NobodyElse, CallType
  <1> DEFINE k == KeyOf(q)
  <1>1. stage[q] = "failed" /\ UNCHANGED <<cached, executed>>
    BY DEF ForgetRecord, MayForget, At
  <1>2. PICK kind \in {"failed", "error"} : Answer(q, kind, Nobody)
    BY DEF ForgetRecord, AnswerOrBreakOff
  <1>3. OwnsIt(q) /\ record[k] = [by |-> q, response |-> Nobody]
    <2>1. OwnsIt(q) BY RowsInParts DEF RowsParts
    <2> QED BY <1>1, <2>1 DEF OwnsIt, OwnsRecord
  <1>4. record' = [record EXCEPT ![k] = NoRecord]
    BY <1>3 DEF ForgetRecord, Matches
  <1>5. /\ record'[k] = NoRecord
        /\ \A j \in Keys : j # k => record'[j] = record[j]
    BY <1>4 DEF IdempotencyTypeOK
  <1>6. /\ stage'[q] = "answered" /\ reply'[q] = [kind |-> kind, from |-> Nobody]
        /\ \A p \in Requests : p # q => stage'[p] = stage[p] /\ reply'[p] = reply[p]
    BY <1>2 DEF Answer, GoTo, IdempotencyTypeOK
  <1>7. \A p \in Requests : KeyOf(p) = k /\ p # q =>
            ~OwnsRecord(p) /\ ~Succeeded(p) /\ (p \in executed => GaveUp(p))
    BY <1>3, OneOwner
  <1>8. ASSUME NEW x, Succeeded(x) PROVE Succeeded(x)'
    <2>1. x \in Requests /\ x # q BY <1>1, <1>8 DEF Succeeded, IdempotencyTypeOK
    <2>2. KeyOf(x) \in Keys /\ KeyOf(x) # k BY <1>7, <1>8, <2>1
    <2> QED BY <1>1, <1>5, <1>6, <1>8, <2>1, <2>2 DEF Succeeded, KeyOf
  <1>9. \A p \in Requests : OwnsIt(p)'
    <2> SUFFICES ASSUME NEW p \in Requests PROVE OwnsIt(p)' OBVIOUS
    <2>1. OwnsIt(p) BY RowsInParts DEF RowsParts
    <2>2. CASE p = q
      BY <1>1, <1>3, <1>6, <2>2 DEF OwnsIt, OwnsRecord, GaveUp, CallsProvider, KeyOf
    <2>3. CASE p # q /\ KeyOf(p) = k
      BY <1>1, <1>6, <1>7, <2>1, <2>3 DEF OwnsIt, OwnsRecord, GaveUp, CallsProvider, KeyOf
    <2>4. CASE p # q /\ KeyOf(p) # k
      BY <1>1, <1>5, <1>6, <2>1, <2>4 DEF OwnsIt, OwnsRecord, GaveUp, CallsProvider, KeyOf
    <2> QED BY <2>2, <2>3, <2>4
  <1>10. \A p \in Requests : Truthful(p)'
    <2> SUFFICES ASSUME NEW p \in Requests PROVE Truthful(p)' OBVIOUS
    <2>1. CASE p = q
      BY <1>1, <1>3, <1>6, <2>1 DEF Truthful, OwnsIt, CallsProvider
    <2>2. CASE p # q BY <1>1, <1>6, <1>8, <2>2, ToldStaysTrue
    <2> QED BY <2>1, <2>2
  <1>11. \A j \in Keys : Backed(j)'
    <2> SUFFICES ASSUME NEW j \in Keys PROVE Backed(j)' OBVIOUS
    <2>1. CASE j = k BY <1>5, <2>1 DEF Backed, NoRecord
    <2>2. CASE j # k BY <1>1, <1>5, <1>8, <2>2, RowStaysBacked
    <2> QED BY <2>1, <2>2
  <1>12. \A p \in cached' : Succeeded(p)' BY <1>1, <1>8, RowsInParts DEF RowsParts
  <1> QED BY <1>9, <1>10, <1>11, <1>12, RowsInPartsNext DEF RowsParts

(* The row of a key that has none is claimed, or its response is stored.    *)
LEMMA WriteKeepsRows ==
    ASSUME IdempotencyTypeOK, RowsAreOwned, NEW q \in Requests, NEW s \in Stages,
           NEW row, GoTo(q, s), record' = [record EXCEPT ![KeyOf(q)] = row],
           UNCHANGED <<cached, reply, executed>>,
           record[KeyOf(q)].by \in {q, Nobody},
           \/ /\ stage[q] = "missed" /\ s = "running" /\ q \notin executed
              /\ row = [by |-> q, response |-> Nobody]
           \/ /\ stage[q] = "done" /\ s = "stored"
              /\ row = [by |-> q, response |-> q]
    PROVE  RowsAreOwned'
  <1> USE NobodyElse, CallType
  <1> DEFINE k == KeyOf(q)
  <1>1. /\ record'[k] = row /\ row.by = q
        /\ \A j \in Keys : j # k => record'[j] = record[j]
    BY DEF IdempotencyTypeOK
  <1>2. stage'[q] = s /\ \A p \in Requests : p # q => stage'[p] = stage[p]
    BY DEF GoTo, IdempotencyTypeOK
  <1>3. \A p \in Requests : KeyOf(p) = k /\ p # q =>
            ~OwnsRecord(p) /\ ~Succeeded(p) /\ (p \in executed => GaveUp(p))
    BY OneOwner
  <1>q. OwnsIt(q) /\ Truthful(q) BY RowsInParts DEF RowsParts
  <1>r. reply[q].kind = "none" BY <1>q DEF Truthful
  <1>4. ASSUME NEW x, Succeeded(x) PROVE Succeeded(x)'
    <2>1. x \in Requests BY <1>4 DEF Succeeded, IdempotencyTypeOK
    <2>2. CASE x = q BY <1>1, <1>2, <1>4, <2>2 DEF Succeeded, KeyOf
    <2>3. CASE x # q
      <3>1. KeyOf(x) # k BY <1>3, <1>4, <2>1, <2>3
      <3> QED BY <1>1, <1>2, <1>4, <2>1, <2>3, <3>1 DEF Succeeded, KeyOf
    <2> QED BY <2>2, <2>3
  <1>5. \A p \in Requests : OwnsIt(p)'
    <2> SUFFICES ASSUME NEW p \in Requests PROVE OwnsIt(p)' OBVIOUS
    <2>1. OwnsIt(p) BY RowsInParts DEF RowsParts
    <2>2. CASE p = q
      BY <1>1, <1>2, <1>q, <2>2 DEF OwnsIt, OwnsRecord, GaveUp, CallsProvider, KeyOf
    <2>3. CASE p # q /\ KeyOf(p) = k
      BY <1>2, <1>3, <2>1, <2>3 DEF OwnsIt, OwnsRecord, GaveUp, CallsProvider, KeyOf
    <2>4. CASE p # q /\ KeyOf(p) # k
      BY <1>1, <1>2, <2>1, <2>4 DEF OwnsIt, OwnsRecord, GaveUp, CallsProvider, KeyOf
    <2> QED BY <2>2, <2>3, <2>4
  <1>6. \A p \in Requests : Truthful(p)'
    BY <1>2, <1>4, ToldStaysTrue
  <1>7. \A j \in Keys : Backed(j)'
    <2> SUFFICES ASSUME NEW j \in Keys PROVE Backed(j)' OBVIOUS
    <2>1. CASE j = k
      <3>1. CASE row.response = Nobody BY <1>1, <2>1, <3>1 DEF Backed
      <3>2. CASE stage[q] = "done" /\ s = "stored" /\ row.response = q
        <4>1. q \in executed BY <1>q, <3>2 DEF OwnsIt
        <4>2. Succeeded(q)' BY <1>1, <1>2, <1>r, <3>2, <4>1 DEF Succeeded, KeyOf
        <4> QED BY <1>1, <2>1, <3>2, <4>1, <4>2 DEF Backed
      <3> QED BY <3>1, <3>2
    <2>2. CASE j # k BY <1>1, <1>4, <2>2, RowStaysBacked
    <2> QED BY <2>1, <2>2
  <1>8. \A p \in cached' : Succeeded(p)' BY <1>4, RowsInParts DEF RowsParts
  <1> QED BY <1>5, <1>6, <1>7, <1>8, RowsInPartsNext DEF RowsParts

LEMMA MiddlewareKeepsRows ==
    ASSUME IdempotencyTypeOK, RowsAreOwned, NEW q \in Requests, MiddlewareStep(q)
    PROVE  RowsAreOwned'
  <1> USE NobodyElse, CallType
  <1>q. OwnsIt(q) BY RowsInParts DEF RowsParts
  <1>a. q \in executed => stage[q] \in {"committed", "failed", "done", "stored", "answered"}
    BY <1>q DEF OwnsIt
  <1>c. \A p \in cached : Succeeded(p) BY RowsInParts DEF RowsParts
  <1>1. CASE ReadCacheHit(q)
    <2>1. PICK p \in cached :
              /\ SameSlotInRedis(p, q)
              /\ IF Call[p].body = Call[q].body
                 THEN Answer(q, "replayed", p) ELSE Answer(q, "reused", Nobody)
      BY <1>1 DEF ReadCacheHit
    <2>2. Succeeded(p) /\ p \in Requests BY <1>c DEF IdempotencyTypeOK
    <2>3. Call[p].body = Call[q].body => Call[p] = Call[q]
      BY <2>1, <2>2, IdempotencyAssumption DEF SameSlotInRedis, KeyOf
    <2>4. UNCHANGED <<record, cached, executed>> /\ stage[q] = "new" /\ q \notin executed
      BY <1>1, <1>a DEF ReadCacheHit, At
    <2>5. CASE Answer(q, "replayed", p) /\ Call[p] = Call[q]
      BY <1>c, <2>2, <2>4, <2>5, AnswerKeepsRows DEF Answers
    <2>6. CASE Answer(q, "reused", Nobody)
      BY <1>c, <2>4, <2>6, AnswerKeepsRows DEF Answers
    <2> QED BY <2>1, <2>3, <2>5, <2>6
  <1>2. CASE ReadCacheMiss(q)
    BY <1>2, <1>a, MoveKeepsRows DEF ReadCacheMiss, At, Stages
  <1>3. CASE Claim(q)
    <2>1. UNCHANGED <<cached, reply, executed>> /\ stage[q] = "missed" /\ q \notin executed
      BY <1>3, <1>a DEF Claim, At
    <2>2. CASE record[KeyOf(q)] = NoRecord
      <3> DEFINE row == [by |-> q, response |-> Nobody]
      <3> HIDE DEF row
      <3>1. record' = [record EXCEPT ![KeyOf(q)] = row] /\ GoTo(q, "running")
        BY <1>3, <2>2 DEF Claim, row
      <3>2. record[KeyOf(q)].by \in {q, Nobody} BY <2>2 DEF NoRecord
      <3> QED BY <2>1, <3>1, <3>2, WriteKeepsRows DEF Stages, row
    <2>3. CASE record[KeyOf(q)] # NoRecord
      BY <1>3, <2>1, <2>3, MoveKeepsRows DEF Claim, Stages
    <2> QED BY <2>2, <2>3
  <1>4. CASE ReadRecord(q)
    <2> DEFINE row == record[KeyOf(q)]
    <2>1. UNCHANGED <<record, cached, executed>> /\ stage[q] = "conflicted" /\ q \notin executed
      BY <1>4, <1>a DEF ReadRecord, At
    <2>2. \/ Answer(q, "reused", Nobody) \/ Answer(q, "busy", Nobody)
          \/ /\ Answer(q, "replayed", row.response)
             /\ Matches(row, q) /\ row.response # Nobody
      BY <1>4 DEF ReadRecord
    <2>3. CASE Answer(q, "reused", Nobody) BY <1>c, <2>1, <2>3, AnswerKeepsRows DEF Answers
    <2>4. CASE Answer(q, "busy", Nobody) BY <1>c, <2>1, <2>4, AnswerKeepsRows DEF Answers
    <2>5. CASE /\ Answer(q, "replayed", row.response)
               /\ Matches(row, q) /\ row.response # Nobody
      <3>1. Backed(KeyOf(q)) BY RowsInParts DEF RowsParts
      <3>2. row.response \in Requests BY <2>5 DEF IdempotencyTypeOK
      <3>3. Succeeded(row.response) /\ Call[row.response] = Call[q]
        BY <2>5, <3>1, <3>2 DEF Backed, Matches
      <3> DEFINE from == row.response
      <3> HIDE DEF from
      <3> QED BY <1>c, <2>1, <2>5, <3>2, <3>3, AnswerKeepsRows DEF Answers, from
    <2> QED BY <2>2, <2>3, <2>4, <2>5
  <1>5. CASE ForgetRecord(q) BY <1>5, ForgetKeepsRows
  <1>6. CASE StoreResponse(q)
    <2>1. stage[q] = "done" /\ UNCHANGED <<cached, reply, executed>> /\ GoTo(q, "stored")
      BY <1>6 DEF StoreResponse, At
    <2>2. record[KeyOf(q)] = [by |-> q, response |-> Nobody]
      BY <1>q, <2>1 DEF OwnsIt, OwnsRecord
    <2>3. record' = [record EXCEPT ![KeyOf(q)] = [by |-> q, response |-> q]]
      <3>1. Matches(record[KeyOf(q)], q) BY <2>2 DEF Matches
      <3>2. record' = [record EXCEPT ![KeyOf(q)] =
                          [by |-> record[KeyOf(q)].by, response |-> q]]
        BY <1>6, <3>1 DEF StoreResponse
      <3> QED BY <2>2, <3>2
    <2>4. record[KeyOf(q)].by \in {q, Nobody} BY <2>2
    <2> DEFINE full == [by |-> q, response |-> q]
    <2> HIDE DEF full
    <2>5. record' = [record EXCEPT ![KeyOf(q)] = full] BY <2>3 DEF full
    <2> QED BY <2>1, <2>4, <2>5, WriteKeepsRows DEF Stages, full
  <1>7. CASE StoreInCache(q)
    BY <1>7, LastAnswerKeepsRows DEF StoreInCache, At
  <1> QED BY <1>1, <1>2, <1>3, <1>4, <1>5, <1>6, <1>7 DEF MiddlewareStep

LEMMA CommitKeepsRows ==
    ASSUME IdempotencyTypeOK, RowsAreOwned, NEW q \in Requests, HandlerCommits(q)
    PROVE  RowsAreOwned'
  <1>1. /\ stage[q] = "running" /\ executed' = executed \cup {q}
        /\ UNCHANGED <<record, cached, reply>>
    BY DEF HandlerCommits, At
  <1>2. PICK s \in {"done", "committed"} : GoTo(q, s) /\ (s = "committed" => CallsProvider(q))
    BY DEF HandlerCommits
  <1>3. stage'[q] = s /\ \A p \in Requests : p # q => stage'[p] = stage[p]
    BY <1>2 DEF GoTo, IdempotencyTypeOK
  <1>4. OwnsIt(q) /\ Truthful(q) BY RowsInParts DEF RowsParts
  <1>5. record[KeyOf(q)] = [by |-> q, response |-> Nobody] /\ reply[q].kind = "none"
    BY <1>1, <1>4 DEF OwnsIt, OwnsRecord, Truthful
  <1>6. ASSUME NEW x, Succeeded(x) PROVE Succeeded(x)'
    <2>1. x \in Requests BY <1>6 DEF Succeeded, IdempotencyTypeOK
    <2>2. x # q BY <1>1, <1>4, <1>6 DEF Succeeded, OwnsIt
    <2> QED BY <1>1, <1>3, <1>6, <2>1, <2>2 DEF Succeeded, KeyOf
  <1>7. \A p \in Requests : OwnsIt(p)'
    <2> SUFFICES ASSUME NEW p \in Requests PROVE OwnsIt(p)' OBVIOUS
    <2>1. OwnsIt(p) BY RowsInParts DEF RowsParts
    <2>2. CASE p = q
      BY <1>1, <1>2, <1>3, <1>5, <2>2 DEF OwnsIt, OwnsRecord, CallsProvider, KeyOf
    <2>3. CASE p # q
      BY <1>1, <1>3, <2>1, <2>3 DEF OwnsIt, OwnsRecord, GaveUp, CallsProvider, KeyOf
    <2> QED BY <2>2, <2>3
  <1>8. \A p \in Requests : Truthful(p)'
    <2> SUFFICES ASSUME NEW p \in Requests PROVE Truthful(p)' OBVIOUS
    <2>1. CASE p = q BY <1>1, <1>2, <1>3, <1>5, <2>1 DEF Truthful
    <2>2. CASE p # q BY <1>1, <1>3, <1>6, <2>2, ToldStaysTrue
    <2> QED BY <2>1, <2>2
  <1>9. \A k \in Keys : Backed(k)' BY <1>1, <1>6, RowStaysBacked
  <1>10. \A p \in cached' : Succeeded(p)' BY <1>1, <1>6, RowsInParts DEF RowsParts
  <1> QED BY <1>7, <1>8, <1>9, <1>10, RowsInPartsNext DEF RowsParts

LEMMA IdempotencyKeepsRows ==
    IdempotencyTypeOK /\ RowsAreOwned /\ [IdempotencyNext]_idempotencyVars => RowsAreOwned'
  <1> SUFFICES ASSUME IdempotencyTypeOK, RowsAreOwned, [IdempotencyNext]_idempotencyVars
               PROVE  RowsAreOwned'
    OBVIOUS
  <1>c. \A p \in cached : Succeeded(p) BY RowsInParts DEF RowsParts
  <1>1. ASSUME NEW q \in Requests, HandlerFails(q) PROVE RowsAreOwned'
    <2>1. OwnsIt(q) BY RowsInParts DEF RowsParts
    <2>2. stage[q] = "running" /\ q \notin executed
      BY <1>1, <2>1 DEF HandlerFails, At, OwnsIt
    <2> QED BY <1>1, <2>2, MoveKeepsRows DEF HandlerFails, Stages
  <1>2. ASSUME NEW q \in Requests, ProviderAnswers(q) PROVE RowsAreOwned'
    BY <1>2, MoveKeepsRows DEF ProviderAnswers, At, Stages
  <1>3. ASSUME NEW q \in Requests, BreakOff(q) PROVE RowsAreOwned'
    <2>1. /\ Answer(q, "error", Nobody) /\ UNCHANGED <<record, cached, executed>>
          /\ stage[q] # "answered"
      BY <1>3 DEF BreakOff
    <2> QED BY <1>c, <2>1, AnswerKeepsRows DEF Answers
  <1>4. ASSUME NEW p \in Requests, LoseCached(p) PROVE RowsAreOwned'
    BY <1>4 DEF LoseCached, RowsAreOwned, OwnsRecord, GaveUp, Succeeded
  <1>5. CASE UNCHANGED idempotencyVars
    BY <1>5 DEF idempotencyVars, RowsAreOwned, OwnsRecord, GaveUp, Succeeded
  <1> QED BY <1>1, <1>2, <1>3, <1>4, <1>5, CommitKeepsRows, MiddlewareKeepsRows
          DEF IdempotencyNext

\* Whoever runs the handler of an operation owns the row of its key; an
\* operation that took effect keeps its row, unless it is a payment that
\* failed after its commit; and nothing is answered or cached as a success
\* that did not happen, or that failed for the client who asked for it.
THEOREM RowsOwned == IdempotencySpec => []RowsAreOwned
  BY IdempotencyTypeCorrect, IdempotencyInitRows, IdempotencyKeepsRows, PTL DEF IdempotencySpec

-----------------------------------------------------------------------------
(* The promise of OnceOnly: a handler that commits performs its operation,  *)
(* an answer tells its client, and nothing else shows.                      *)
PromiseStep == Once!Next \/ UNCHANGED <<Effect, Told>>

LEMMA CommitPerforms ==
    ASSUME IdempotencyTypeOK, RowsAreOwned, NEW q \in Requests, HandlerCommits(q)
    PROVE  Once!Perform(q)
  <1> DEFINE k == KeyOf(q)
  <1>1. /\ stage[q] = "running" /\ executed' = executed \cup {q} /\ reply' = reply
        /\ PaymentKeyFree(q)
    BY DEF HandlerCommits, At
  <1>2. record[k].by = q /\ q \notin executed
    <2>1. OwnsIt(q) BY RowsInParts DEF RowsParts
    <2>2. OwnsRecord(q) BY <1>1 DEF OwnsRecord
    <2> QED BY <1>1, <2>1, <2>2 DEF OwnsIt
  <1>3. ASSUME NEW p \in executed, KeyOf(p) = k
        PROVE  p \in FailingLate /\ Call[p].scope # Call[q].scope
    <2>1. p \in Requests /\ p # q BY <1>2 DEF IdempotencyTypeOK
    <2>2. GaveUp(p) BY <1>2, <1>3, <2>1, OneOwner
    <2>3. CallsProvider(p) /\ InsertsPayment(p)
      BY <2>2 DEF GaveUp, CallsProvider, InsertsPayment
    <2>4. ~InsertsPayment(q) BY <1>1, <1>3, <2>3 DEF PaymentKeyFree
    <2> QED BY <2>1, <2>3, <2>4 DEF FailingLate, CallsProvider, InsertsPayment
  <1>4. ASSUME NEW r \in Requests, KeyOf(r) = k PROVE Told[r] # "done"
    <2> SUFFICES ASSUME Told[r] = "done" PROVE FALSE OBVIOUS
    <2>0. reply[r].kind \in {"created", "replayed"}
      <3>1. reply[r].kind \in Answers /\ Told[r] = Meaning(reply[r].kind)
        BY DEF IdempotencyTypeOK, Told
      <3> QED BY <3>1 DEF Answers, Meaning
    <2>1. Truthful(r) BY RowsInParts DEF RowsParts
    <2>2. PICK p \in executed : Succeeded(p) /\ Call[p] = Call[r]
      BY <2>0, <2>1 DEF Truthful
    <2>3. KeyOf(p) = k BY <1>4, <2>2 DEF KeyOf
    <2> QED BY <1>2, <2>2, <2>3 DEF Succeeded
  <1>5. Effect' = [Effect EXCEPT ![k] = @ \cup {q}]
    <2>1. ASSUME NEW j \in Keys
          PROVE  {p \in executed' : KeyOf(p) = j} = [Effect EXCEPT ![k] = @ \cup {q}][j]
      BY <1>1, CallType DEF Effect
    <2> QED BY <2>1, CallType DEF Effect
  <1>6. Told' = Told BY <1>1 DEF Told
  <1>7. \A p \in Effect[k] : p \in FailingLate /\ Call[p].scope # Call[q].scope
    BY <1>3, CallType DEF Effect
  <1> QED BY <1>4, <1>5, <1>6, <1>7 DEF Once!Perform, KeyOf

LEMMA AnswerTells ==
    ASSUME RowsAreOwned, RowsAreOwned', IdempotencyTypeOK, NEW q \in Requests,
           NEW kind \in Answers \ {"none"}, NEW from \in Requests \cup {Nobody},
           Answer(q, kind, from), stage[q] # "answered", executed' = executed
    PROVE  Once!Tell(q)
  <1> DEFINE say == Meaning(kind)
  <1>1. reply[q].kind = "none" BY DEF RowsAreOwned
  <1>2. Told[q] = "nothing" BY <1>1 DEF Told, Meaning
  <1>3. reply' = [reply EXCEPT ![q] = [kind |-> kind, from |-> from]]
    BY DEF Answer
  <1>4. reply'[q] = [kind |-> kind, from |-> from]
    BY <1>3 DEF IdempotencyTypeOK
  <1>a. \A p \in Requests : Truthful(p)' BY RowsInPartsNext DEF RowsParts
  <1>5. say \in {"done", "not done", "unknown"} BY DEF Answers, Meaning
  <1>6. Told' = [Told EXCEPT ![q] = say]
    <2>1. ASSUME NEW p \in Requests PROVE Told'[p] = [Told EXCEPT ![q] = say][p]
      <3>1. CASE p = q BY <1>4, <3>1 DEF Told
      <3>2. CASE p # q
        <4>1. reply'[p] = reply[p] BY <1>3, <3>2 DEF IdempotencyTypeOK
        <4> QED BY <3>2, <4>1 DEF Told
      <3> QED BY <3>1, <3>2
    <2> QED BY <2>1 DEF Told
  <1>7. ASSUME say = "done"
        PROVE  \E p \in Effect[KeyOf(q)] : Call[p] = Call[q] /\ Told[p] # "not done"
    <2>1. PICK p \in executed' : Succeeded(p)' /\ Call[p] = Call[q]
      <3>1. kind \in {"created", "replayed"} BY <1>7 DEF Answers, Meaning
      <3> QED BY <1>4, <1>a, <3>1 DEF Truthful
    <2>2. p \in Requests /\ p \in Effect[KeyOf(q)]
      BY <2>1, CallType DEF Effect, KeyOf, IdempotencyTypeOK
    <2>3. CASE p = q BY <1>2, <2>1, <2>2, <2>3
    <2>4. CASE p # q
      <3>1. reply'[p] = reply[p] BY <1>3, <2>2, <2>4 DEF IdempotencyTypeOK
      <3>2. reply'[p].kind \notin {"reused", "busy", "failed"}
        <4>1. Truthful(p)' BY <1>a, <2>2
        <4> QED BY <2>1, <4>1 DEF Truthful, Succeeded
      <3>3. Told[p] # "not done"
        <4>1. reply[p].kind \in Answers /\ Told[p] = Meaning(reply[p].kind)
          BY <2>2 DEF IdempotencyTypeOK, Told
        <4> QED BY <3>1, <3>2, <4>1 DEF Answers, Meaning
      <3> QED BY <2>1, <2>2, <3>3
    <2> QED BY <2>3, <2>4
  <1>8. ASSUME say = "not done" PROVE q \notin Effect[KeyOf(q)] \/ q \in FailingLate
    <2>1. kind \in {"reused", "busy", "failed"} BY <1>8 DEF Answers, Meaning
    <2>2. Truthful(q)' BY <1>a
    <2>3. q \notin executed \/ CallsProvider(q) BY <1>4, <2>1, <2>2 DEF Truthful, CallsProvider
    <2> QED BY <2>3, CallType DEF Effect, FailingLate
  <1>9. Effect' = Effect BY DEF Effect
  <1> QED BY <1>2, <1>5, <1>6, <1>7, <1>8, <1>9 DEF Once!Tell, KeyOf

(* What shows of a step of the middleware.                                  *)
LEMMA MiddlewareShows ==
    ASSUME IdempotencyTypeOK, RowsAreOwned, NEW q \in Requests,
           MiddlewareStep(q) \/ HandlerFails(q) \/ ProviderAnswers(q) \/ BreakOff(q)
    PROVE  /\ executed' = executed
           /\ \/ reply' = reply
              \/ /\ stage[q] # "answered"
                 /\ \E kind \in Answers \ {"none"}, from \in Requests \cup {Nobody} :
                        Answer(q, kind, from)
  <1>1. CASE ReadCacheHit(q)
    <2>1. PICK p \in cached : IF Call[p].body = Call[q].body
                              THEN Answer(q, "replayed", p) ELSE Answer(q, "reused", Nobody)
      BY <1>1 DEF ReadCacheHit
    <2>2. p \in Requests BY DEF IdempotencyTypeOK
    <2> QED BY <1>1, <2>1, <2>2 DEF ReadCacheHit, At, Answers
  <1>2. CASE ReadRecord(q)
    <2> DEFINE row == record[KeyOf(q)]
    <2>1. row.response \in Requests \cup {Nobody} BY CallType DEF IdempotencyTypeOK
    <2>2. \/ Answer(q, "reused", Nobody) \/ Answer(q, "busy", Nobody)
          \/ Answer(q, "replayed", row.response)
      BY <1>2 DEF ReadRecord
    <2> QED BY <1>2, <2>1, <2>2 DEF ReadRecord, At, Answers
  <1>3. CASE ForgetRecord(q) BY <1>3 DEF ForgetRecord, MayForget, At, AnswerOrBreakOff, Answers
  <1>4. CASE StoreInCache(q) BY <1>4 DEF StoreInCache, At, AnswerOrBreakOff, Answers
  <1>5. CASE BreakOff(q) BY <1>5 DEF BreakOff, Answers
  <1>6. CASE ReadCacheMiss(q) \/ Claim(q) \/ StoreResponse(q)
           \/ HandlerFails(q) \/ ProviderAnswers(q)
    BY <1>6 DEF ReadCacheMiss, Claim, StoreResponse, HandlerFails, ProviderAnswers
  <1> QED BY <1>1, <1>2, <1>3, <1>4, <1>5, <1>6 DEF MiddlewareStep

LEMMA IdempotencyStepPromise ==
    ASSUME IdempotencyTypeOK, RowsAreOwned, RowsAreOwned', [IdempotencyNext]_idempotencyVars
    PROVE  PromiseStep
  <1>0. executed' = executed /\ reply' = reply => UNCHANGED <<Effect, Told>>
    BY DEF Effect, Told
  <1>1. ASSUME NEW q \in Requests, HandlerCommits(q) PROVE PromiseStep
    BY <1>1, CommitPerforms DEF PromiseStep, Once!Next
  <1>2. ASSUME NEW q \in Requests,
               MiddlewareStep(q) \/ HandlerFails(q) \/ ProviderAnswers(q) \/ BreakOff(q)
        PROVE  PromiseStep
    <2>1. executed' = executed /\ (reply' = reply \/ Once!Tell(q))
      BY <1>2, MiddlewareShows, AnswerTells
    <2> QED BY <1>0, <2>1 DEF PromiseStep, Once!Next
  <1>3. ASSUME NEW p \in Requests, LoseCached(p) PROVE PromiseStep
    BY <1>0, <1>3 DEF LoseCached, PromiseStep
  <1>4. CASE UNCHANGED idempotencyVars
    BY <1>0, <1>4 DEF idempotencyVars, PromiseStep
  <1> QED BY <1>1, <1>2, <1>3, <1>4 DEF IdempotencyNext

LEMMA IdempotencyInitPromise == IdempotencyInit => Once!Init
  BY DEF IdempotencyInit, Once!Init, Effect, Told, Meaning, Unanswered

\* The middleware implements OnceOnly: whatever breaks off, is repeated or is
\* lost, an operation takes effect once under its key, alone unless a payment
\* failed there after its commit, and no client is told "done" of another
\* call, or "not done" of its own but for such a payment.
THEOREM PromiseKept == IdempotencySpec => KeepsThePromise
  <1>1. IdempotencyTypeOK /\ RowsAreOwned /\ RowsAreOwned' /\ [IdempotencyNext]_idempotencyVars
            => [Once!Next]_<<Effect, Told>>
    BY IdempotencyStepPromise DEF PromiseStep
  <1> QED BY <1>1, IdempotencyInitPromise, IdempotencyTypeCorrect, RowsOwned, PTL
          DEF IdempotencySpec, KeepsThePromise, Once!Spec

-----------------------------------------------------------------------------
(* BookingRequest runs the middleware: to Idempotency, the steps of the     *)
(* Redis keys and of the claims are stutters.                               *)
LEMMA MiddlewareInside == [BookingRequestNext]_bookingRequestVars => [IdempotencyNext]_idempotencyVars
  <1> SUFFICES ASSUME [BookingRequestNext]_bookingRequestVars
               PROVE  IdempotencyNext \/ UNCHANGED idempotencyVars
    OBVIOUS
  <1>1. ASSUME NEW q \in Requests, Middleware(q) \/ LoseCached(q) PROVE IdempotencyNext
    BY <1>1 DEF Middleware, IdempotencyNext
  <1>2. ASSUME NEW q \in Requests, HandlerStep(q)
        PROVE  IdempotencyNext \/ UNCHANGED idempotencyVars
    <2>1. CASE \E s \in Slots : ReserveKey(q, s)
      BY <2>1 DEF ReserveKey
    <2>2. CASE CommitBooking(q) \/ ReleaseReservedHoldKeys(q)
      BY <2>2 DEF CommitBooking, ReleaseReservedHoldKeys, IdempotencyNext
    <2>3. CASE RefusedByKey(q) \/ RollBack(q)
      BY <2>3 DEF RefusedByKey, RollBack
    <2> QED BY <1>2, <2>1, <2>2, <2>3 DEF HandlerStep
  <1>3. ASSUME NEW q \in Requests, LapseHold(q) \/ ReleaseClaims(q)
        PROVE  UNCHANGED idempotencyVars
    BY <1>3 DEF LapseHold, ReleaseClaims
  <1>4. ASSUME NEW s \in Slots, DeleteKey(s) \/ LoseKey(s) PROVE UNCHANGED idempotencyVars
    BY <1>4 DEF DeleteKey, LoseKey
  <1>5. CASE UNCHANGED bookingRequestVars
    BY <1>5 DEF bookingRequestVars
  <1> QED BY <1>1, <1>2, <1>3, <1>4, <1>5 DEF BookingRequestNext

(* Its handler ends with its transaction: no answer fails after a commit.   *)
LEMMA NoneFailsLate == \A q \in Requests : ~CallsProvider(q) /\ ~GaveUp(q)
  BY BookingRequestAssumption DEF CallsProvider, GaveUp

LEMMA BehindTheMiddleware == BookingRequestSpec => IdempotencySpec
  <1>1. BookingRequestInit => IdempotencyInit BY DEF BookingRequestInit
  <1> QED BY <1>1, MiddlewareInside, PTL DEF BookingRequestSpec, IdempotencySpec

\* The refinement composes: POST /bookings, with the keys and claims that its
\* handler works on, gives its clients the promise of OnceOnly too.
THEOREM OrdersKeepPromise == BookingRequestSpec => KeepsThePromise
  BY BehindTheMiddleware, PromiseKept, PTL

-----------------------------------------------------------------------------
(* The claims.  Only a handler that has committed owns anything; what is    *)
(* new of a step is what it does to owners and lapsed.                      *)
OnlyCommittedOwn == \A s \in Slots : owners[s] \subseteq executed

ClaimsInv ==
    /\ owners \in [Slots -> SUBSET Requests]
    /\ lapsed \subseteq executed
    /\ OnlyCommittedOwn
    /\ SlotHasOneOwner
    /\ AllOrNothing

LEMMA ClaimsInit == BookingRequestInit => ClaimsInv
  BY DEF BookingRequestInit, IdempotencyInit, ClaimsInv, OnlyCommittedOwn, SlotHasOneOwner,
         AllOrNothing

LEMMA CommitKeepsClaims ==
    ASSUME IdempotencyTypeOK, RowsAreOwned, ClaimsInv, NEW q \in Requests, CommitBooking(q)
    PROVE  ClaimsInv'
  <1>1. /\ executed' = executed \cup {q} /\ lapsed' = lapsed
        /\ \A s \in Wanted[q] : owners[s] \subseteq lapsed
        /\ owners' = [s \in Slots |-> IF s \in Wanted[q] THEN (owners[s] \ lapsed) \cup {q}
                                                         ELSE owners[s]]
    BY DEF CommitBooking, HandlerCommits, Claimable
  <1>2. Wanted[q] \subseteq Slots BY BookingRequestAssumption
  <1>3. \A s \in Slots : owners'[s] = IF s \in Wanted[q] THEN {q} ELSE owners[s]
    BY <1>1, <1>2
  <1>4. q \notin executed
    <2>1. OwnsIt(q) BY RowsInParts DEF RowsParts
    <2>2. stage[q] = "running" BY DEF CommitBooking, HandlerCommits, At
    <2> QED BY <2>1, <2>2 DEF OwnsIt
  <1>5. \A s \in Slots : q \notin owners[s] BY <1>4 DEF ClaimsInv, OnlyCommittedOwn
  <1>6. owners' \in [Slots -> SUBSET Requests] BY <1>1, <1>3 DEF ClaimsInv
  <1>7. OnlyCommittedOwn' BY <1>1, <1>3 DEF ClaimsInv, OnlyCommittedOwn
  <1>8. SlotHasOneOwner' BY <1>3 DEF ClaimsInv, SlotHasOneOwner
  <1>9. AllOrNothing'
    <2> SUFFICES ASSUME NEW p \in Requests \ lapsed
                 PROVE  {s \in Slots : p \in owners'[s]} \in {{}, Wanted[p]}
      BY <1>1 DEF AllOrNothing
    <2>1. CASE p = q
      <3>1. {s \in Slots : p \in owners'[s]} = Wanted[q] BY <1>2, <1>3, <1>5, <2>1
      <3> QED BY <2>1, <3>1
    <2>2. CASE p # q
      <3>1. {s \in Slots : p \in owners'[s]} = {s \in Slots : p \in owners[s]}
        BY <1>1, <1>3, <2>2
      <3> QED BY <3>1 DEF ClaimsInv, AllOrNothing
    <2> QED BY <2>1, <2>2
  <1>10. lapsed' \subseteq executed' BY <1>1 DEF ClaimsInv
  <1> QED BY <1>6, <1>7, <1>8, <1>9, <1>10 DEF ClaimsInv

LEMMA ReleaseKeepsClaims ==
    ASSUME ClaimsInv, NEW q \in Requests, ReleaseClaims(q)
    PROVE  ClaimsInv'
  <1>1. /\ executed' = executed /\ lapsed' = lapsed
        /\ owners' = [s \in Slots |-> IF s \in ClaimsOf(q) THEN owners[s] \ {q} ELSE owners[s]]
    BY DEF ReleaseClaims, idempotencyVars
  <1>2. \A s \in Slots : owners'[s] = owners[s] \ {q} BY <1>1 DEF ClaimsOf
  <1>3. owners' \in [Slots -> SUBSET Requests] BY <1>1, <1>2 DEF ClaimsInv
  <1>4. OnlyCommittedOwn' BY <1>1, <1>2 DEF ClaimsInv, OnlyCommittedOwn
  <1>5. SlotHasOneOwner' BY <1>2 DEF ClaimsInv, SlotHasOneOwner
  <1>6. AllOrNothing'
    <2> SUFFICES ASSUME NEW p \in Requests \ lapsed
                 PROVE  {s \in Slots : p \in owners'[s]} \in {{}, Wanted[p]}
      BY <1>1 DEF AllOrNothing
    <2>1. CASE p = q
      <3>1. {s \in Slots : p \in owners'[s]} = {} BY <1>2, <2>1
      <3> QED BY <3>1
    <2>2. CASE p # q
      <3>1. {s \in Slots : p \in owners'[s]} = {s \in Slots : p \in owners[s]} BY <1>2, <2>2
      <3> QED BY <3>1 DEF ClaimsInv, AllOrNothing
    <2> QED BY <2>1, <2>2
  <1>7. lapsed' \subseteq executed' BY <1>1 DEF ClaimsInv
  <1> QED BY <1>3, <1>4, <1>5, <1>6, <1>7 DEF ClaimsInv

LEMMA OthersKeepClaims ==
    ASSUME ClaimsInv, owners' = owners, executed' = executed,
           lapsed \subseteq lapsed', lapsed' \subseteq executed
    PROVE  ClaimsInv'
  BY DEF ClaimsInv, OnlyCommittedOwn, SlotHasOneOwner, AllOrNothing

LEMMA BookingRequestKeepsClaims ==
    IdempotencyTypeOK /\ RowsAreOwned /\ ClaimsInv /\ [BookingRequestNext]_bookingRequestVars
        => ClaimsInv'
  <1> SUFFICES ASSUME IdempotencyTypeOK, RowsAreOwned, ClaimsInv,
                      [BookingRequestNext]_bookingRequestVars
               PROVE  ClaimsInv'
    OBVIOUS
  <1>0. lapsed \subseteq executed BY DEF ClaimsInv
  <1>1. ASSUME NEW q \in Requests, Middleware(q) \/ (LoseCached(q) /\ UNCHANGED holdVars)
        PROVE  ClaimsInv'
    <2>1. executed' = executed
      BY <1>1, MiddlewareShows DEF Middleware, LoseCached
    <2>2. owners' = owners /\ lapsed' = lapsed BY <1>1 DEF Middleware, holdVars
    <2> QED BY <1>0, <2>1, <2>2, OthersKeepClaims
  <1>2. ASSUME NEW q \in Requests, HandlerStep(q) PROVE ClaimsInv'
    <2>1. CASE \E s \in Slots : ReserveKey(q, s)
      BY <1>0, <2>1, OthersKeepClaims DEF ReserveKey, idempotencyVars
    <2>2. CASE CommitBooking(q) BY <2>2, CommitKeepsClaims
    <2>3. CASE RefusedByKey(q) \/ RollBack(q)
      BY <1>0, <2>3, OthersKeepClaims DEF RefusedByKey, RollBack, idempotencyVars
    <2>4. CASE ReleaseReservedHoldKeys(q)
      BY <1>0, <2>4, OthersKeepClaims DEF ReleaseReservedHoldKeys, HandlerFails
    <2> QED BY <1>2, <2>1, <2>2, <2>3, <2>4 DEF HandlerStep
  <1>3. ASSUME NEW q \in Requests, LapseHold(q) PROVE ClaimsInv'
    BY <1>0, <1>3, OthersKeepClaims DEF LapseHold, idempotencyVars
  <1>4. ASSUME NEW q \in Requests, ReleaseClaims(q) PROVE ClaimsInv'
    BY <1>4, ReleaseKeepsClaims
  <1>5. ASSUME NEW s \in Slots, DeleteKey(s) \/ LoseKey(s) PROVE ClaimsInv'
    BY <1>0, <1>5, OthersKeepClaims DEF DeleteKey, LoseKey, idempotencyVars
  <1>6. CASE UNCHANGED bookingRequestVars
    BY <1>0, <1>6, OthersKeepClaims DEF bookingRequestVars, idempotencyVars, holdVars
  <1> QED BY <1>1, <1>2, <1>3, <1>4, <1>5, <1>6 DEF BookingRequestNext

LEMMA ClaimsHold == BookingRequestSpec => [](RowsAreOwned /\ ClaimsInv)
  <1>1. IdempotencyTypeOK /\ RowsAreOwned /\ ClaimsInv /\ [BookingRequestNext]_bookingRequestVars
            => ClaimsInv'
    BY BookingRequestKeepsClaims
  <1> QED BY <1>1, ClaimsInit, BehindTheMiddleware, IdempotencyTypeCorrect, RowsOwned, PTL
          DEF BookingRequestSpec

\* 06 C-1: whatever happens to the Redis keys, to processes and to retries, a
\* slot has one active owner.
THEOREM OneOwnerPerSlot == BookingRequestSpec => []SlotHasOneOwner
  <1>1. ClaimsInv => SlotHasOneOwner BY DEF ClaimsInv
  <1> QED BY <1>1, ClaimsHold, PTL

\* A booking whose hold has not lapsed owns every slot it asked for, or none.
THEOREM WholeOrNothing == BookingRequestSpec => []AllOrNothing
  <1>1. ClaimsInv => AllOrNothing BY DEF ClaimsInv
  <1> QED BY <1>1, ClaimsHold, PTL

\* 04 section 8: the retries of an order together own its slots once, and a
\* client told that nothing happened owns none.
THEOREM OrderedOnce == BookingRequestSpec => []OneOrderPerKey
  <1>1. ASSUME RowsAreOwned, ClaimsInv PROVE OneOrderPerKey
    <2>1. \A q \in Requests : Owns(q) => q \in executed
      BY <1>1 DEF Owns, ClaimsInv, OnlyCommittedOwn
    <2>2. ASSUME NEW p \in executed, NEW q \in executed, p \in Requests, q \in Requests,
                 KeyOf(p) = KeyOf(q)
          PROVE  p = q
      <3>1. OwnsIt(p) /\ OwnsIt(q) BY <1>1, <2>2, RowsInParts DEF RowsParts
      <3> QED BY <2>2, <3>1, NoneFailsLate DEF OwnsIt
    <2>3. ASSUME NEW q \in Requests, reply[q].kind \in {"reused", "busy", "failed"}
          PROVE  q \notin executed
      <3>1. Truthful(q) BY <1>1, RowsInParts DEF RowsParts
      <3> QED BY <2>3, <3>1, NoneFailsLate DEF Truthful
    <2> QED BY <2>1, <2>2, <2>3 DEF OneOrderPerKey
  <1> QED BY <1>1, ClaimsHold, PTL

-----------------------------------------------------------------------------
(* BookingRequest implements SlotBoard.  With one owner per slot the board  *)
(* can be read off the claims.                                              *)
LEMMA HolderReads ==
    ASSUME ClaimsInv, NEW s \in Slots
    PROVE  /\ SlotHolder[s] = Nobody <=> owners[s] = {}
           /\ \A q \in Requests : SlotHolder[s] = q <=> q \in owners[s]
  <1>1. owners[s] \subseteq Requests /\ \A p, q \in owners[s] : p = q
    BY DEF ClaimsInv, SlotHasOneOwner
  <1>2. CASE owners[s] = {}
    BY <1>2, NobodyElse DEF SlotHolder, HolderOf
  <1>3. CASE owners[s] # {}
    <2>1. SlotHolder[s] \in Requests /\ SlotHolder[s] \in owners[s]
      BY <1>1, <1>3 DEF SlotHolder, HolderOf
    <2> QED BY <1>1, <1>3, <2>1, NobodyElse
  <1> QED BY <1>2, <1>3

\* The hold of a walk-in does not lapse.
DirectStay == lapsed \cap Direct = {}

OrderBoardStep == [OrderBoard!Next]_<<SlotHolder, FirmSlots, AskedFor, lapsed>>

LEMMA BoardRests ==
    ASSUME UNCHANGED <<owners, executed, lapsed>>
    PROVE  OrderBoardStep
  BY DEF OrderBoardStep, SlotHolder, FirmSlots, AskedFor

\* A transaction that commits takes the slots it asked for.
LEMMA CommitTakes ==
    ASSUME IdempotencyTypeOK, RowsAreOwned, ClaimsInv, ClaimsInv', DirectStay,
           NEW q \in Requests, CommitBooking(q)
    PROVE  OrderBoardStep
  <1>1. /\ executed' = executed \cup {q} /\ lapsed' = lapsed
        /\ \A s \in Wanted[q] : owners[s] \subseteq lapsed
        /\ owners' = [s \in Slots |-> IF s \in Wanted[q] THEN (owners[s] \ lapsed) \cup {q}
                                                         ELSE owners[s]]
    BY DEF CommitBooking, HandlerCommits, Claimable
  <1>2. Wanted[q] \subseteq Slots BY BookingRequestAssumption
  <1>3. \A s \in Slots : owners'[s] = IF s \in Wanted[q] THEN {q} ELSE owners[s]
    BY <1>1, <1>2
  <1>4. q \notin executed
    <2>1. OwnsIt(q) BY RowsInParts DEF RowsParts
    <2>2. stage[q] = "running" BY DEF CommitBooking, HandlerCommits, At
    <2> QED BY <2>1, <2>2 DEF OwnsIt
  <1>5. AskedFor[q] = {} /\ AskedFor' = [AskedFor EXCEPT ![q] = Wanted[q]]
    BY <1>1, <1>4 DEF AskedFor
  <1>6. SlotHolder' = [s \in Slots |-> IF s \in Wanted[q] THEN q ELSE SlotHolder[s]]
    <2>1. ASSUME NEW s \in Slots
          PROVE  SlotHolder'[s] = IF s \in Wanted[q] THEN q ELSE SlotHolder[s]
      <3>1. CASE s \in Wanted[q]
        <4>1. q \in owners'[s] BY <1>3, <3>1
        <4>2. owners'[s] = {q} BY <1>3, <3>1
        <4>3. SlotHolder'[s] = HolderOf(owners'[s])
          BY DEF SlotHolder
        <4>4. HolderOf(owners'[s]) \in owners'[s]
          BY <4>1 DEF HolderOf
        <4> QED BY <3>1, <4>2, <4>3, <4>4
      <3>2. CASE s \notin Wanted[q]
        BY <1>3, <3>2 DEF SlotHolder
      <3> QED BY <3>1, <3>2
    <2>2. SlotHolder' = [s \in Slots |-> SlotHolder'[s]]
      BY DEF SlotHolder
    <2> QED BY <2>1, <2>2
  <1>7. ASSUME NEW s \in Wanted[q]
        PROVE  s \notin FirmSlots /\ (SlotHolder[s] = Nobody \/ SlotHolder[s] \in lapsed)
    <2>1. owners[s] \subseteq lapsed /\ s \in Slots BY <1>1, <1>2, <1>7
    <2>2. s \notin FirmSlots BY <2>1 DEF FirmSlots, DirectStay
    <2>3. owners[s] \subseteq Requests BY <2>1 DEF ClaimsInv
    <2>4. CASE owners[s] = {} BY <2>1, <2>2, <2>4, HolderReads
    <2>5. CASE owners[s] # {}
      <3>1. PICK r \in owners[s] : TRUE BY <2>5
      <3>2. SlotHolder[s] = r BY <2>1, <2>3, <3>1, HolderReads
      <3> QED BY <2>1, <2>2, <3>1, <3>2
    <2> QED BY <2>4, <2>5
  <1>8. FirmSlots' = IF q \in Direct THEN FirmSlots \cup Wanted[q] ELSE FirmSlots
    <2>1. \A s \in Slots : s \in FirmSlots' <=>
                                IF s \in Wanted[q] THEN q \in Direct ELSE s \in FirmSlots
      BY <1>3 DEF FirmSlots
    <2>2. FirmSlots \subseteq Slots /\ FirmSlots' \subseteq Slots BY DEF FirmSlots
    <2> QED BY <1>2, <1>7, <2>1, <2>2
  <1>9. CASE Wanted[q] = {}
    <2>1. UNCHANGED <<SlotHolder, FirmSlots, AskedFor, lapsed>>
      <3>1. SlotHolder' = SlotHolder
        BY <1>6, <1>9 DEF SlotHolder
      <3>2. AskedFor' = AskedFor
        BY <1>5, <1>9 DEF AskedFor
      <3>3. FirmSlots' = FirmSlots
        BY <1>8, <1>9
      <3> QED BY <1>1, <3>1, <3>2, <3>3
    <2> QED BY <2>1 DEF OrderBoardStep
  <1>10. CASE Wanted[q] # {}
    <2>1. \A s \in Wanted[q] : OrderBoard!Takeable(s)
      BY <1>7 DEF OrderBoard!Takeable, OrderBoard!Free
    <2>2. OrderBoard!Give(Wanted[q], q)
      BY <1>6 DEF OrderBoard!Give
    <2>3. Wanted[q] \in (SUBSET Slots) \ {{}}
      BY <1>2, <1>10
    <2>4. FirmSlots' \in {FirmSlots, FirmSlots \cup Wanted[q]}
      BY <1>8
    <2>5. OrderBoard!Take(q)
      BY <1>1, <1>5, <2>1, <2>2, <2>3, <2>4 DEF OrderBoard!Take
    <2> QED BY <2>5 DEF OrderBoardStep, OrderBoard!Next, OrderBoard!Owners
  <1> QED BY <1>9, <1>10

\* A release drops all that a booking has.
LEMMA ReleaseDropsAll ==
    ASSUME ClaimsInv, ClaimsInv', NEW q \in Requests, ReleaseClaims(q)
    PROVE  OrderBoardStep
  <1>1. executed' = executed /\ lapsed' = lapsed
    BY DEF ReleaseClaims, idempotencyVars
  <1>2. \A s \in Slots : owners'[s] = owners[s] \ {q}
    BY DEF ReleaseClaims, ClaimsOf
  <1>3. OrderBoard!SlotsOf(q) = {s \in Slots : q \in owners[s]}
    BY HolderReads DEF OrderBoard!SlotsOf
  <1>4. \A s \in Slots : owners[s] \subseteq Requests /\ \A p, r \in owners[s] : p = r
    BY DEF ClaimsInv, SlotHasOneOwner
  <1>5. SlotHolder' = [s \in Slots |-> IF s \in OrderBoard!SlotsOf(q) THEN Nobody
                                                                      ELSE SlotHolder[s]]
    <2>1. ASSUME NEW s \in Slots
          PROVE  SlotHolder'[s] = IF s \in OrderBoard!SlotsOf(q) THEN Nobody ELSE SlotHolder[s]
      <3>1. CASE q \in owners[s]
        <4>1. owners'[s] = {} BY <1>2, <1>4, <3>1
        <4> QED BY <1>3, <3>1, <4>1 DEF SlotHolder, HolderOf
      <3>2. CASE q \notin owners[s]
        <4>1. owners'[s] = owners[s] BY <1>2, <3>2
        <4> QED BY <1>3, <3>2, <4>1 DEF SlotHolder
      <3> QED BY <3>1, <3>2
    <2>2. SlotHolder' = [s \in Slots |-> SlotHolder'[s]]
      BY DEF SlotHolder
    <2> QED BY <2>1, <2>2
  <1>6. FirmSlots' = FirmSlots \ OrderBoard!SlotsOf(q)
    <2>1. \A s \in Slots : s \in FirmSlots' <=> s \in FirmSlots /\ q \notin owners[s]
      BY <1>2, <1>4 DEF FirmSlots
    <2> QED BY <1>3, <2>1 DEF FirmSlots
  <1>7. AskedFor' = AskedFor
    BY <1>1 DEF AskedFor
  <1>8. OrderBoard!Drop(q)
    BY <1>1, <1>5, <1>6, <1>7 DEF OrderBoard!Drop, OrderBoard!Give
  <1> QED BY <1>8 DEF OrderBoardStep, OrderBoard!Next, OrderBoard!Owners

LEMMA BookingRequestOnBoard ==
    ASSUME IdempotencyTypeOK, RowsAreOwned, ClaimsInv, ClaimsInv', DirectStay,
           [BookingRequestNext]_bookingRequestVars
    PROVE  OrderBoardStep
  <1>1. ASSUME NEW q \in Requests, Middleware(q) \/ (LoseCached(q) /\ UNCHANGED holdVars)
        PROVE  OrderBoardStep
    <2>1. executed' = executed
      BY <1>1, MiddlewareShows DEF Middleware, LoseCached
    <2> QED BY <1>1, <2>1, BoardRests DEF Middleware, holdVars
  <1>2. ASSUME NEW q \in Requests, CommitBooking(q) PROVE OrderBoardStep
    BY <1>2, CommitTakes
  <1>3. ASSUME NEW q \in Requests,
               \/ \E s \in Slots : ReserveKey(q, s)
               \/ RefusedByKey(q) \/ RollBack(q) \/ ReleaseReservedHoldKeys(q)
        PROVE  OrderBoardStep
    BY <1>3, BoardRests DEF ReserveKey, RefusedByKey, RollBack, ReleaseReservedHoldKeys,
       HandlerFails, idempotencyVars
  <1>4. ASSUME NEW q \in Requests, LapseHold(q) PROVE OrderBoardStep
    <2>1. UNCHANGED <<SlotHolder, FirmSlots, AskedFor>>
      BY <1>4 DEF LapseHold, idempotencyVars, SlotHolder, FirmSlots, AskedFor
    <2>2. OrderBoard!Lapse(q)
      BY <1>4, <2>1 DEF LapseHold, OrderBoard!Lapse
    <2> QED BY <2>2 DEF OrderBoardStep, OrderBoard!Next
  <1>5. ASSUME NEW q \in Requests, ReleaseClaims(q) PROVE OrderBoardStep
    BY <1>5, ReleaseDropsAll
  <1>6. ASSUME NEW s \in Slots, DeleteKey(s) \/ LoseKey(s) PROVE OrderBoardStep
    BY <1>6, BoardRests DEF DeleteKey, LoseKey, idempotencyVars
  <1>7. CASE UNCHANGED bookingRequestVars
    BY <1>7, BoardRests DEF bookingRequestVars, idempotencyVars, holdVars
  <1> QED BY <1>1, <1>2, <1>3, <1>4, <1>5, <1>6, <1>7 DEF BookingRequestNext, HandlerStep

LEMMA DirectStayStep ==
    DirectStay /\ [BookingRequestNext]_bookingRequestVars => DirectStay'
  BY DEF DirectStay, BookingRequestNext, Middleware, HandlerStep, ReserveKey, RefusedByKey,
         CommitBooking, RollBack, ReleaseReservedHoldKeys, LapseHold, ReleaseClaims, DeleteKey,
         LoseKey, bookingRequestVars, holdVars

\* The orders implement the board that BookingPayments implements: whatever
\* happens to Redis keys, to processes and to retries, slots are only taken
\* while free or off lapsed holds, and dropped all together.
THEOREM OrdersOnBoard == BookingRequestSpec => OrdersImplementBoard
  <1>1. BookingRequestInit => OrderBoard!Init /\ DirectStay
    BY DEF BookingRequestInit, IdempotencyInit, OrderBoard!Init, OrderBoard!Owners, SlotHolder,
           HolderOf, FirmSlots, AskedFor, DirectStay
  <1>2. IdempotencyTypeOK /\ RowsAreOwned /\ ClaimsInv /\ ClaimsInv' /\ DirectStay
            /\ [BookingRequestNext]_bookingRequestVars
            => [OrderBoard!Next]_<<SlotHolder, FirmSlots, AskedFor, lapsed>>
    BY BookingRequestOnBoard DEF OrderBoardStep
  <1> QED BY <1>1, <1>2, DirectStayStep, ClaimsHold, BehindTheMiddleware,
             IdempotencyTypeCorrect, PTL
          DEF BookingRequestSpec, OrdersImplementBoard, OrderBoard!Spec, OrderBoard!vars
=============================================================================
