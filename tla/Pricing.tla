------------------------------- MODULE Pricing -------------------------------
(***************************************************************************)
(* The price of a slot and the total of a quote (pricing-pipeline.ts,      *)
(* promo-discount.ts, round.ts).  The functions are pure; what can vary is *)
(* what an administrator has stored and the order in which the database    *)
(* returns it, for findPricingPriceRules selects without ORDER BY.         *)
(* An inquiry asks for the rule that prices a slot, or for a quote.        *)
(***************************************************************************)
EXTENDS Integers, Sequences, FiniteSets, SequencesExt

CONSTANTS
    Rules,       \* price_rules that may be stored: see RuleFields
    MaxRules,    \* bound: rules stored at once
    Dates,       \* calendar days: [date, weekday], weekday from the calendar or the override
    Hours,       \* hours of the day a slot may start at
    UnitPrices,  \* price_per_hour_amount, for slots of half an hour
    MaxLines,    \* bound: slots of a quote
    AddonTotals, \* sum of the add-on lines
    Promos,      \* promos that a quote may come with
    TaxRates     \* app_settings.tax_rate, in percent

RuleFields ==
    [id : Nat, priority : Int, courtSpecific : BOOLEAN,
     dayType : {"weekday", "weekend", "holiday", "specific_date"}, date : {d.date : d \in Dates},
     starts : Nat, ends : Nat, createdAt : Nat]

PromoTerms ==
    [type : {"none"}]
    \cup [type : {"percent"}, percent : Nat, cap : Nat]
    \cup [type : {"fixed"}, value : Nat]
    \cup [type : {"free_slot"}, count : Nat]

ASSUME PricingAssumption ==
    /\ Rules \subseteq RuleFields
    /\ \A r, q \in Rules : r.id = q.id => r = q
    /\ MaxRules \in Nat /\ MaxLines \in Nat \ {0}
    /\ UnitPrices \subseteq Nat /\ AddonTotals \subseteq Nat /\ TaxRates \subseteq Nat
    /\ Promos \subseteq PromoTerms

VARIABLES
    inquiry,   \* what is asked, and what the database holds then
    answer     \* what the pipeline answers

pricingVars == <<inquiry, answer>>

-----------------------------------------------------------------------------
(* P2: the rule that prices a slot of a court.                              *)

\* dayTypeFor: any rule for the very date makes the day a specific date, even
\* one of another court or another hour; else the calendar or its override.
DayTypeFor(day, rows) ==
    IF \E r \in rows : r.dayType = "specific_date" /\ r.date = day.date
    THEN "specific_date" ELSE day.weekday

Specificity == [weekday |-> 1, weekend |-> 2, holiday |-> 3, specific_date |-> 4]

\* Faulty: two rules may tie.
SortsUnlessTied(r, q) ==
    \/ r.priority > q.priority
    \/ r.priority = q.priority /\ r.createdAt > q.createdAt

\* comparePriceRules < 0: the keys in their order, the first that differs decides.
SortsBefore(r, q) ==
    LET SortKeys(x) == <<-x.priority, IF x.courtSpecific THEN 0 ELSE 1, -Specificity[x.dayType],
                         x.ends - x.starts, -x.createdAt, x.id>>
    IN  \E i \in 1..6 : /\ SortKeys(r)[i] < SortKeys(q)[i]
                            /\ \A j \in 1..(i - 1) : SortKeys(r)[j] = SortKeys(q)[j]

\* matchingPriceRule's filter; rules of other courts are left out of Rules, but
\* not those of other dates, which it does not compare with the slot's.
RuleMatches(r, day, hour, rows) ==
    /\ r.starts <= hour /\ hour < r.ends
    /\ r.dayType = DayTypeFor(day, rows)

\* The first of a stable sort of the rows that match; {} when there is none
\* and the slot is not sold (PRICE_RULE_NOT_FOUND).
PriceRule(rows, day, hour) ==
    LET stored == {rows[i] : i \in DOMAIN rows}
        Match(i) == RuleMatches(rows[i], day, hour, stored)
    IN  {rows[i] : i \in {k \in DOMAIN rows :
            /\ Match(k)
            /\ \A j \in DOMAIN rows \ {k} : Match(j) =>
                 \/ SortsBefore(rows[k], rows[j])
                 \/ ~SortsBefore(rows[j], rows[k]) /\ k < j}}

-----------------------------------------------------------------------------
(* P3 to P10: the lines and the total of a quote.                           *)

\* roundTo100 of n/d: Math.round, half up also below zero.
RoundTo100(n, d) == 100 * ((n + 50 * d) \div (100 * d))

\* bookingLines: the price of half an hour.
UnitPrice(perHour) == RoundTo100(perHour, 2)

AtMost(x, y) == IF x <= y THEN x ELSE y
AtLeast(x, y) == IF x >= y THEN x ELSE y

\* As many of the slots as a promo gives away, the cheapest ones.
Cheapest(prices, count) ==
    CHOOSE I \in SUBSET DOMAIN prices :
        /\ Cardinality(I) = AtMost(count, Len(prices))
        /\ \A i \in I, j \in DOMAIN prices \ I : prices[i] <= prices[j]

\* computeDiscount before it is rounded, as hundredths of a rupiah.
RawDiscount(promo, base, prices) ==
    CASE promo.type = "percent"   -> AtMost(base * promo.percent, 100 * promo.cap)
      [] promo.type = "fixed"     -> 100 * promo.value
      [] promo.type = "free_slot" ->
           100 * SumFunctionOnSet(prices, Cheapest(prices, promo.count))
      [] promo.type = "none"      -> 0

\* Faulty: rounds after it has clamped.
RoundedLast(promo, base, prices) ==
    RoundTo100(AtMost(RawDiscount(promo, base, prices), 100 * base), 100)

\* computeDiscount, and evaluatedPromo's clamp to the same base.
Discount(promo, base, prices) ==
    AtLeast(0, AtMost(RoundTo100(RawDiscount(promo, base, prices), 100), base))

\* computePricingPipeline.
Quote(prices, addons, promo, taxRate) ==
    LET base     == SumFunction(prices) + addons
        discount == Discount(promo, base, prices)
        tax      == RoundTo100((base - discount) * taxRate, 100)
        raw      == base - discount + tax
        total    == AtLeast(0, RoundTo100(raw, 1))
    IN  [base |-> base, discount |-> discount, tax |-> tax,
         rounding |-> total - raw, total |-> total]

-----------------------------------------------------------------------------
NoAnswer == [of |-> "nobody"]

PriceInquiries ==
    [of : {"price"}, rules : {s \in SUBSET Rules : IsFiniteSet(s) /\ Cardinality(s) <= MaxRules},
     day : Dates, hour : Hours]
QuoteInquiries ==
    [of : {"quote"}, perHour : UNION {[1..n -> UnitPrices] : n \in 1..MaxLines},
     addons : AddonTotals, promo : Promos, taxRate : TaxRates]

PricingInit ==
    /\ inquiry \in PriceInquiries \cup QuoteInquiries
    /\ answer = NoAnswer

\* The rules come in some order.
AnswerPrice ==
    /\ inquiry.of = "price" /\ answer = NoAnswer
    /\ \E rows \in SetToSeqs(inquiry.rules) :
         answer' = [of |-> "price", rule |-> PriceRule(rows, inquiry.day, inquiry.hour)]
    /\ UNCHANGED inquiry

AnswerQuote ==
    /\ inquiry.of = "quote" /\ answer = NoAnswer
    /\ LET prices == [i \in DOMAIN inquiry.perHour |-> UnitPrice(inquiry.perHour[i])]
       IN  answer' = [of |-> "quote", quote |->
                        Quote(prices, inquiry.addons, inquiry.promo, inquiry.taxRate),
                      full |-> Quote(prices, inquiry.addons, [type |-> "none"], inquiry.taxRate)]
    /\ UNCHANGED inquiry

PricingNext == AnswerPrice \/ AnswerQuote
PricingSpec == PricingInit /\ [][PricingNext]_pricingVars

-----------------------------------------------------------------------------
\* A slot has one price: the rule that the pipeline picks is the same in
\* whatever order the database returns the rules, and there is one whenever
\* some rule matches, though rules overlap in every respect they can.
PriceIgnoresRowOrder ==
    answer.of = "price" =>
        /\ Cardinality(answer.rule) =
             IF \E r \in inquiry.rules : RuleMatches(r, inquiry.day, inquiry.hour, inquiry.rules)
             THEN 1 ELSE 0
        /\ \A rows \in SetToSeqs(inquiry.rules) :
             PriceRule(rows, inquiry.day, inquiry.hour) = answer.rule

\* A quote adds up: the discount is part of what it is taken from, the total is
\* a whole number of hundreds at most 50 away from the sum of the parts, and a
\* promo never makes a booking dearer, although discount, tax and total are
\* each rounded half up on their own.
QuoteAddsUp ==
    answer.of = "quote" =>
        LET q == answer.quote
        IN  /\ 0 <= q.discount /\ q.discount <= q.base
            /\ q.total % 100 = 0 /\ q.total >= 0
            /\ q.rounding \in -50..50
            /\ q.total = q.base - q.discount + q.tax + q.rounding
            /\ q.total <= answer.full.total

=============================================================================
