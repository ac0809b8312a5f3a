------------------------------ MODULE Amounts ------------------------------
(***************************************************************************)
(* Amounts and points in time (util/amounts.ts, util/time.ts), and what is  *)
(* computed with them: the throttling of requests (RequestThrottler.ts) and *)
(* the comparison of protocol versions (libtoolVersion.ts).                *)
(*                                                                          *)
(* Amounts of one currency; an operator whose code throws gives Throws.      *)
(***************************************************************************)
EXTENDS Integers, Sequences, SequencesExt, Folds, FiniteSets

CONSTANTS
  fractionalLength,  \* digits behind the comma
  maxAmountValue,
  Throws,            \* an error was thrown
  Undef,             \* undefined
  Forever            \* the point in time "never", and the duration "forever"

ASSUME AmountsAssumption ==
  fractionalLength \in Nat \ {0} /\ maxAmountValue \in Nat \ {0}

fractionalBase == 10 ^ fractionalLength

Amount(value, fraction) == [value |-> value, fraction |-> fraction]
getZero == Amount(0, 0)
Saturated(a) == [amount |-> a, saturated |-> TRUE]
Exact(a) == [amount |-> a, saturated |-> FALSE]

\* What an amount means, in fractional units.
Units(a) == a.value * fractionalBase + a.fraction
IsNormal(a) == /\ a.value \in 0..maxAmountValue
               /\ a.fraction \in 0..fractionalBase - 1

Carried(a) == Amount(a.value + a.fraction \div fractionalBase, a.fraction % fractionalBase)
Greatest == Amount(maxAmountValue, fractionalBase - 1)

\* add: the first sum that is too large ends it.
AddOne(result, x) ==
  LET sum == Carried(Amount(result.amount.value + x.value, result.amount.fraction + x.fraction))
  IN IF result.saturated THEN result
     ELSE IF sum.value > maxAmountValue THEN Saturated(Greatest) ELSE Exact(sum)
Add(first, rest) ==
  FoldLeft(AddOne, IF Carried(first).value > maxAmountValue THEN Saturated(Greatest) ELSE Exact(Carried(first)), rest)
SumOf(amounts) == IF amounts = <<>> THEN Throws ELSE Add(Head(amounts), Tail(amounts))

\* Mutant: what is borrowed is not taken off the value.
SubOneForFree(result, b) ==
  LET a == result.amount
      fraction == IF a.fraction < b.fraction THEN a.fraction + fractionalBase ELSE a.fraction
  IN IF result.saturated \/ a.value < b.value THEN Saturated(getZero)
     ELSE Exact(Amount(a.value - b.value, fraction - b.fraction))
\* sub: one that is too large leaves nothing.
SubOne(result, b) ==
  LET a == result.amount
      borrows == a.fraction < b.fraction
      value == IF borrows THEN a.value - 1 ELSE a.value
      fraction == IF borrows THEN a.fraction + fractionalBase ELSE a.fraction
  IN IF result.saturated THEN result
     ELSE IF (borrows /\ a.value < 1) \/ value < b.value THEN Saturated(getZero)
     ELSE Exact(Amount(value - b.value, fraction - b.fraction))
Sub(a, rest) == FoldLeft(SubOne, Exact(a), rest)

Sign(n) == IF n < 0 THEN -1 ELSE IF n > 0 THEN 1 ELSE 0
Cmp(a, b) ==
  IF Carried(a).value # Carried(b).value THEN Sign(Carried(a).value - Carried(b).value)
  ELSE Sign(Carried(a).fraction - Carried(b).fraction)

Divide(a, n) ==
  IF n = 0 THEN Throws
  ELSE Amount(a.value \div n, ((a.value % n) * fractionalBase + a.fraction) \div n)

IsZero(a) == a.value = 0 /\ a.fraction = 0
IsNonZero(a) == a.value > 0 \/ a.fraction > 0

\* stringify: the value, and the digits of the fraction until nothing is left of it.
Stringify(a) ==
  LET rest[i \in 0..fractionalLength] ==
        IF i = 0 THEN Carried(a).fraction ELSE (rest[i - 1] * 10) % fractionalBase
      count == Cardinality({i \in 0..fractionalLength - 1 : rest[i] # 0})
  IN [whole |-> Carried(a).value, digits |-> [i \in 1..count |-> (rest[i - 1] * 10) \div fractionalBase]]

\* parse: up to fractionalLength digits behind the comma.
Parse(s) ==
  LET weighted(sum, i) == sum + s.digits[i] * 10 ^ (fractionalLength - i)
  IN IF Len(s.digits) > fractionalLength \/ s.whole > maxAmountValue THEN Undef
     ELSE Amount(s.whole, FoldLeft(weighted, 0, [i \in DOMAIN s.digits |-> i]))

----------------------------------------------------------------------------
(* Points in time and durations: a number of milliseconds, or Forever. *)
getDurationRemaining(deadline, now) ==
  IF deadline = Forever THEN Forever
  ELSE IF now = Forever THEN Throws
  ELSE IF deadline < now THEN 0 ELSE deadline - now

LesserOf(a, b) == IF a <= b THEN a ELSE b

\* When the second is for ever it is the second that is given back, as when the first is.
timestampMin(t1, t2) == IF t1 = Forever \/ t2 = Forever THEN t2 ELSE LesserOf(t1, t2)
durationMin(d1, d2) == IF d1 = Forever \/ d2 = Forever THEN d2 ELSE LesserOf(d1, d2)

timestampCmp(t1, t2) ==
  IF t1 = t2 THEN 0
  ELSE IF t1 = Forever THEN 1
  ELSE IF t2 = Forever THEN -1
  ELSE Sign(t1 - t2)

timestampAddDuration(t, d) == IF t = Forever \/ d = Forever THEN Forever ELSE t + d
timestampSubtractDuraction(t, d) ==
  IF t = Forever THEN Forever
  ELSE IF d = Forever \/ t < d THEN 0 ELSE t - d
timestampDifference(t1, t2) ==
  IF t1 = Forever \/ t2 = Forever THEN Forever
  ELSE IF t1 < t2 THEN t2 - t1 ELSE t1 - t2
timestampIsBetween(t, start, end) == timestampCmp(t, start) >= 0 /\ timestampCmp(t, end) <= 0
timestampTruncateToSecond(t, second) == IF t = Forever THEN Forever ELSE (t \div second) * second

----------------------------------------------------------------------------
(* Throttling: an origin's three buckets, counted in tokens times a factor   *)
(* so that a part of a token is a whole number.  A bucket is full at its     *)
(* limit; a request takes a token out of each.                              *)
Buckets == {"second", "minute", "hour"}

\* refill, with what each bucket gains in a second.
Refill(tokens, full, rate, elapsed) ==
  LET filled(b) == LesserOf(full[b], tokens[b] + rate[b] * elapsed)
  IN [second |-> filled("second"), minute |-> filled("minute"), hour |-> filled("hour")]

\* applyThrottle: a request is refused when a bucket holds less than a token.
IsThrottled(tokens, token) == \E b \in Buckets : tokens[b] < token
Taken(tokens, token) ==
  IF IsThrottled(tokens, token) THEN tokens
  ELSE [second |-> tokens.second - token, minute |-> tokens.minute - token, hour |-> tokens.hour - token]

\* getState and applyThrottle: each origin has its own buckets.
ApplyThrottle(origins, origin, full, rate, token, now) ==
  LET state == IF origin \in DOMAIN origins THEN origins[origin] ELSE [tokens |-> full, lastUpdate |-> now]
      filled == Refill(state.tokens, full, rate, timestampDifference(now, state.lastUpdate))
  IN [throttled |-> IsThrottled(filled, token),
      origins |-> (origin :> [tokens |-> Taken(filled, token), lastUpdate |-> now]) @@ origins]

----------------------------------------------------------------------------
(* Versions: <<current, revision, age>>, or Undef when the text is not one. *)
Compare(me, other) ==
  IF me = Undef \/ other = Undef THEN Undef
  ELSE [compatible |-> me[1] - me[3] <= other[1] /\ me[1] >= other[1] - other[3],
        currentCmp |-> Sign(me[1] - other[1])]
=============================================================================
