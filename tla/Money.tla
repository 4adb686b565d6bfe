------------------------------- MODULE Money -------------------------------
(***************************************************************************)
(* The conversions between text and cents: SimpleFIN balances              *)
(* (parseMoneyToCents), amounts scraped from a portal                      *)
(* (parseDollarsToCents), the settings form (ParseFloat, times 100, plus a *)
(* half, cut off) and the text an edit form is filled with                 *)
(* (formatCentsPlain).  A text is a sequence of one-character strings.     *)
(***************************************************************************)
EXTENDS Integers, SequencesExt

CONSTANTS
    LongMax,  \* the largest int64, one less than a power of two
    IntMax,   \* the largest value of an INTEGER column, likewise
    FloatMax  \* 2^53: a float64 operation is off by one part in FloatMax at most

ASSUME MoneyAssumption ==
    /\ LongMax \in Nat /\ LongMax >= 99 /\ IntMax \in 0..LongMax
    /\ FloatMax \in Nat /\ 800 * (IntMax + 2) < FloatMax

Numerals  == <<"0", "1", "2", "3", "4", "5", "6", "7", "8", "9">>
Digit     == ToSet(Numerals)
DigitValue == [c \in Digit |-> (CHOOSE i \in 1..10 : Numerals[i] = c) - 1]

\* the number a sequence of digits stands for
Unsigned(s) ==
    LET value[n \in 0..Len(s)] == IF n = 0 THEN 0 ELSE 10 * value[n - 1] + DigitValue[s[n]]
    IN value[Len(s)]

Power10[n \in Nat] == IF n = 0 THEN 1 ELSE 10 * Power10[n - 1]

Parsed(n) == [ok |-> TRUE, value |-> n]
NotParsed == [ok |-> FALSE, value |-> 0]

\* int64 arithmetic wraps around
IsLong(n) == n \in (-LongMax - 1)..LongMax
Wrap(n)   == ((n + LongMax + 1) % (2 * (LongMax + 1))) - (LongMax + 1)

\* strconv.ParseInt(s, 10, 64), which takes a sign of its own
ParseInt(s) ==
    LET sign   == IF s = <<>> THEN "" ELSE Head(s)
        digits == IF sign \in {"+", "-"} THEN Tail(s) ELSE s
        n      == IF sign = "-" THEN -Unsigned(digits) ELSE Unsigned(digits)
    IN IF digits # <<>> /\ ToSet(digits) \subseteq Digit /\ IsLong(n)
       THEN Parsed(n) ELSE NotParsed

\* strings.Cut(s, "."): the texts before and after the first point
Point(s)       == SelectInSeq(s, LAMBDA c : c = ".")  \* 0 if there is none
BeforePoint(s) == IF Point(s) = 0 THEN s ELSE SubSeq(s, 1, Point(s) - 1)
AfterPoint(s)  == IF Point(s) = 0 THEN <<>> ELSE SubSeq(s, Point(s) + 1, Len(s))
FirstTwo(s)    == IF Len(s) > 2 THEN SubSeq(s, 1, 2) ELSE s

\* wrong: one digit after the point counts as cents, not tenths
FractionUnpadded(s) ==
    IF Point(s) = 0 THEN <<"0", "0">> ELSE FirstTwo(AfterPoint(s))

\* two digits after the point: filled up with a zero, or cut off
Fraction(s) ==
    CASE Point(s) = 0           -> <<"0", "0">>
      [] Len(AfterPoint(s)) = 1 -> AfterPoint(s) \o <<"0">>
      [] OTHER                  -> FirstTwo(AfterPoint(s))

\* the part the three parsers have in common, after the sign
ParseCents(neg, s) ==
    LET whole == ParseInt(IF BeforePoint(s) = <<>> THEN <<"0">> ELSE BeforePoint(s))
        frac  == ParseInt(Fraction(s))
        total == Wrap(whole.value * 100 + frac.value)
    IN IF whole.ok /\ frac.ok THEN Parsed(IF neg THEN Wrap(-total) ELSE total)
       ELSE NotParsed

\* a number without its sign
Mantissa(s) == IF s # <<>> /\ Head(s) \in {"+", "-"} THEN Tail(s) ELSE s

\* a SimpleFIN balance; s is trimmed
parseMoneyToCents(s) ==
    IF s = <<>> THEN NotParsed ELSE ParseCents(Head(s) = "-", Mantissa(s))

\* the characters of s that are in S
Kept(s, S) ==
    LET kept[n \in 0..Len(s)] == IF n = 0 THEN <<>>
                                 ELSE IF s[n] \in S THEN Append(kept[n - 1], s[n])
                                 ELSE kept[n - 1]
    IN kept[Len(s)]

\* what a portal shows: all but digits, points and minus signs is dropped
parseDollarsToCents(s) ==
    LET stripped == Kept(s, Digit \cup {".", "-"})
        neg      == stripped # <<>> /\ Head(stripped) = "-"
    IN IF stripped = <<>> THEN NotParsed
       ELSE ParseCents(neg, IF neg THEN Tail(stripped) ELSE stripped)

\* a decimal number as ParseFloat reads it: an optional sign, digits and at most
\* one point, at least one digit
Digits(s)    == BeforePoint(Mantissa(s)) \o AfterPoint(Mantissa(s))
IsDecimal(s) == Digits(s) # <<>> /\ ToSet(Digits(s)) \subseteq Digit

\* its value is Scaled(s) / Power10[Decimals(s)]
Decimals(s) == Len(AfterPoint(Mantissa(s)))
Scaled(s)   == IF Head(s) = "-" THEN -Unsigned(Digits(s)) ELSE Unsigned(Digits(s))

\* integer division that cuts off towards zero, as int() does
Truncate(a, b) == IF a >= 0 THEN a \div b ELSE -((-a) \div b)

\* How far float64 may take x * 100 + 0.5 from its exact value, in parts of
\* 1 / (2 * Power10[Decimals(s)]), rounded down: reading the text, the product and
\* the sum each round, 300 * |x| + 1/2 parts in FloatMax together, with some room
\* for the rounding of what was rounded.
Slack(s) ==
    LET u == Unsigned(Digits(s))
    IN (800 * u + 2 * Power10[Decimals(s)]) \div FloatMax

\* int(x * 100 + 0.5): every whole number the rounded sum may be cut off to.  An
\* error of less than a part matters only when the exact sum is a whole number.
\* (Beyond the int64 what int() makes of it depends on the machine; no column
\* holds that either.)
FormCents(s) ==
    LET num == Scaled(s) * 200 + Power10[Decimals(s)]
        den == 2 * Power10[Decimals(s)]
        err == 2 * Slack(s) + 1
    IN Truncate(2 * num - err, 2 * den)..Truncate(2 * num + err, 2 * den)

\* fmt.Sprintf("%.2f", float64(cents) / 100)
Itoa[n \in Nat] == IF n < 10 THEN <<Numerals[n + 1]>>
                   ELSE Append(Itoa[n \div 10], Numerals[(n % 10) + 1])

formatCentsPlain(cents) ==
    LET n == IF cents < 0 THEN -cents ELSE cents
    IN (IF cents < 0 THEN <<"-">> ELSE <<>>) \o Itoa[n \div 100]
          \o <<".", Numerals[((n % 100) \div 10) + 1], Numerals[(n % 10) + 1]>>

-----------------------------------------------------------------------------
\* the amount s states, in cents, what is beyond a cent cut off
CutToCent(s) == Truncate(Scaled(s) * 100, Power10[Decimals(s)])

\* c is the whole number of cents nearest to what s states, within what float64
\* can tell apart; either neighbour is, half way between two
NearestCent(s, c) ==
    LET off == 2 * (c * Power10[Decimals(s)] - Scaled(s) * 100)
        tol == Power10[Decimals(s)] + Slack(s)
    IN off <= tol /\ -off <= tol

=============================================================================
