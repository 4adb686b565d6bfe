----------------------------- MODULE MoneyProofs -----------------------------
(***************************************************************************)
(* What the conversions of Money compute, for texts of every length.  The  *)
(* induction over a text is one over the set of lengths for which a fact   *)
(* holds: a set of naturals with 0 and the successor of each of its        *)
(* elements has them all.                                                  *)
(***************************************************************************)
EXTENDS Money, WellFoundedInduction, TLAPS

-----------------------------------------------------------------------------
(* Induction and recursion on the naturals *)

LEMMA InductionOverNat ==
    ASSUME NEW S, 0 \in S, \A n \in Nat : n \in S => n + 1 \in S
    PROVE  \A n \in Nat : n \in S
<1> DEFINE rest == Nat \ S
           less == OpToRel(<, Nat)
<1> SUFFICES ASSUME rest # {} PROVE FALSE
  OBVIOUS
<1>1. IsWellFoundedOn(less, Nat)
  BY NatLessThanWellFounded
<1>2. rest \subseteq Nat
  OBVIOUS
<1>3. \E n \in rest : \A k \in rest : <<k, n>> \notin less
  <2> HIDE DEF rest, less
  <2> QED BY <1>1, <1>2, WFMin
<1>4. PICK n \in rest : \A k \in rest : <<k, n>> \notin less
  BY <1>3
<1>5. n # 0 /\ n - 1 \in Nat /\ n - 1 < n
  OBVIOUS
<1>6. <<n - 1, n>> \in less
  BY <1>5 DEF OpToRel
<1>7. n - 1 \notin S
  BY <1>5
<1> QED BY <1>4, <1>5, <1>6, <1>7

\* A set with every natural below which it has all others has them all.
LEMMA StrongInduction ==
    ASSUME NEW S, \A n \in Nat : 0..(n - 1) \subseteq S => n \in S
    PROVE  \A n \in Nat : n \in S
<1> DEFINE T == {n \in Nat : 0..n \subseteq S}
<1>1. 0 \in T
  OBVIOUS
<1>2. ASSUME NEW n \in Nat, n \in T PROVE n + 1 \in T
  <2>1. 0..(n + 1) = 0..n \cup {n + 1} /\ 0..((n + 1) - 1) = 0..n
    BY <1>2
  <2> QED BY <1>2, <2>1
<1>3. \A n \in Nat : n \in T
  <2> HIDE DEF T
  <2> QED BY <1>1, <1>2, InductionOverNat
<1> QED BY <1>3

\* f follows the recursion up to N: below a number n of D it goes back to p[n].
Follows(f, N, D, p, base, G) ==
    \A n \in 0..N : f[n] = IF n \in D THEN G[<<n, f[p[n]]>>] ELSE base[n]

LEMMA RecursionUnique ==
    ASSUME NEW D, NEW p \in [Nat -> Nat], \A n \in D : p[n] < n,
           NEW base, NEW G, NEW N \in Nat, NEW f, NEW g,
           Follows(f, N, D, p, base, G), Follows(g, N, D, p, base, G)
    PROVE  \A n \in 0..N : f[n] = g[n]
<1> DEFINE S == {n \in Nat : n \in 0..N => f[n] = g[n]}
<1>1. ASSUME NEW n \in Nat, 0..(n - 1) \subseteq S PROVE n \in S
  <2> SUFFICES ASSUME n \in 0..N PROVE f[n] = g[n]
    OBVIOUS
  <2>1. f[n] = (IF n \in D THEN G[<<n, f[p[n]]>>] ELSE base[n])
        /\ g[n] = (IF n \in D THEN G[<<n, g[p[n]]>>] ELSE base[n])
    BY DEF Follows
  <2>2. n \in D => f[p[n]] = g[p[n]]
    BY <1>1
  <2> QED BY <2>1, <2>2
<1>2. \A n \in Nat : n \in S
  <2> HIDE DEF S
  <2> QED BY <1>1, StrongInduction
<1> QED BY <1>2

LEMMA RecursionExists ==
    ASSUME NEW V, NEW D, NEW p \in [Nat -> Nat], \A n \in D : p[n] < n,
           NEW base \in [Nat -> V], NEW G \in [Nat \X V -> V]
    PROVE  \E f \in [Nat -> V] : \A N \in Nat : Follows(f, N, D, p, base, G)
<1> DEFINE Sol(f, N) == Follows(f, N, D, p, base, G)
           S == {N \in Nat : \E f \in [Nat -> V] : Sol(f, N)}
<1>1. 0 \in S
  <2>1. Sol(base, 0)
    <3>1. 0 \notin D
      OBVIOUS
    <3> QED BY <3>1 DEF Follows
  <2> QED BY <2>1
<1>2. ASSUME NEW N \in Nat, N \in S PROVE N + 1 \in S
  <2>1. PICK f \in [Nat -> V] : Sol(f, N)
    BY <1>2
  <2> DEFINE v == IF N + 1 \in D THEN G[<<N + 1, f[p[N + 1]]>>] ELSE base[N + 1]
             g == [f EXCEPT ![N + 1] = v]
  <2>2. v \in V
    OBVIOUS
  <2>3. g \in [Nat -> V] /\ g[N + 1] = v /\ \A n \in 0..N : g[n] = f[n]
    BY <2>2
  <2>4. ASSUME NEW n \in 0..(N + 1)
        PROVE  g[n] = IF n \in D THEN G[<<n, g[p[n]]>>] ELSE base[n]
    <3>1. CASE n = N + 1
      <4>1. n \in D => p[n] \in 0..N
        BY <3>1
      <4> QED BY <2>3, <3>1, <4>1
    <3>2. CASE n # N + 1
      <4>1. n \in 0..N /\ (n \in D => p[n] \in 0..N)
        BY <3>2
      <4>2. f[n] = IF n \in D THEN G[<<n, f[p[n]]>>] ELSE base[n]
        BY <2>1, <4>1 DEF Follows
      <4> QED BY <2>3, <4>1, <4>2
    <3> QED BY <3>1, <3>2
  <2>5. Sol(g, N + 1)
    BY <2>4 DEF Follows
  <2>6. N + 1 \in Nat
    OBVIOUS
  <2> HIDE DEF g, v, Sol
  <2> QED BY <2>3, <2>5, <2>6
<1>3. \A N \in Nat : \E f \in [Nat -> V] : Sol(f, N)
  <2>1. \A N \in Nat : N \in S
    <3> HIDE DEF S
    <3> QED BY <1>1, <1>2, InductionOverNat
  <2> QED BY <2>1
<1> DEFINE s(N) == CHOOSE f \in [Nat -> V] : Sol(f, N)
           F    == [N \in Nat |-> s(N)[N]]
<1>4. \A N \in Nat : s(N) \in [Nat -> V] /\ Sol(s(N), N)
  BY <1>3
<1> HIDE DEF s
<1>5. ASSUME NEW N \in Nat, NEW n \in 0..N PROVE F[n] = s(N)[n]
  <2>1. Sol(s(N), n)
    BY <1>4 DEF Follows
  <2>2. n \in Nat /\ Sol(s(n), n)
    BY <1>4
  <2>3. \A i \in 0..n : s(N)[i] = s(n)[i]
    <3> DEFINE f == s(N)
               g == s(n)
    <3>1. Follows(f, n, D, p, base, G) /\ Follows(g, n, D, p, base, G)
      BY <2>1, <2>2
    <3> HIDE DEF f, g
    <3>2. \A i \in 0..n : f[i] = g[i]
      BY <2>2, <3>1, RecursionUnique
    <3> QED BY <3>2 DEF f, g
  <2> QED BY <2>2, <2>3
<1>6. ASSUME NEW N \in Nat PROVE Sol(F, N)
  <2> SUFFICES ASSUME NEW n \in 0..N
               PROVE  F[n] = IF n \in D THEN G[<<n, F[p[n]]>>] ELSE base[n]
    BY DEF Follows
  <2>1. s(N)[n] = IF n \in D THEN G[<<n, s(N)[p[n]]>>] ELSE base[n]
    BY <1>4 DEF Follows
  <2>2. F[n] = s(N)[n] /\ (n \in D => F[p[n]] = s(N)[p[n]])
    BY <1>5
  <2> QED BY <2>1, <2>2
<1>7. F \in [Nat -> V]
  BY <1>4
<1> QED BY <1>6, <1>7

\* The recursion from each number to the one before it.
Positive == Nat \ {0}
Before   == [n \in Nat |-> IF n = 0 THEN 0 ELSE n - 1]

LEMMA BeforeFacts == Before \in [Nat -> Nat] /\ \A n \in Positive : Before[n] = n - 1 /\ Before[n] < n
BY DEF Before, Positive

-----------------------------------------------------------------------------
(* Powers of ten *)

LEMMA Power10Def ==
    /\ Power10 \in [Nat -> Nat \ {0}]
    /\ Power10[0] = 1
    /\ \A n \in Nat : Power10[n + 1] = 10 * Power10[n]
<1> DEFINE V    == Nat \ {0}
           base == [n \in Nat |-> 1]
           G    == [x \in Nat \X V |-> 10 * x[2]]
<1>1. base \in [Nat -> V] /\ G \in [Nat \X V -> V]
  OBVIOUS
<1>2. \E f \in [Nat -> V] : \A N \in Nat : Follows(f, N, Positive, Before, base, G)
  <2> HIDE DEF V, base, G
  <2> QED BY <1>1, BeforeFacts, RecursionExists
<1>3. PICK f \in [Nat -> V] : \A N \in Nat : Follows(f, N, Positive, Before, base, G)
  BY <1>2
<1>4. \A n \in Nat : f[n] = IF n = 0 THEN 1 ELSE 10 * f[n - 1]
  <2> SUFFICES ASSUME NEW n \in Nat PROVE f[n] = IF n = 0 THEN 1 ELSE 10 * f[n - 1]
    OBVIOUS
  <2>1. f[n] = IF n \in Positive THEN G[<<n, f[Before[n]]>>] ELSE base[n]
    <3> HIDE DEF V, base, G
    <3>1. Follows(f, n, Positive, Before, base, G)
      BY <1>3
    <3>2. n \in 0..n
      OBVIOUS
    <3> QED BY <3>1, <3>2 DEF Follows
  <2>2. n # 0 => n \in Positive /\ Before[n] = n - 1 /\ n - 1 \in Nat /\ f[n - 1] \in V
    BY BeforeFacts DEF Positive
  <2>3. CASE n = 0
    <3>1. n \notin Positive /\ base[n] = 1
      BY <2>3 DEF Positive
    <3> QED BY <2>1, <2>3, <3>1
  <2>4. CASE n # 0
    <3>1. f[n] = G[<<n, f[n - 1]>>]
      BY <2>1, <2>2, <2>4
    <3>2. <<n, f[n - 1]>> \in Nat \X V
      BY <2>2, <2>4
    <3>3. G[<<n, f[n - 1]>>] = 10 * f[n - 1]
      BY <3>2
    <3> QED BY <2>4, <3>1, <3>3
  <2> QED BY <2>3, <2>4
<1>5. f = [n \in Nat |-> IF n = 0 THEN 1 ELSE 10 * f[n - 1]]
  BY <1>4
<1>6. Power10 = [n \in Nat |-> IF n = 0 THEN 1 ELSE 10 * Power10[n - 1]]
  BY <1>5, Zenon DEF Power10
<1>7. \A n \in Nat : Power10[n] = IF n = 0 THEN 1 ELSE 10 * Power10[n - 1]
  BY <1>6, Zenon
<1>8. Power10[0] = 1
  BY <1>7
<1>9. \A n \in Nat : Power10[n + 1] = 10 * Power10[n]
  <2> TAKE n \in Nat
  <2>1. n + 1 \in Nat /\ n + 1 # 0 /\ (n + 1) - 1 = n
    OBVIOUS
  <2> QED BY <1>7, <2>1
<1>10. \A n \in Nat : Power10[n] \in V
  <2> DEFINE S == {n \in Nat : Power10[n] \in V}
  <2>1. 0 \in S
    BY <1>8
  <2>2. \A n \in Nat : n \in S => n + 1 \in S
    BY <1>9
  <2>3. \A n \in Nat : n \in S
    <3> HIDE DEF S
    <3> QED BY <2>1, <2>2, InductionOverNat
  <2> QED BY <2>3
<1>11. DOMAIN Power10 = Nat
  BY <1>6, Zenon
<1>12. Power10 = [n \in Nat |-> Power10[n]]
  BY <1>6
<1>13. Power10 \in [Nat -> V]
  BY <1>10, <1>12
<1> QED BY <1>8, <1>9, <1>13

LEMMA PowerFacts ==
    /\ Power10[0] = 1 /\ Power10[1] = 10 /\ Power10[2] = 100
    /\ \A n \in Nat : Power10[n] \in Nat /\ Power10[n] > 0
    /\ \A n \in Nat : Power10[n + 2] = 100 * Power10[n]
<1>1. Power10[0] = 1 /\ Power10[0 + 1] = 10 * Power10[0] /\ Power10[1 + 1] = 10 * Power10[1]
  BY Power10Def
<1>2. \A n \in Nat : Power10[n] \in Nat /\ Power10[n] > 0
  BY Power10Def
<1>3. ASSUME NEW n \in Nat PROVE Power10[n + 2] = 100 * Power10[n]
  <2>1. n + 1 \in Nat /\ (n + 1) + 1 = n + 2
    OBVIOUS
  <2>2. Power10[n + 1] = 10 * Power10[n] /\ Power10[(n + 1) + 1] = 10 * Power10[n + 1]
    BY <2>1, Power10Def
  <2> QED BY <1>2, <2>1, <2>2
<1> QED BY <1>1, <1>2, <1>3

-----------------------------------------------------------------------------
(* Numerals *)

LEMMA DigitFacts ==
    /\ Digit = {"0", "1", "2", "3", "4", "5", "6", "7", "8", "9"}
    /\ DigitValue \in [Digit -> 0..9]
    /\ \A n \in 0..9 : Numerals[n + 1] \in Digit /\ DigitValue[Numerals[n + 1]] = n
    /\ "." \notin Digit /\ "-" \notin Digit /\ "+" \notin Digit
<1>1. /\ Numerals[1] = "0" /\ Numerals[2] = "1" /\ Numerals[3] = "2" /\ Numerals[4] = "3"
      /\ Numerals[5] = "4" /\ Numerals[6] = "5" /\ Numerals[7] = "6" /\ Numerals[8] = "7"
      /\ Numerals[9] = "8" /\ Numerals[10] = "9" /\ DOMAIN Numerals = 1..10
  BY DEF Numerals
<1>2. \A i \in 1..10 : i \in {1, 2, 3, 4, 5, 6, 7, 8, 9, 10}
  OBVIOUS
<1>3. \A i, j \in 1..10 : Numerals[i] = Numerals[j] => i = j
  BY <1>1, <1>2
<1>4. Digit = {"0", "1", "2", "3", "4", "5", "6", "7", "8", "9"}
  BY <1>1, <1>2 DEF Digit, ToSet
<1>5. ASSUME NEW i \in 1..10 PROVE Numerals[i] \in Digit /\ DigitValue[Numerals[i]] = i - 1
  <2>1. Numerals[i] \in Digit
    BY <1>1 DEF Digit, ToSet
  <2>2. (CHOOSE j \in 1..10 : Numerals[j] = Numerals[i]) = i
    BY <1>3
  <2> QED BY <2>1, <2>2 DEF DigitValue
<1>6. \A c \in Digit : \E i \in 1..10 : c = Numerals[i]
  BY <1>1 DEF Digit, ToSet
<1>7. \A c \in Digit : DigitValue[c] \in 0..9
  BY <1>5, <1>6
<1>8. DigitValue \in [Digit -> 0..9]
  BY <1>7 DEF DigitValue
<1>9. \A n \in 0..9 : n + 1 \in 1..10 /\ (n + 1) - 1 = n
  OBVIOUS
<1> QED BY <1>4, <1>5, <1>8, <1>9

LEMMA ZeroDigit == "0" \in Digit /\ DigitValue["0"] = 0
<1>1. Numerals[1] = "0" /\ 0 + 1 = 1 /\ 0 \in 0..9
  BY DEF Numerals
<1> QED BY <1>1, DigitFacts

-----------------------------------------------------------------------------
(* The number a sequence of digits stands for *)

\* f[n] is the number of the first n digits.
IsValue(f, s) ==
    \A n \in 0..Len(s) : f[n] = IF n = 0 THEN 0 ELSE 10 * f[n - 1] + DigitValue[s[n]]

LEMMA ValueExists ==
    ASSUME NEW s \in Seq(Digit)
    PROVE  \E f \in [Nat -> Nat] : IsValue(f, s)
<1> DEFINE d    == [n \in Nat |-> IF n \in 1..Len(s) THEN DigitValue[s[n]] ELSE 0]
           base == [n \in Nat |-> 0]
           G    == [x \in Nat \X Nat |-> 10 * x[2] + d[x[1]]]
<1>0. d \in [Nat -> Nat] /\ \A n \in 1..Len(s) : d[n] = DigitValue[s[n]]
  <2>1. \A n \in 1..Len(s) : n \in Nat /\ s[n] \in Digit
    OBVIOUS
  <2>2. \A n \in 1..Len(s) : DigitValue[s[n]] \in Nat
    BY <2>1, DigitFacts
  <2> QED BY <2>1, <2>2
<1> HIDE DEF d
<1>1. base \in [Nat -> Nat] /\ G \in [Nat \X Nat -> Nat]
  <2>1. \A x \in Nat \X Nat : x[1] \in Nat /\ x[2] \in Nat
    OBVIOUS
  <2>2. ASSUME NEW x \in Nat \X Nat PROVE 10 * x[2] + d[x[1]] \in Nat
    <3>1. d[x[1]] \in Nat
      BY <1>0, <2>1
    <3> HIDE DEF G, base
    <3> QED BY <2>1, <3>1
  <2> QED BY <2>2
<1>2. \E f \in [Nat -> Nat] : \A N \in Nat : Follows(f, N, Positive, Before, base, G)
  <2> HIDE DEF base, G
  <2> QED BY <1>1, BeforeFacts, RecursionExists
<1>3. PICK f \in [Nat -> Nat] : \A N \in Nat : Follows(f, N, Positive, Before, base, G)
  BY <1>2
<1>4. ASSUME NEW n \in 0..Len(s)
      PROVE  f[n] = IF n = 0 THEN 0 ELSE 10 * f[n - 1] + DigitValue[s[n]]
  <2>1. f[n] = IF n \in Positive THEN G[<<n, f[Before[n]]>>] ELSE base[n]
    <3> HIDE DEF G, base
    <3>1. n \in Nat /\ n \in 0..n
      OBVIOUS
    <3> QED BY <1>3, <3>1 DEF Follows
  <2>2. n # 0 => n \in Positive /\ Before[n] = n - 1 /\ n \in 1..Len(s) /\ f[n - 1] \in Nat
    BY BeforeFacts DEF Positive
  <2>3. n = 0 => n \notin Positive
    BY DEF Positive
  <2>4. n # 0 => G[<<n, f[n - 1]>>] = 10 * f[n - 1] + d[n]
    BY <2>2 DEF Positive
  <2>5. n = 0 => base[n] = 0
    OBVIOUS
  <2> HIDE DEF G, base
  <2> QED BY <2>4, <2>5, <1>0, <2>1, <2>2, <2>3
<1> QED BY <1>4 DEF IsValue

LEMMA UnsignedValue ==
    ASSUME NEW s \in Seq(Digit), NEW f, IsValue(f, s)
    PROVE  Unsigned(s) = f[Len(s)]
<1> DEFINE eq(g) == g = [n \in 0..Len(s) |-> IF n = 0 THEN 0 ELSE 10 * g[n - 1] + DigitValue[s[n]]]
           h     == [n \in 0..Len(s) |-> f[n]]
           value == CHOOSE g : eq(g)
<1>1. eq(h)
  BY DEF IsValue
<1>2. eq(value)
  BY <1>1, Zenon
<1>3. Unsigned(s) = value[Len(s)]
  BY Zenon DEF Unsigned
<1>4. \A n \in 0..Len(s) : value[n] = IF n = 0 THEN 0 ELSE 10 * value[n - 1] + DigitValue[s[n]]
  BY <1>2, Zenon
<1> HIDE DEF value
<1> DEFINE S == {n \in Nat : n <= Len(s) => value[n] = f[n]}
<1>5. 0 \in S
  BY <1>4 DEF IsValue
<1>6. ASSUME NEW n \in Nat, n \in S PROVE n + 1 \in S
  <2> SUFFICES ASSUME n + 1 <= Len(s) PROVE value[n + 1] = f[n + 1]
    OBVIOUS
  <2>1. value[n] = f[n] /\ n + 1 \in 0..Len(s) /\ n + 1 # 0 /\ (n + 1) - 1 = n
    BY <1>6
  <2> QED BY <1>4, <2>1 DEF IsValue
<1>7. \A n \in Nat : n \in S
  <2> HIDE DEF S
  <2> QED BY <1>5, <1>6, InductionOverNat
<1> QED BY <1>3, <1>7

LEMMA UnsignedEmpty == Unsigned(<<>>) = 0
<1> DEFINE e == <<>>
<1>0. e \in Seq(Digit) /\ Len(e) = 0
  OBVIOUS
<1> HIDE DEF e
<1>1. PICK f \in [Nat -> Nat] : IsValue(f, e)
  BY <1>0, ValueExists
<1>2. Unsigned(e) = f[0]
  BY <1>0, <1>1, UnsignedValue
<1>3. f[0] = 0
  BY <1>0, <1>1 DEF IsValue
<1> QED BY <1>2, <1>3 DEF e

LEMMA UnsignedAppend ==
    ASSUME NEW s \in Seq(Digit), NEW c \in Digit
    PROVE  /\ Unsigned(s) \in Nat
           /\ Unsigned(Append(s, c)) = 10 * Unsigned(s) + DigitValue[c]
<1> DEFINE t == Append(s, c)
<1>1. t \in Seq(Digit) /\ Len(t) = Len(s) + 1 /\ t[Len(t)] = c /\ \A n \in 1..Len(s) : t[n] = s[n]
  OBVIOUS
<1> HIDE DEF t
<1>2. PICK f \in [Nat -> Nat] : IsValue(f, t)
  BY <1>1, ValueExists
<1>3. IsValue(f, s)
  <2> SUFFICES ASSUME NEW n \in 0..Len(s)
               PROVE  f[n] = IF n = 0 THEN 0 ELSE 10 * f[n - 1] + DigitValue[s[n]]
    BY DEF IsValue
  <2>1. n \in 0..Len(t) /\ (n # 0 => t[n] = s[n])
    <3>1. Len(s) \in Nat /\ n \in Nat /\ n <= Len(s)
      OBVIOUS
    <3>2. n \in 0..Len(t)
      BY <1>1, <3>1
    <3>3. n # 0 => n \in 1..Len(s)
      BY <3>1
    <3> QED BY <1>1, <3>2, <3>3
  <2> QED BY <1>2, <2>1 DEF IsValue
<1>4. Unsigned(s) = f[Len(s)] /\ Unsigned(t) = f[Len(s) + 1]
  BY <1>1, <1>2, <1>3, UnsignedValue
<1>5. f[Len(s) + 1] = 10 * f[Len(s)] + DigitValue[c]
  <2>1. Len(s) \in Nat /\ Len(t) \in 0..Len(t) /\ Len(t) # 0 /\ Len(t) - 1 = Len(s)
    <3>1. Len(s) \in Nat
      OBVIOUS
    <3>2. \A k \in Nat : k + 1 \in 0..(k + 1) /\ k + 1 # 0 /\ (k + 1) - 1 = k
      OBVIOUS
    <3>3. Len(t) = Len(s) + 1
      BY <1>1
    <3> QED BY <3>1, <3>2, <3>3
  <2> QED BY <1>1, <1>2, <2>1 DEF IsValue
<1> QED BY <1>4, <1>5 DEF t

LEMMA UnsignedNat == ASSUME NEW s \in Seq(Digit) PROVE Unsigned(s) \in Nat
BY UnsignedAppend, DigitFacts

\* A sequence is its last element after the others.
FirstOf(t, n) == [i \in 1..n |-> t[i]]

LEMMA LastOfLonger ==
    ASSUME NEW V, NEW n \in Nat, NEW t \in Seq(V), Len(t) = n + 1
    PROVE  /\ FirstOf(t, n) \in Seq(V) /\ Len(FirstOf(t, n)) = n /\ t[n + 1] \in V
           /\ t = Append(FirstOf(t, n), t[n + 1])
BY DEF FirstOf

LEMMA HornerStep ==
    ASSUME NEW a \in Nat, NEW b \in Nat, NEW d \in 0..9, NEW p \in Nat, b < p
    PROVE  10 * (a + b) + d = 10 * a + (10 * b + d) /\ 10 * b + d < 10 * p
OBVIOUS

\* Digits before others count as often as these have values.
LEMMA UnsignedConcat ==
    ASSUME NEW s \in Seq(Digit), NEW t \in Seq(Digit)
    PROVE  /\ Unsigned(s \o t) = Unsigned(s) * Power10[Len(t)] + Unsigned(t)
           /\ Unsigned(t) < Power10[Len(t)]
<1> DEFINE S == {n \in Nat : \A x \in Seq(Digit) : Len(x) = n =>
                    /\ Unsigned(s \o x) = Unsigned(s) * Power10[n] + Unsigned(x)
                    /\ Unsigned(x) < Power10[n]}
<1>1. 0 \in S
  <2> SUFFICES ASSUME NEW x \in Seq(Digit), Len(x) = 0
               PROVE  /\ Unsigned(s \o x) = Unsigned(s) * Power10[0] + Unsigned(x)
                      /\ Unsigned(x) < Power10[0]
    OBVIOUS
  <2>1. x = <<>> /\ s \o x = s
    OBVIOUS
  <2>2. Unsigned(s) \in Nat /\ Power10[0] = 1 /\ Unsigned(x) = 0
    BY <2>1, UnsignedEmpty, UnsignedNat, Power10Def
  <2> QED BY <2>1, <2>2
<1>2. ASSUME NEW n \in Nat, n \in S PROVE n + 1 \in S
  <2> SUFFICES ASSUME NEW x \in Seq(Digit), Len(x) = n + 1
               PROVE  /\ Unsigned(s \o x) = Unsigned(s) * Power10[n + 1] + Unsigned(x)
                      /\ Unsigned(x) < Power10[n + 1]
    OBVIOUS
  <2> DEFINE u == FirstOf(x, n)
             c == x[n + 1]
  <2>1. u \in Seq(Digit) /\ c \in Digit /\ Len(u) = n /\ x = Append(u, c)
    BY LastOfLonger
  <2> HIDE DEF u, c
  <2>2. s \o x = Append(s \o u, c) /\ s \o u \in Seq(Digit)
    BY <2>1
  <2>3. Unsigned(s \o u) = Unsigned(s) * Power10[n] + Unsigned(u) /\ Unsigned(u) < Power10[n]
    BY <1>2, <2>1
  <2>4. Unsigned(s \o u) \in Nat /\ Unsigned(x) = 10 * Unsigned(u) + DigitValue[c]
        /\ Unsigned(s \o x) = 10 * Unsigned(s \o u) + DigitValue[c]
    BY <2>1, <2>2, UnsignedAppend
  <2>5. Unsigned(s) \in Nat /\ Unsigned(u) \in Nat /\ DigitValue[c] \in 0..9
        /\ Power10[n] \in Nat /\ Power10[n + 1] = 10 * Power10[n]
    BY <2>1, UnsignedNat, DigitFacts, Power10Def
  <2>6. Unsigned(s) * (10 * Power10[n]) = 10 * (Unsigned(s) * Power10[n])
        /\ Unsigned(s) * Power10[n] \in Nat
    BY <2>5
  <2> DEFINE a == Unsigned(s) * Power10[n]
             b == Unsigned(u)
  <2>7. /\ Unsigned(s \o x) = 10 * (a + b) + DigitValue[c] /\ Unsigned(x) = 10 * b + DigitValue[c]
        /\ Unsigned(s) * Power10[n + 1] = 10 * a /\ a \in Nat /\ b \in Nat /\ b < Power10[n]
    BY <2>3, <2>4, <2>5, <2>6
  <2> HIDE DEF a, b, S
  <2>8. 10 * (a + b) + DigitValue[c] = 10 * a + (10 * b + DigitValue[c])
        /\ 10 * b + DigitValue[c] < 10 * Power10[n]
    <3>1. a \in Nat /\ b \in Nat /\ b < Power10[n] /\ DigitValue[c] \in 0..9 /\ Power10[n] \in Nat
      BY <2>5, <2>7
    <3> QED BY <3>1, HornerStep
  <2> QED BY <2>5, <2>7, <2>8
<1>3. \A n \in Nat : n \in S
  <2> HIDE DEF S
  <2> QED BY <1>1, <1>2, InductionOverNat
<1> QED BY <1>3

-----------------------------------------------------------------------------
(* The text of a number *)

LEMMA ItoaDef ==
    \A n \in Nat : Itoa[n] = IF n < 10 THEN <<Numerals[n + 1]>>
                             ELSE Append(Itoa[n \div 10], Numerals[(n % 10) + 1])
<1> DEFINE V    == Seq(Digit)
           D    == {n \in Nat : n >= 10}
           p    == [n \in Nat |-> n \div 10]
           num  == [n \in Nat |-> Numerals[(n % 10) + 1]]
           base == [n \in Nat |-> <<num[n]>>]
           G    == [x \in Nat \X V |-> Append(x[2], num[x[1]])]
<1>1. p \in [Nat -> Nat] /\ \A n \in D : p[n] < n
  OBVIOUS
<1>2. num \in [Nat -> Digit]
  <2>1. \A n \in Nat : n % 10 \in 0..9
    OBVIOUS
  <2> QED BY <2>1, DigitFacts
<1>3. base \in [Nat -> V] /\ G \in [Nat \X V -> V]
  <2> HIDE DEF num
  <2>1. \A n \in Nat : <<num[n]>> \in V
    BY <1>2
  <2>2. ASSUME NEW x \in Nat \X V PROVE Append(x[2], num[x[1]]) \in V
    <3>1. x[1] \in Nat /\ x[2] \in Seq(Digit)
      OBVIOUS
    <3>2. num[x[1]] \in Digit
      BY <1>2, <3>1
    <3> QED BY <3>1, <3>2
  <2> QED BY <2>1, <2>2
<1>4. \E f \in [Nat -> V] : \A N \in Nat : Follows(f, N, D, p, base, G)
  <2> HIDE DEF V, D, p, base, G
  <2> QED BY <1>1, <1>3, RecursionExists
<1>5. PICK f \in [Nat -> V] : \A N \in Nat : Follows(f, N, D, p, base, G)
  BY <1>4
<1>6. ASSUME NEW n \in Nat
      PROVE  f[n] = IF n < 10 THEN <<Numerals[n + 1]>>
                    ELSE Append(f[n \div 10], Numerals[(n % 10) + 1])
  <2>1. f[n] = IF n \in D THEN G[<<n, f[p[n]]>>] ELSE base[n]
    <3> HIDE DEF D, p, base, G
    <3>1. n \in 0..n
      OBVIOUS
    <3> QED BY <1>5, <3>1 DEF Follows
  <2>2. p[n] = n \div 10 /\ p[n] \in Nat /\ num[n] = Numerals[(n % 10) + 1]
    OBVIOUS
  <2>3. f[p[n]] \in V
    BY <2>2
  <2>4. G[<<n, f[p[n]]>>] = Append(f[p[n]], num[n]) /\ base[n] = <<num[n]>>
    <3> HIDE DEF num, p, V
    <3> QED BY <2>3
  <2>5. n < 10 => n \notin D /\ n % 10 = n
    OBVIOUS
  <2>6. ~(n < 10) => n \in D
    OBVIOUS
  <2> HIDE DEF D, p, base, G, num
  <2> QED BY <2>1, <2>2, <2>4, <2>5, <2>6
<1>7. f = [n \in Nat |-> IF n < 10 THEN <<Numerals[n + 1]>>
                         ELSE Append(f[n \div 10], Numerals[(n % 10) + 1])]
  <2> HIDE DEF V, D, p, base, G, num
  <2> QED BY <1>6
<1>8. Itoa = [n \in Nat |-> IF n < 10 THEN <<Numerals[n + 1]>>
                            ELSE Append(Itoa[n \div 10], Numerals[(n % 10) + 1])]
  BY <1>7, Zenon DEF Itoa
<1> QED BY <1>8, Zenon

\* The text of a number reads as that number.
LEMMA ItoaReads ==
    \A n \in Nat : Itoa[n] \in Seq(Digit) /\ Itoa[n] # <<>> /\ Unsigned(Itoa[n]) = n
<1> DEFINE S == {n \in Nat : Itoa[n] \in Seq(Digit) /\ Itoa[n] # <<>> /\ Unsigned(Itoa[n]) = n}
<1>1. ASSUME NEW n \in Nat, 0..(n - 1) \subseteq S PROVE n \in S
  <2>1. CASE n < 10
    <3> HIDE DEF S
    <3>0. Itoa[n] = IF n < 10 THEN <<Numerals[n + 1]>>
                    ELSE Append(Itoa[n \div 10], Numerals[(n % 10) + 1])
      BY ItoaDef, Zenon
    <3>1. n \in 0..9 /\ Itoa[n] = <<Numerals[n + 1]>>
      <4>1. n \in 0..9
        BY <2>1
      <4>2. Itoa[n] = <<Numerals[n + 1]>>
        BY <2>1, <3>0, Zenon
      <4> QED BY <4>1, <4>2
    <3>2. Numerals[n + 1] \in Digit /\ DigitValue[Numerals[n + 1]] = n
      BY <3>1, DigitFacts
    <3> DEFINE e == <<>>
    <3>3. e \in Seq(Digit) /\ Itoa[n] = Append(e, Numerals[n + 1])
      BY <3>1, <3>2
    <3>4. Unsigned(Append(e, Numerals[n + 1])) = 10 * Unsigned(e) + DigitValue[Numerals[n + 1]]
      <4> HIDE DEF e
      <4> QED BY <3>2, <3>3, UnsignedAppend
    <3>5. Unsigned(e) = 0
      BY UnsignedEmpty
    <3>6. Unsigned(Itoa[n]) = n
      <4> HIDE DEF e
      <4>1. 10 * 0 + n = n
        OBVIOUS
      <4> QED BY <3>2, <3>3, <3>4, <3>5, <4>1, Zenon
    <3>7. Itoa[n] \in Seq(Digit) /\ Itoa[n] # <<>>
      <4> DEFINE c == Numerals[n + 1]
      <4>1. c \in Digit /\ Itoa[n] = <<c>>
        BY <3>1, <3>2
      <4> HIDE DEF c
      <4> QED BY <4>1
    <3> QED BY <3>6, <3>7 DEF S
  <2>2. CASE ~(n < 10)
    <3> DEFINE m == n \div 10
               c == Numerals[(n % 10) + 1]
    <3>1. m \in 0..(n - 1) /\ m \in Nat /\ n % 10 \in 0..9 /\ n = 10 * m + (n % 10)
      BY <2>2
    <3>2. c \in Digit /\ DigitValue[c] = n % 10
      BY <3>1, DigitFacts
    <3>3. Itoa[n] = Append(Itoa[m], c)
      BY <2>2, ItoaDef
    <3>4. Itoa[m] \in Seq(Digit) /\ Unsigned(Itoa[m]) = m
      BY <1>1, <3>1
    <3> HIDE DEF m, c
    <3>5. Unsigned(Append(Itoa[m], c)) = 10 * m + DigitValue[c]
      BY <3>2, <3>4, UnsignedAppend
    <3>6. Append(Itoa[m], c) \in Seq(Digit) /\ Append(Itoa[m], c) # <<>>
      BY <3>2, <3>4
    <3> QED BY <3>1, <3>2, <3>3, <3>5, <3>6
  <2> QED BY <2>1, <2>2
<1>2. \A n \in Nat : n \in S
  <2> HIDE DEF S
  <2> QED BY <1>1, StrongInduction
<1> QED BY <1>2

-----------------------------------------------------------------------------
(* Characters that are dropped *)

LEMMA KeptValue ==
    ASSUME NEW T, NEW s \in Seq(T), NEW S, NEW f,
           \A n \in 0..Len(s) : f[n] = IF n = 0 THEN <<>>
                                       ELSE IF s[n] \in S THEN Append(f[n - 1], s[n]) ELSE f[n - 1]
    PROVE  Kept(s, S) = f[Len(s)]
<1> DEFINE eq(g) == g = [n \in 0..Len(s) |-> IF n = 0 THEN <<>>
                                             ELSE IF s[n] \in S THEN Append(g[n - 1], s[n])
                                             ELSE g[n - 1]]
           h     == [n \in 0..Len(s) |-> f[n]]
           kept  == CHOOSE g : eq(g)
<1>1. eq(h)
  OBVIOUS
<1>2. eq(kept)
  BY <1>1, Zenon
<1>3. Kept(s, S) = kept[Len(s)]
  BY Zenon DEF Kept
<1>4. \A n \in 0..Len(s) : kept[n] = IF n = 0 THEN <<>>
                                     ELSE IF s[n] \in S THEN Append(kept[n - 1], s[n])
                                     ELSE kept[n - 1]
  BY <1>2, Zenon
<1> HIDE DEF kept
<1> DEFINE I == {n \in Nat : n <= Len(s) => kept[n] = f[n]}
<1>5. 0 \in I
  <2>1. 0 \in 0..Len(s)
    OBVIOUS
  <2> QED BY <1>4, <2>1
<1>6. ASSUME NEW n \in Nat, n \in I PROVE n + 1 \in I
  <2> SUFFICES ASSUME n + 1 <= Len(s) PROVE kept[n + 1] = f[n + 1]
    OBVIOUS
  <2>1. kept[n] = f[n] /\ n + 1 \in 0..Len(s) /\ n + 1 # 0 /\ (n + 1) - 1 = n
    BY <1>6
  <2> QED BY <1>4, <2>1
<1>7. \A n \in Nat : n \in I
  <2> HIDE DEF I
  <2> QED BY <1>5, <1>6, InductionOverNat
<1> QED BY <1>3, <1>7

LEMMA KeptAll ==
    ASSUME NEW T, NEW s \in Seq(T), NEW S, \A n \in 1..Len(s) : s[n] \in S
    PROVE  Kept(s, S) = s
<1> DEFINE f == [n \in 0..Len(s) |-> FirstOf(s, n)]
<1>1. ASSUME NEW n \in 0..Len(s)
      PROVE  f[n] = IF n = 0 THEN <<>>
                    ELSE IF s[n] \in S THEN Append(f[n - 1], s[n]) ELSE f[n - 1]
  <2>1. n = 0 => f[n] = <<>>
    BY DEF FirstOf
  <2>2. ASSUME n # 0 PROVE n - 1 \in 0..Len(s) /\ n \in 1..Len(s)
    BY <2>2
  <2>3. ASSUME n # 0 PROVE FirstOf(s, n) = Append(FirstOf(s, n - 1), s[n])
    BY <2>2, <2>3 DEF FirstOf
  <2> QED BY <2>1, <2>2, <2>3
<1>2. Kept(s, S) = f[Len(s)]
  <2> HIDE DEF f
  <2> QED BY <1>1, KeptValue
<1>3. FirstOf(s, Len(s)) = s
  BY DEF FirstOf
<1> QED BY <1>2, <1>3

\* A first character that is dropped.
LEMMA KeptTail ==
    ASSUME NEW T, NEW s \in Seq(T), NEW S, s # <<>>, s[1] \notin S,
           \A n \in 2..Len(s) : s[n] \in S
    PROVE  Kept(s, S) = Tail(s)
<1> DEFINE f == [n \in 0..Len(s) |-> IF n = 0 THEN <<>> ELSE FirstOf(Tail(s), n - 1)]
<1>0. Tail(s) \in Seq(T) /\ Len(Tail(s)) = Len(s) - 1 /\ \A n \in 2..Len(s) : Tail(s)[n - 1] = s[n]
  OBVIOUS
<1>1. ASSUME NEW n \in 0..Len(s)
      PROVE  f[n] = IF n = 0 THEN <<>>
                    ELSE IF s[n] \in S THEN Append(f[n - 1], s[n]) ELSE f[n - 1]
  <2>1. CASE n = 0
    BY <2>1
  <2>2. CASE n = 1
    <3>1. f[1] = FirstOf(Tail(s), 0) /\ f[0] = <<>>
      BY <2>2
    <3>2. FirstOf(Tail(s), 0) = <<>>
      BY DEF FirstOf
    <3> QED BY <2>2, <3>1, <3>2
  <2>3. CASE n > 1
    <3>1. n \in 2..Len(s) /\ n - 1 \in 1..Len(s) /\ s[n] \in S
      BY <2>3
    <3>2. f[n] = FirstOf(Tail(s), n - 1) /\ f[n - 1] = FirstOf(Tail(s), (n - 1) - 1)
      BY <3>1
    <3>3. FirstOf(Tail(s), n - 1) = Append(FirstOf(Tail(s), (n - 1) - 1), Tail(s)[n - 1])
      BY <1>0, <3>1 DEF FirstOf
    <3> QED BY <1>0, <3>1, <3>2, <3>3
  <2> QED BY <2>1, <2>2, <2>3
<1>2. Kept(s, S) = f[Len(s)]
  <2> HIDE DEF f
  <2> QED BY <1>1, KeptValue
<1>3. FirstOf(Tail(s), Len(Tail(s))) = Tail(s)
  <2> DEFINE t == Tail(s)
  <2>1. t \in Seq(T)
    BY <1>0
  <2> HIDE DEF t, f
  <2>2. FirstOf(t, Len(t)) = t
    BY <2>1 DEF FirstOf
  <2> QED BY <2>2 DEF t
<1>4. f[Len(s)] = FirstOf(Tail(s), Len(s) - 1)
  OBVIOUS
<1> QED BY <1>0, <1>2, <1>3, <1>4

-----------------------------------------------------------------------------
(* Integer division *)

LEMMA DivFacts ==
    ASSUME NEW a \in Int, NEW b \in Int, b > 0, NEW q, q = a \div b
    PROVE  q \in Int /\ b * q \in Int /\ b * q <= a /\ a < b * q + b
<1>1. b * q <= a
  OBVIOUS
<1>2. a < b * q + b
  OBVIOUS
<1>3. q \in Int
  OBVIOUS
<1>4. b * q \in Int
  BY <1>3
<1> QED BY <1>1, <1>2, <1>3, <1>4, Zenon

LEMMA DivUnique ==
    ASSUME NEW a \in Int, NEW b \in Int, b > 0, NEW q \in Int, b * q <= a, a < b * q + b
    PROVE  a \div b = q
<1> DEFINE r == a - b * q
<1>1. r \in Int /\ 0 <= r /\ r < b /\ a = b * q + r
  OBVIOUS
<1> HIDE DEF r
<1> QED BY <1>1

-----------------------------------------------------------------------------
(* Sequences and their parts *)

LEMMA SubSeqFacts ==
    ASSUME NEW T, NEW f \in Seq(T), NEW i \in Nat, NEW j \in Nat, 1 <= i, i <= j + 1, j <= Len(f)
    PROVE  /\ SubSeq(f, i, j) \in Seq(T) /\ Len(SubSeq(f, i, j)) = (j - i) + 1
           /\ \A k \in 1..((j - i) + 1) : SubSeq(f, i, j)[k] = f[(i + k) - 1]
OBVIOUS

LEMMA ConcatIs ==
    ASSUME NEW T, NEW a \in Seq(T), NEW b \in Seq(T), NEW f \in Seq(T),
           Len(f) = Len(a) + Len(b), \A i \in 1..Len(a) : f[i] = a[i],
           \A i \in 1..Len(b) : f[Len(a) + i] = b[i]
    PROVE  f = a \o b
<1>1. a \o b \in Seq(T) /\ Len(a \o b) = Len(f)
  OBVIOUS
<1>2. ASSUME NEW i \in 1..Len(f) PROVE (a \o b)[i] = f[i]
  <2>1. CASE i <= Len(a)
    BY <2>1
  <2>2. CASE i > Len(a)
    <3>1. i - Len(a) \in 1..Len(b) /\ Len(a) + (i - Len(a)) = i
      BY <2>2
    <3>2. (a \o b)[i] = b[i - Len(a)]
      BY <2>2
    <3>3. f[Len(a) + (i - Len(a))] = b[i - Len(a)]
      BY <3>1, Zenon
    <3> QED BY <3>1, <3>2, <3>3
  <2> QED BY <2>1, <2>2
<1> QED BY <1>1, <1>2

LEMMA ConcatFacts ==
    ASSUME NEW T, NEW a \in Seq(T), NEW b \in Seq(T)
    PROVE  /\ a \o b \in Seq(T) /\ Len(a \o b) = Len(a) + Len(b)
           /\ \A i \in 1..Len(a) : (a \o b)[i] = a[i]
           /\ \A i \in 1..Len(b) : (a \o b)[Len(a) + i] = b[i]
OBVIOUS

LEMMA PairIs ==
    ASSUME NEW T, NEW y \in Seq(T), Len(y) = 2
    PROVE  y = <<y[1], y[2]>>
<1>1. y = [i \in 1..2 |-> y[i]] /\ \A i \in 1..2 : y[i] \in T
  OBVIOUS
<1>2. 1 \in 1..2 /\ 2 \in 1..2
  OBVIOUS
<1> QED BY <1>1, <1>2

-----------------------------------------------------------------------------
(* Texts before and after the point *)

\* the characters of a number
Char == Digit \cup {"-", "+", "."}

LEMMA PointFacts ==
    ASSUME NEW T, NEW s \in Seq(T)
    PROVE  /\ Point(s) \in 0..Len(s)
           /\ Point(s) = 0 => \A i \in 1..Len(s) : s[i] # "."
           /\ Point(s) # 0 => s[Point(s)] = "." /\ \A i \in 1..(Point(s) - 1) : s[i] # "."
<1> DEFINE I    == {i \in 1..Len(s) : s[i] = "."}
           less == OpToRel(<, Nat)
<1>1. Point(s) = IF I # {} THEN Min(I) ELSE 0
  BY Zenon DEF Point, SelectInSeq
<1>2. CASE I # {}
  <2>1. IsWellFoundedOn(less, Nat) /\ I \subseteq Nat
    <3>1. IsWellFoundedOn(less, Nat)
      BY NatLessThanWellFounded
    <3>2. I \subseteq Nat
      <4> HIDE DEF less
      <4> QED OBVIOUS
    <3> QED BY <3>1, <3>2
  <2>2. \E n \in I : \A k \in I : <<k, n>> \notin less
    <3> HIDE DEF I, less
    <3> QED BY <1>2, <2>1, WFMin
  <2>3. \E n \in I : \A k \in I : n <= k
    <3>1. PICK n \in I : \A k \in I : <<k, n>> \notin less
      BY <2>2
    <3>2. ASSUME NEW k \in I PROVE n <= k
      <4>1. n \in Nat /\ k \in Nat /\ <<k, n>> \notin less
        BY <2>1, <3>1
      <4> HIDE DEF I
      <4>2. ~(k < n)
        <5> SUFFICES ASSUME k < n PROVE <<k, n>> \in less
          BY <4>1
        <5> QED BY <4>1 DEF OpToRel
      <4> HIDE DEF less
      <4> QED BY <4>1, <4>2
    <3> QED BY <3>1, <3>2
  <2>4. Min(I) \in I /\ \A k \in I : Min(I) <= k
    <3> HIDE DEF I
    <3> QED BY <2>3 DEF Min
  <2> DEFINE p == Min(I)
  <2>5. p \in I /\ (\A k \in I : p <= k) /\ Point(s) = p
    BY <1>1, <1>2, <2>4
  <2> HIDE DEF p
  <2> QED BY <2>5
<1>3. CASE I = {}
  BY <1>1, <1>3
<1> QED BY <1>2, <1>3

LEMMA Parts ==
    ASSUME NEW T, NEW m \in Seq(T)
    PROVE  /\ BeforePoint(m) \in Seq(T) /\ AfterPoint(m) \in Seq(T)
           /\ Point(m) = 0 => BeforePoint(m) = m /\ AfterPoint(m) = <<>>
           /\ Point(m) # 0 =>
                /\ Len(BeforePoint(m)) = Point(m) - 1
                /\ \A i \in 1..(Point(m) - 1) : BeforePoint(m)[i] = m[i]
                /\ Len(AfterPoint(m)) = Len(m) - Point(m)
                /\ \A i \in 1..(Len(m) - Point(m)) : AfterPoint(m)[i] = m[Point(m) + i]
<1> DEFINE p == Point(m)
<1>1. p \in 0..Len(m) /\ Len(m) \in Nat
  BY PointFacts
<1>2. BeforePoint(m) = (IF p = 0 THEN m ELSE SubSeq(m, 1, p - 1))
      /\ AfterPoint(m) = (IF p = 0 THEN <<>> ELSE SubSeq(m, p + 1, Len(m)))
  BY DEF BeforePoint, AfterPoint
<1> HIDE DEF p
<1>3. CASE p = 0
  BY <1>2, <1>3 DEF p
<1>4. CASE p # 0
  <2>1. SubSeq(m, 1, p - 1) \in Seq(T) /\ Len(SubSeq(m, 1, p - 1)) = p - 1
        /\ \A i \in 1..(p - 1) : SubSeq(m, 1, p - 1)[i] = m[i]
    BY <1>1, <1>4
  <2>2. SubSeq(m, p + 1, Len(m)) \in Seq(T) /\ Len(SubSeq(m, p + 1, Len(m))) = Len(m) - p
        /\ \A i \in 1..(Len(m) - p) : SubSeq(m, p + 1, Len(m))[i] = m[p + i]
    BY <1>1, <1>4
  <2> QED BY <1>2, <1>4, <2>1, <2>2, Zenon DEF p
<1> QED BY <1>3, <1>4

\* A point after digits is where a text is cut.
LEMMA SplitAtPoint ==
    ASSUME NEW w \in Seq(Digit), NEW a \in Digit, NEW b \in Digit
    PROVE  LET m == w \o <<".", a, b>>
           IN m \in Seq(Char) /\ BeforePoint(m) = w /\ AfterPoint(m) = <<a, b>>
<1> DEFINE e == <<".", a, b>>
           m == w \o e
           p == Point(m)
           n == Len(w)
<1>1. /\ e \in Seq(Char) /\ Len(e) = 3 /\ e[1] = "." /\ e[2] = a /\ e[3] = b
      /\ w \in Seq(Char) /\ n \in Nat
  BY DEF Char
<1> HIDE DEF e
<1>2. m \in Seq(Char) /\ Len(m) = n + 3 /\ \A i \in 1..n : m[i] = w[i]
  <2>1. m \in Seq(Char)
    BY <1>1, ConcatFacts
  <2>2. Len(m) = Len(w) + Len(e) /\ \A i \in 1..Len(w) : m[i] = w[i]
    BY <1>1, ConcatFacts
  <2> HIDE DEF m
  <2> QED BY <1>1, <2>1, <2>2
<1>3. m[n + 1] = "." /\ m[n + 2] = a /\ m[n + 3] = b
  <2>1. \A i \in 1..Len(e) : m[n + i] = e[i]
    <3>1. w \in Seq(Char) /\ e \in Seq(Char)
      BY <1>1
    <3> TAKE i \in 1..Len(e)
    <3> QED BY <3>1, ConcatFacts
  <2>2. 1 \in 1..3 /\ 2 \in 1..3 /\ 3 \in 1..3
    OBVIOUS
  <2> HIDE DEF m, n
  <2> QED BY <1>1, <2>1, <2>2
<1> HIDE DEF m
<1>4. \A i \in 1..n : m[i] # "."
  <2>1. \A i \in 1..n : w[i] \in Digit
    OBVIOUS
  <2> QED BY <1>2, <2>1, DigitFacts
<1>5. p \in Nat /\ p <= n + 3 /\ (p = 0 => \A i \in 1..Len(m) : m[i] # ".")
      /\ (p # 0 => m[p] = "." /\ \A i \in 1..(p - 1) : m[i] # ".")
  BY <1>2, PointFacts
<1> HIDE DEF p, n
<1>6. p = n + 1
  <2>1. p # 0
    <3>1. n + 1 \in 1..Len(m)
      BY <1>1, <1>2
    <3> QED BY <1>3, <1>5, <3>1
  <2>2. ~(p < n + 1)
    <3>1. p < n + 1 => p \in 1..n
      BY <1>1, <1>5, <2>1
    <3> QED BY <1>4, <1>5, <2>1, <3>1
  <2>3. ~(p > n + 1)
    <3>1. p > n + 1 => n + 1 \in 1..(p - 1)
      BY <1>1, <1>5
    <3> QED BY <1>3, <1>5, <2>1, <3>1
  <2> QED BY <1>1, <1>5, <2>2, <2>3
<1> DEFINE x == BeforePoint(m)
           y == AfterPoint(m)
<1>7. /\ x \in Seq(Char) /\ y \in Seq(Char)
      /\ Len(x) = p - 1 /\ \A i \in 1..(p - 1) : x[i] = m[i]
      /\ Len(y) = Len(m) - p /\ \A i \in 1..(Len(m) - p) : y[i] = m[p + i]
  <2>1. Point(m) # 0
    BY <1>1, <1>6 DEF p
  <2> QED BY <1>2, <2>1, Parts DEF p
<1> HIDE DEF x, y
<1>8. x = w
  <2>1. Len(x) = Len(w) /\ p - 1 = n /\ n = Len(w)
    BY <1>1, <1>6, <1>7 DEF n
  <2>2. \A i \in 1..Len(w) : x[i] = w[i]
    BY <1>2, <1>7, <2>1
  <2> QED BY <1>1, <1>7, <2>1, <2>2
<1>9. y = <<a, b>>
  <2>1. Len(y) = 2 /\ y[1] = m[p + 1] /\ y[2] = m[p + 2]
    BY <1>1, <1>2, <1>6, <1>7
  <2>2. p + 1 = n + 2 /\ p + 2 = n + 3
    BY <1>1, <1>6
  <2>3. y[1] = a /\ y[2] = b
    BY <1>3, <2>1, <2>2
  <2>4. y = <<y[1], y[2]>>
    BY <1>7, <2>1, PairIs
  <2> QED BY <2>3, <2>4, Zenon
<1> QED BY <1>2, <1>8, <1>9, Zenon DEF x, y, m, e

LEMMA MantissaFacts ==
    ASSUME NEW s \in Seq(Char)
    PROVE  /\ Mantissa(s) \in Seq(Char)
           /\ Mantissa(s) # <<>> => s # <<>> /\ s[Len(s)] = Mantissa(s)[Len(Mantissa(s))]
<1>1. CASE s # <<>> /\ Head(s) \in {"+", "-"}
  <2>1. Mantissa(s) = Tail(s)
    BY <1>1 DEF Mantissa
  <2>2. Tail(s) \in Seq(Char) /\ (Tail(s) # <<>> => s[Len(s)] = Tail(s)[Len(Tail(s))])
    BY <1>1
  <2> QED BY <1>1, <2>1, <2>2
<1>2. CASE ~(s # <<>> /\ Head(s) \in {"+", "-"})
  <2>1. Mantissa(s) = s
    BY <1>2, Zenon DEF Mantissa
  <2> QED BY <2>1
<1> QED BY <1>1, <1>2

LEMMA OnlyDigits ==
    ASSUME NEW T, NEW w \in Seq(T), NEW f \in Seq(T), ToSet(w \o f) \subseteq Digit
    PROVE  w \in Seq(Digit) /\ f \in Seq(Digit)
<1>1. \A i \in 1..(Len(w) + Len(f)) : (w \o f)[i] \in Digit
  BY DEF ToSet
<1>2. \A i \in 1..Len(w) : w[i] \in Digit
  BY <1>1
<1>3. \A i \in 1..Len(f) : f[i] \in Digit
  <2> TAKE i \in 1..Len(f)
  <2>1. (w \o f)[Len(w) + i] = f[i] /\ Len(w) + i \in 1..(Len(w) + Len(f))
    OBVIOUS
  <2> QED BY <1>1, <2>1
<1> QED BY <1>2, <1>3

\* A decimal number is an optional sign, digits, and a point with digits after it
\* or none.
LEMMA DecimalParts ==
    ASSUME NEW s \in Seq(Char), IsDecimal(s), NEW m, m = Mantissa(s)
    PROVE  /\ s # <<>> /\ m \in Seq(Char) /\ m # <<>>
           /\ BeforePoint(m) \in Seq(Digit) /\ AfterPoint(m) \in Seq(Digit)
           /\ \A i \in 1..Len(m) : m[i] \in Digit \cup {"."}
           /\ s[Len(s)] = "." <=> Point(m) # 0 /\ AfterPoint(m) = <<>>
<1> DEFINE w == BeforePoint(m)
           f == AfterPoint(m)
           p == Point(m)
<1>1. m \in Seq(Char)
  BY MantissaFacts
<1>2. /\ w \in Seq(Char) /\ f \in Seq(Char) /\ p \in 0..Len(m) /\ Len(m) \in Nat
      /\ p = 0 => w = m /\ f = <<>>
      /\ p # 0 => /\ Len(w) = p - 1 /\ \A i \in 1..(p - 1) : w[i] = m[i]
      /\ p # 0 => /\ Len(f) = Len(m) - p /\ \A i \in 1..(Len(m) - p) : f[i] = m[p + i]
      /\ p # 0 => m[p] = "."
  BY <1>1, Parts, PointFacts
<1>3. w \o f # <<>> /\ ToSet(w \o f) \subseteq Digit
  BY DEF IsDecimal, Digits
<1> HIDE DEF w, f, p
<1>4. w \in Seq(Digit) /\ f \in Seq(Digit)
  BY <1>2, <1>3, OnlyDigits
<1>5. m # <<>>
  <2> SUFFICES ASSUME m = <<>> PROVE FALSE
    OBVIOUS
  <2>1. p = 0
    BY <1>2
  <2> QED BY <1>2, <1>3, <2>1
<1>6. s # <<>> /\ s[Len(s)] = m[Len(m)]
  BY <1>5, MantissaFacts
<1>7. ASSUME NEW i \in 1..Len(m) PROVE m[i] \in Digit \cup {"."}
  <2>1. CASE p = 0
    BY <1>2, <1>4, <2>1
  <2>2. CASE p # 0 /\ i = p
    BY <1>2, <2>2
  <2>3. CASE p # 0 /\ i < p
    BY <1>2, <1>4, <2>3
  <2>4. CASE p # 0 /\ i > p
    <3>1. i - p \in 1..(Len(m) - p) /\ p + (i - p) = i
      BY <1>2, <2>4
    <3>2. f[i - p] = m[i] /\ f[i - p] \in Digit
      BY <1>2, <1>4, <2>4, <3>1
    <3> QED BY <3>2
  <2> QED BY <1>2, <2>1, <2>2, <2>3, <2>4
<1>8. m[Len(m)] = "." <=> p # 0 /\ f = <<>>
  <2>1. CASE p = 0
    <3>1. m[Len(m)] \in Digit
      BY <1>2, <1>4, <1>5, <2>1
    <3> QED BY <2>1, <3>1, DigitFacts
  <2>2. CASE p # 0 /\ f = <<>>
    BY <1>2, <2>2
  <2>3. CASE p # 0 /\ f # <<>>
    <3>1. Len(f) \in Nat /\ Len(f) # 0 /\ Len(f) \in 1..(Len(m) - p) /\ p + Len(f) = Len(m)
      BY <1>2, <2>3
    <3>2. f[Len(f)] = m[p + Len(f)]
      BY <1>2, <2>3, <3>1, Zenon
    <3>3. f[Len(f)] \in Digit
      BY <1>4, <3>1
    <3> QED BY <2>3, <3>1, <3>2, <3>3, DigitFacts
  <2> QED BY <2>1, <2>2, <2>3
<1> QED BY <1>1, <1>4, <1>5, <1>6, <1>7, <1>8 DEF w, f, p

-----------------------------------------------------------------------------
(* What the parsers read *)

LEMMA WrapLong ==
    ASSUME NEW n \in Int
    PROVE  /\ IsLong(n) => Wrap(n) = n
           /\ n = LongMax + 1 => Wrap(n) = -LongMax - 1
<1> DEFINE b == 2 * (LongMax + 1)
<1>1. LongMax \in Nat /\ b \in Nat \ {0}
  BY MoneyAssumption DEF MoneyAssumption
<1>2. ASSUME IsLong(n) PROVE Wrap(n) = n
  <2>1. n + LongMax + 1 \in 0..(b - 1)
    BY <1>1, <1>2 DEF IsLong
  <2>2. (n + LongMax + 1) % b = n + LongMax + 1
    <3> DEFINE a == n + LongMax + 1
    <3> HIDE DEF a, b
    <3> QED BY <2>1, <1>1
  <2> QED BY <1>1, <2>2 DEF Wrap
<1>3. ASSUME n = LongMax + 1 PROVE Wrap(n) = -LongMax - 1
  <2>1. n + LongMax + 1 = b
    BY <1>1, <1>3
  <2>2. b % b = 0
    <3> HIDE DEF b
    <3> QED BY <1>1
  <2> QED BY <1>1, <2>1, <2>2 DEF Wrap
<1> QED BY <1>2, <1>3

LEMMA ParseIntDigits ==
    ASSUME NEW s \in Seq(Digit), s # <<>>
    PROVE  ParseInt(s) = IF Unsigned(s) <= LongMax THEN Parsed(Unsigned(s)) ELSE NotParsed
<1>1. Head(s) \in Digit /\ Head(s) \notin {"+", "-"}
  BY DigitFacts
<1>2. ToSet(s) \subseteq Digit
  BY DEF ToSet
<1>3. ParseInt(s) = IF s # <<>> /\ ToSet(s) \subseteq Digit /\ IsLong(Unsigned(s))
                    THEN Parsed(Unsigned(s)) ELSE NotParsed
  BY <1>1, Zenon DEF ParseInt
<1>4. IsLong(Unsigned(s)) <=> Unsigned(s) <= LongMax
  BY UnsignedNat, MoneyAssumption DEF IsLong, MoneyAssumption
<1> QED BY <1>2, <1>3, <1>4, Zenon

LEMMA ParseIntEmpty == ParseInt(<<>>) = NotParsed
BY DEF ParseInt

LEMMA UnsignedOne ==
    ASSUME NEW c \in Digit
    PROVE  <<c>> \in Seq(Digit) /\ Unsigned(<<c>>) = DigitValue[c]
<1> DEFINE e == <<>>
<1>1. e \in Seq(Digit) /\ <<c>> = Append(e, c) /\ Unsigned(e) = 0
  BY UnsignedEmpty
<1>2. DigitValue[c] \in 0..9
  BY DigitFacts
<1> HIDE DEF e
<1>3. Unsigned(Append(e, c)) = 10 * Unsigned(e) + DigitValue[c]
  BY <1>1, UnsignedAppend
<1>4. Unsigned(Append(e, c)) = DigitValue[c]
  BY <1>1, <1>2, <1>3
<1>5. <<c>> \in Seq(Digit)
  OBVIOUS
<1> QED BY <1>1, <1>4, <1>5, Zenon

LEMMA WholePart ==
    ASSUME NEW w \in Seq(Digit)
    PROVE  ParseInt(IF w = <<>> THEN <<"0">> ELSE w)
              = IF Unsigned(w) <= LongMax THEN Parsed(Unsigned(w)) ELSE NotParsed
<1>1. CASE w # <<>>
  BY <1>1, ParseIntDigits
<1>2. CASE w = <<>>
  <2>1. "0" \in Digit /\ DigitValue["0"] = 0
    BY ZeroDigit
  <2> DEFINE z == <<"0">>
  <2>2. z \in Seq(Digit) /\ z # <<>> /\ Unsigned(z) = 0
    BY <2>1, UnsignedOne
  <2>3. Unsigned(w) = 0
    BY <1>2, UnsignedEmpty
  <2> HIDE DEF z
  <2>4. ParseInt(z) = IF Unsigned(z) <= LongMax THEN Parsed(Unsigned(z)) ELSE NotParsed
    BY <2>2, ParseIntDigits
  <2>5. ParseInt(z) = IF Unsigned(w) <= LongMax THEN Parsed(Unsigned(w)) ELSE NotParsed
    BY <2>2, <2>3, <2>4, Zenon
  <2> QED BY <1>2, <2>5, Zenon DEF z
<1> QED BY <1>1, <1>2

LEMMA TwoDecimals ==
    ASSUME NEW W \in Nat, NEW A \in Nat, NEW B \in Nat, NEW Q \in Nat, B < Q
    PROVE  ((W * (100 * Q) + (A * Q + B)) * 100) \div (100 * Q) = W * 100 + A
<1> DEFINE a == (W * (100 * Q) + (A * Q + B)) * 100
           b == 100 * Q
           q == W * 100 + A
           x == W * Q
           y == A * Q
<1>1. x \in Nat /\ y \in Nat
  OBVIOUS
<1>2. W * (100 * Q) = 100 * x /\ A * Q = y
  OBVIOUS
<1>3. b * q = 10000 * x + 100 * y
  OBVIOUS
<1>4. a = (100 * x + (y + B)) * 100
  BY <1>2
<1>5. b \in Int /\ b > 0 /\ q \in Int /\ b = 100 * Q
  OBVIOUS
<1> HIDE DEF x, y, a, b, q
<1>6. a \in Int /\ b * q <= a /\ a < b * q + b
  BY <1>1, <1>3, <1>4, <1>5
<1>7. a \div b = q
  BY <1>5, <1>6, DivUnique
<1> QED BY <1>7 DEF a, b, q

LEMMA FirstTwoParts ==
    ASSUME NEW f \in Seq(Digit), Len(f) >= 2
    PROVE  /\ FirstTwo(f) \in Seq(Digit) /\ SubSeq(f, 3, Len(f)) \in Seq(Digit)
           /\ Len(FirstTwo(f)) = 2 /\ Len(SubSeq(f, 3, Len(f))) = Len(f) - 2
           /\ f = FirstTwo(f) \o SubSeq(f, 3, Len(f))
<1> DEFINE n == Len(f)
           a == FirstTwo(f)
           x == SubSeq(f, 1, 2)
           y == SubSeq(f, 3, n)
<1>1. n \in Nat /\ n >= 2 /\ Len(f) = n
  OBVIOUS
<1> HIDE DEF n
<1>2. y \in Seq(Digit) /\ Len(y) = n - 2 /\ \A i \in 1..(n - 2) : y[i] = f[2 + i]
  <2>1. /\ y \in Seq(Digit) /\ Len(y) = (n - 3) + 1
        /\ \A i \in 1..((n - 3) + 1) : y[i] = f[(3 + i) - 1]
    BY <1>1, SubSeqFacts
  <2> HIDE DEF y
  <2>2. (n - 3) + 1 = n - 2 /\ \A i \in 1..(n - 2) : (3 + i) - 1 = 2 + i
    BY <1>1
  <2> QED BY <2>1, <2>2, Zenon
<1>3. x \in Seq(Digit) /\ Len(x) = 2 /\ x[1] = f[1] /\ x[2] = f[2]
  <2>1. /\ x \in Seq(Digit) /\ Len(x) = (2 - 1) + 1
        /\ \A i \in 1..((2 - 1) + 1) : x[i] = f[(1 + i) - 1]
    BY <1>1, SubSeqFacts
  <2> HIDE DEF x
  <2> QED BY <2>1
<1> HIDE DEF x, y
<1>4. a \in Seq(Digit) /\ Len(a) = 2 /\ a[1] = f[1] /\ a[2] = f[2]
  <2>1. CASE n > 2
    BY <1>1, <1>3, <2>1 DEF FirstTwo, x
  <2>2. CASE ~(n > 2)
    <3>1. a = f
      BY <1>1, <2>2 DEF FirstTwo
    <3> QED BY <1>1, <2>2, <3>1
  <2> QED BY <2>1, <2>2
<1> HIDE DEF a
<1>6. f = a \o y
  <2>1. Len(f) = Len(a) + Len(y) /\ \A i \in 1..Len(a) : f[i] = a[i]
    BY <1>1, <1>2, <1>4
  <2>2. \A i \in 1..Len(y) : f[Len(a) + i] = y[i]
    BY <1>2, <1>4
  <2> QED BY <1>2, <1>4, <2>1, <2>2, ConcatIs
<1> QED BY <1>1, <1>2, <1>4, <1>6, Zenon DEF n, a, y

\* What the text before and after the point stands for, in cents.
Cents(w, f) == (Unsigned(w \o f) * 100) \div Power10[Len(f)]

\* The two digits that count are read as the cents beyond the whole part.
LEMMA FractionFacts ==
    ASSUME NEW m, NEW w \in Seq(Digit), AfterPoint(m) \in Seq(Digit),
           Point(m) = 0 => AfterPoint(m) = <<>>, Point(m) # 0 => AfterPoint(m) # <<>>
    PROVE  /\ ParseInt(Fraction(m)).ok /\ ParseInt(Fraction(m)).value \in 0..99
           /\ Cents(w, AfterPoint(m)) = Unsigned(w) * 100 + ParseInt(Fraction(m)).value
<1> DEFINE f == AfterPoint(m)
           F == ParseInt(Fraction(m)).value
<1> SUFFICES ParseInt(Fraction(m)).ok /\ F \in 0..99 /\ Cents(w, f) = Unsigned(w) * 100 + F
  OBVIOUS
<1>0. /\ f \in Seq(Digit) /\ f = AfterPoint(m) /\ F = ParseInt(Fraction(m)).value
      /\ (Point(m) = 0 => f = <<>>) /\ (Point(m) # 0 => f # <<>>)
  OBVIOUS
<1> HIDE DEF f, F
<1> USE <1>0
<1> DEFINE W == Unsigned(w)
<1>1. W \in Nat /\ LongMax \in Nat /\ LongMax >= 99
  BY UnsignedNat, MoneyAssumption DEF MoneyAssumption
<1>2. /\ Unsigned(w \o f) = W * Power10[Len(f)] + Unsigned(f)
      /\ Unsigned(f) < Power10[Len(f)] /\ Unsigned(f) \in Nat
  BY UnsignedConcat, UnsignedNat
<1>3. ASSUME NEW a \in Seq(Digit), a # <<>>, Unsigned(a) <= 99
      PROVE  ParseInt(a).ok /\ ParseInt(a).value = Unsigned(a) /\ Unsigned(a) \in 0..99
  <2>1. Unsigned(a) \in Nat /\ Unsigned(a) <= LongMax
    BY <1>1, <1>3, UnsignedNat
  <2>2. ParseInt(a) = Parsed(Unsigned(a))
    BY <1>3, <2>1, ParseIntDigits
  <2> DEFINE u == Unsigned(a)
  <2>3. ParseInt(a) = Parsed(u) /\ u \in Nat /\ u <= 99
    BY <1>3, <2>1, <2>2
  <2> HIDE DEF u
  <2>4. ParseInt(a).ok /\ ParseInt(a).value = u /\ u \in 0..99
    BY <2>3 DEF Parsed
  <2> QED BY <2>4 DEF u
<1>4. CASE Point(m) = 0
  <2> DEFINE z == <<"0", "0">>
  <2>1. Fraction(m) = z
    BY <1>4 DEF Fraction
  <2>2. z \in Seq(Digit) /\ z # <<>> /\ z = Append(<<"0">>, "0")
    BY ZeroDigit
  <2>3. Unsigned(z) = 0
    <3> DEFINE y == <<"0">>
    <3>1. y \in Seq(Digit) /\ Unsigned(y) = 0
      BY ZeroDigit, UnsignedOne
    <3> HIDE DEF y
    <3>2. Unsigned(Append(y, "0")) = 10 * Unsigned(y) + 0
      BY ZeroDigit, <3>1, UnsignedAppend
    <3>3. Unsigned(Append(y, "0")) = 0
      BY <3>1, <3>2
    <3> QED BY <2>2, <3>3 DEF y
  <2> HIDE DEF z
  <2>4. ParseInt(z).ok /\ F = 0
    <3>1. Unsigned(z) <= 99
      BY <2>3
    <3>2. ParseInt(z).ok /\ ParseInt(z).value = Unsigned(z)
      BY <1>3, <2>2, <3>1
    <3> QED BY <2>1, <2>3, <3>2
  <2>5. Len(f) = 0 /\ Power10[0] = 1 /\ Unsigned(f) = 0
    BY <1>4, PowerFacts, UnsignedEmpty
  <2>6. Unsigned(w \o f) = W
    BY <1>1, <1>2, <2>5
  <2>7. Cents(w, f) = W * 100
    BY <1>1, <2>5, <2>6 DEF Cents
  <2> HIDE DEF W
  <2>8. Cents(w, f) = W * 100 + F /\ F \in 0..99
    BY <1>1, <2>4, <2>7
  <2> QED BY <2>1, <2>4, <2>8 DEF W
<1>5. CASE Point(m) # 0 /\ Len(f) = 1
  <2> DEFINE z == Append(f, "0")
  <2>1. Fraction(m) = z
    <3>1. Fraction(m) = f \o <<"0">>
      BY <1>5 DEF Fraction
    <3> QED BY <3>1
  <2>2. z \in Seq(Digit) /\ z # <<>>
    BY ZeroDigit
  <2>3. Unsigned(z) = 10 * Unsigned(f) + 0
    BY ZeroDigit, UnsignedAppend
  <2>4. Unsigned(f) < 10 /\ Unsigned(w \o f) = W * 10 + Unsigned(f)
    BY <1>2, <1>5, PowerFacts
  <2>5. Cents(w, f) = (Unsigned(w \o f) * 100) \div 10
    BY <1>5, PowerFacts DEF Cents
  <2> DEFINE u == Unsigned(f)
             U == Unsigned(w \o f)
  <2> HIDE DEF z, u, U, W
  <2>6. Unsigned(z) = 10 * u /\ u \in Nat /\ u < 10 /\ U = W * 10 + u
    <3>1. u \in Nat
      BY <1>2 DEF u
    <3>2. Unsigned(z) = 10 * u + 0 /\ u < 10 /\ U = W * 10 + u
      BY <2>3, <2>4 DEF u, U
    <3> QED BY <3>1, <3>2
  <2>7. ParseInt(z).ok /\ ParseInt(z).value = Unsigned(z)
    <3>1. Unsigned(z) <= 99
      BY <2>6
    <3> QED BY <1>3, <2>2, <3>1
  <2>8. F = 10 * u
    BY <2>1, <2>6, <2>7
  <2>9. (U * 100) \div 10 = W * 100 + F /\ F \in 0..99
    BY <1>1, <2>6, <2>8
  <2> QED BY <2>1, <2>5, <2>7, <2>9 DEF W, U
<1>6. CASE Point(m) # 0 /\ Len(f) # 1
  <2> DEFINE a == FirstTwo(f)
             b == SubSeq(f, 3, Len(f))
  <2>1. Len(f) \in Nat /\ Len(f) >= 2 /\ Fraction(m) = a
    <3>1. Len(f) \in Nat /\ Len(f) # 0
      BY <1>6
    <3>2. Fraction(m) = a
      BY <1>6 DEF Fraction
    <3>3. \A n \in Nat : n # 0 /\ n # 1 => n >= 2
      OBVIOUS
    <3>4. Len(f) >= 2
      BY <1>6, <3>1, <3>3, Zenon
    <3> QED BY <3>1, <3>2, <3>4, Zenon
  <2>2. a \in Seq(Digit) /\ b \in Seq(Digit) /\ Len(a) = 2 /\ Len(b) = Len(f) - 2 /\ f = a \o b
    <3>1. Len(f) >= 2
      BY <2>1
    <3> QED BY <3>1, FirstTwoParts, Zenon
  <2> DEFINE Q == Power10[Len(b)]
             A == Unsigned(a)
             B == Unsigned(b)
  <2>3. /\ Unsigned(a \o b) = A * Q + B /\ B < Q /\ A \in Nat /\ B \in Nat
        /\ A < Power10[Len(a)]
    BY <2>2, UnsignedConcat, UnsignedNat
  <2>4. Power10[Len(f)] = 100 * Q /\ Q \in Nat /\ A < 100
    <3>1. Len(b) \in Nat /\ Len(b) + 2 = Len(f)
      BY <2>1, <2>2
    <3>2. Power10[Len(b) + 2] = 100 * Power10[Len(b)] /\ Power10[Len(b)] \in Nat
      BY <3>1, PowerFacts
    <3>3. A < Power10[2]
      BY <2>2, <2>3
    <3> QED BY <3>1, <3>2, <3>3, PowerFacts
  <2>5. Cents(w, f) = ((W * (100 * Q) + (A * Q + B)) * 100) \div (100 * Q)
    <3>1. Unsigned(w \o f) = W * (100 * Q) + (A * Q + B)
      BY <1>2, <2>2, <2>3, <2>4, Zenon
    <3> QED BY <2>4, <3>1, Zenon DEF Cents
  <2> HIDE DEF Q, A, B, W, a, b
  <2>6. Cents(w, f) = W * 100 + A
    <3>1. ((W * (100 * Q) + (A * Q + B)) * 100) \div (100 * Q) = W * 100 + A
      <4>1. W \in Nat /\ A \in Nat /\ B \in Nat /\ Q \in Nat /\ B < Q
        BY <1>1, <2>3, <2>4
      <4> QED BY <4>1, TwoDecimals
    <3> QED BY <2>5, <3>1, Zenon
  <2>7. a # <<>>
    BY <2>2
  <2>8. ParseInt(a).ok /\ ParseInt(a).value = A /\ A \in 0..99
    <3>1. Unsigned(a) <= 99
      BY <2>3, <2>4 DEF A
    <3> QED BY <1>3, <2>2, <2>7, <3>1 DEF A
  <2> QED BY <2>1, <2>6, <2>8 DEF W
<1> QED BY <1>4, <1>5, <1>6

\* int64 arithmetic is exact on an amount that is one, the least one included:
\* its absolute value wraps around, and wraps back when it is negated.
LEMMA WrapSigned ==
    ASSUME NEW t \in Nat, NEW neg \in BOOLEAN, IsLong(IF neg THEN -t ELSE t)
    PROVE  (IF neg THEN Wrap(-Wrap(t)) ELSE Wrap(t)) = IF neg THEN -t ELSE t
<1>1. LongMax \in Nat
  BY MoneyAssumption DEF MoneyAssumption
<1>2. CASE ~neg
  BY <1>2, WrapLong
<1>3. CASE neg /\ t <= LongMax
  <2>1. IsLong(t) /\ IsLong(-t) /\ -t \in Int
    BY <1>1, <1>3 DEF IsLong
  <2>2. Wrap(t) = t /\ Wrap(-t) = -t
    BY <2>1, WrapLong
  <2> QED BY <1>3, <2>2
<1>4. CASE neg /\ ~(t <= LongMax)
  <2>1. t = LongMax + 1
    BY <1>1, <1>4 DEF IsLong
  <2>2. Wrap(t) = -LongMax - 1
    BY <2>1, WrapLong
  <2>3. -Wrap(t) = LongMax + 1 /\ -t = -LongMax - 1
    BY <1>1, <2>1, <2>2
  <2>4. LongMax + 1 \in Int
    BY <1>1
  <2>5. Wrap(LongMax + 1) = -LongMax - 1
    BY <2>4, WrapLong
  <2> QED BY <1>4, <2>3, <2>5
<1> QED BY <1>2, <1>3, <1>4

LEMMA ParseCentsExact ==
    ASSUME NEW s \in Seq(Char), IsDecimal(s), NEW neg \in BOOLEAN, NEW m, m = Mantissa(s),
           NEW t, t = Cents(BeforePoint(m), AfterPoint(m))
    PROVE  /\ s[Len(s)] = "." => ParseCents(neg, m) = NotParsed
           /\ s[Len(s)] # "." /\ IsLong(IF neg THEN -t ELSE t)
                => ParseCents(neg, m) = Parsed(IF neg THEN -t ELSE t)
<1> DEFINE w == BeforePoint(m)
           f == AfterPoint(m)
           whole == ParseInt(IF w = <<>> THEN <<"0">> ELSE w)
           frac  == ParseInt(Fraction(m))
           W == Unsigned(w)
           F == frac.value
<1>1. /\ w \in Seq(Digit) /\ f \in Seq(Digit) /\ m \in Seq(Char)
      /\ s[Len(s)] = "." <=> Point(m) # 0 /\ f = <<>>
  BY DecimalParts
<1>2. ParseCents(neg, m) = IF whole.ok /\ frac.ok
                           THEN Parsed(IF neg THEN Wrap(-Wrap(whole.value * 100 + frac.value))
                                       ELSE Wrap(whole.value * 100 + frac.value))
                           ELSE NotParsed
  BY Zenon DEF ParseCents
<1>3. ASSUME s[Len(s)] = "." PROVE ParseCents(neg, m) = NotParsed
  <2>1. Point(m) # 0 /\ f = <<>>
    BY <1>1, <1>3
  <2>2. Fraction(m) = FirstTwo(f)
    <3>1. Len(f) # 1
      BY <2>1
    <3> QED BY <2>1, <3>1, Zenon DEF Fraction
  <2>3. FirstTwo(f) = <<>>
    BY <2>1 DEF FirstTwo
  <2>4. frac = NotParsed
    BY <2>2, <2>3, ParseIntEmpty
  <2>5. ~frac.ok
    BY <2>4 DEF NotParsed
  <2> HIDE DEF frac, whole
  <2> QED BY <1>2, <2>5
<1>4. ASSUME s[Len(s)] # ".", IsLong(IF neg THEN -t ELSE t)
      PROVE  ParseCents(neg, m) = Parsed(IF neg THEN -t ELSE t)
  <2>1. (Point(m) = 0 => f = <<>>) /\ (Point(m) # 0 => f # <<>>)
    BY <1>1, <1>4, Parts
  <2>2. frac.ok /\ F \in 0..99 /\ Cents(w, f) = W * 100 + F
    <3> HIDE DEF w
    <3> QED BY <1>1, <2>1, FractionFacts, Zenon
  <2>3. whole = (IF W <= LongMax THEN Parsed(W) ELSE NotParsed) /\ W \in Nat
    <3> HIDE DEF w
    <3> QED BY <1>1, WholePart, UnsignedNat
  <2> HIDE DEF w, f, whole, frac, W, F
  <2>4. t = W * 100 + F
    BY <2>2 DEF w, f
  <2>5. t \in Nat /\ W <= LongMax
    <3>1. t \in Nat /\ W <= t /\ t >= 100 * W
      BY <2>2, <2>3, <2>4
    <3>2. t <= LongMax + 1 /\ LongMax \in Nat /\ LongMax >= 99
      BY <1>4, <3>1, MoneyAssumption DEF IsLong, MoneyAssumption
    <3> QED BY <2>3, <3>1, <3>2
  <2>6. whole.ok /\ whole.value = W
    BY <2>3, <2>5 DEF Parsed
  <2>7. ParseCents(neg, m) = Parsed(IF neg THEN Wrap(-Wrap(t)) ELSE Wrap(t))
    BY <1>2, <2>2, <2>4, <2>6, Zenon DEF F
  <2>8. (IF neg THEN Wrap(-Wrap(t)) ELSE Wrap(t)) = IF neg THEN -t ELSE t
    BY <1>4, <2>5, WrapSigned
  <2> QED BY <2>7, <2>8, Zenon
<1> QED BY <1>3, <1>4

\* What a decimal text states, and its cents.
LEMMA DecimalValue ==
    ASSUME NEW s \in Seq(Char), IsDecimal(s), NEW m, m = Mantissa(s),
           NEW t, t = Cents(BeforePoint(m), AfterPoint(m)), NEW u, u = Unsigned(Digits(s))
    PROVE  /\ u \in Nat /\ Decimals(s) \in Nat
           /\ Scaled(s) = IF Head(s) = "-" THEN -u ELSE u
           /\ CutToCent(s) = IF Head(s) = "-" THEN -t ELSE t
           /\ t = (u * 100) \div Power10[Decimals(s)]
<1> DEFINE w == BeforePoint(m)
           f == AfterPoint(m)
           P == Power10[Decimals(s)]
<1>1. w \in Seq(Digit) /\ f \in Seq(Digit)
  BY DecimalParts
<1>2. Digits(s) = w \o f /\ Decimals(s) = Len(f)
  BY DEF Digits, Decimals
<1>3. u \in Nat /\ Decimals(s) \in Nat
  <2>1. w \o f \in Seq(Digit) /\ Len(f) \in Nat
    BY <1>1
  <2> QED BY <1>2, <2>1, UnsignedNat
<1>4. Scaled(s) = IF Head(s) = "-" THEN -u ELSE u
  BY Zenon DEF Scaled
<1>5. t = (u * 100) \div P /\ P \in Nat /\ P > 0
  BY <1>2, <1>3, PowerFacts DEF Cents
<1>6. CutToCent(s) = Truncate(Scaled(s) * 100, P)
  BY Zenon DEF CutToCent
<1> HIDE DEF P
<1>7. ASSUME Head(s) # "-" PROVE CutToCent(s) = t
  <2>1. Scaled(s) * 100 >= 0 /\ Scaled(s) = u
    BY <1>3, <1>4, <1>7
  <2> QED BY <1>5, <1>6, <2>1 DEF Truncate
<1>8. ASSUME Head(s) = "-" PROVE CutToCent(s) = -t
  <2>1. CASE u = 0
    <3>1. Scaled(s) * 100 = 0 /\ u * 100 = 0
      BY <1>4, <1>8, <2>1
    <3>2. 0 \div P = 0
      BY <1>5
    <3> QED BY <1>5, <1>6, <3>1, <3>2 DEF Truncate
  <2>2. CASE u # 0
    <3>1. ~(Scaled(s) * 100 >= 0) /\ -(Scaled(s) * 100) = u * 100
      BY <1>3, <1>4, <1>8, <2>2
    <3> QED BY <1>5, <1>6, <3>1, Zenon DEF Truncate
  <2> QED BY <2>1, <2>2
<1> QED BY <1>3, <1>4, <1>5, <1>7, <1>8 DEF P

\* A portal's amount is read as a balance is: of a decimal number only a plus sign
\* is dropped, which the balance does not look at.
LEMMA DollarsLikeBalance ==
    ASSUME NEW s \in Seq(Char), IsDecimal(s)
    PROVE  parseDollarsToCents(s) = parseMoneyToCents(s)
<1> DEFINE S == Digit \cup {".", "-"}
           m == Mantissa(s)
<1>1. s # <<>> /\ m # <<>> /\ m \in Seq(Char) /\ \A i \in 1..Len(m) : m[i] \in Digit \cup {"."}
  BY DecimalParts
<1>2. parseMoneyToCents(s) = ParseCents(Head(s) = "-", m)
  BY <1>1, Zenon DEF parseMoneyToCents
<1>3. Head(s) = s[1] /\ Head(m) = m[1] /\ Len(s) \in Nat /\ Len(m) \in Nat /\ 1 <= Len(m)
  BY <1>1
<1>4. "+" \notin S /\ "-" \in S /\ "-" \notin Digit \cup {"."}
  BY DigitFacts
<1>5. CASE Head(s) = "+"
  <2>1. m = Tail(s)
    BY <1>1, <1>5, Zenon DEF Mantissa
  <2>2. \A n \in 2..Len(s) : s[n] \in S
    <3> TAKE n \in 2..Len(s)
    <3>1. s[n] = Tail(s)[n - 1] /\ n - 1 \in 1..Len(Tail(s))
      BY <1>1
    <3>2. m[n - 1] \in Digit \cup {"."}
      BY <1>1, <2>1, <3>1, Zenon
    <3> QED BY <2>1, <3>1, <3>2
  <2> HIDE DEF S, m
  <2>3. Kept(s, S) = Tail(s)
    BY <1>1, <1>3, <1>4, <1>5, <2>2, KeptTail
  <2>4. Head(m) # "-"
    BY <1>1, <1>3, <1>4
  <2>5. parseDollarsToCents(s) = ParseCents(FALSE, m)
    <3>1. Kept(s, Digit \cup {".", "-"}) = m
      BY <2>1, <2>3 DEF S
    <3> QED BY <1>1, <2>4, <3>1, Zenon DEF parseDollarsToCents
  <2>6. (Head(s) = "-") = FALSE
    BY <1>5
  <2> QED BY <1>2, <2>5, <2>6, Zenon
<1>6. CASE Head(s) # "+"
  <2>1. \A n \in 1..Len(s) : s[n] \in S
    <3>1. CASE Head(s) = "-"
      <4>1. m = Tail(s)
        BY <1>1, <3>1, Zenon DEF Mantissa
      <4> TAKE n \in 1..Len(s)
      <4>2. CASE n = 1
        BY <1>3, <1>4, <3>1, <4>2
      <4>3. CASE n # 1
        <5>1. s[n] = Tail(s)[n - 1] /\ n - 1 \in 1..Len(Tail(s))
          BY <1>1, <4>3
        <5>2. m[n - 1] \in Digit \cup {"."}
          BY <1>1, <4>1, <5>1, Zenon
        <5> QED BY <4>1, <5>1, <5>2
      <4> QED BY <4>2, <4>3
    <3>2. CASE Head(s) # "-"
      <4>1. m = s
        BY <1>6, <3>2, Zenon DEF Mantissa
      <4> QED BY <1>1, <4>1
    <3> QED BY <3>1, <3>2
  <2>2. Kept(s, S) = s
    <3> HIDE DEF S
    <3> QED BY <2>1, KeptAll
  <2>3. CASE Head(s) = "-"
    <3>1. m = Tail(s)
      BY <1>1, <2>3, Zenon DEF Mantissa
    <3>2. parseDollarsToCents(s) = ParseCents(TRUE, Tail(s))
      <4> DEFINE neg == s # <<>> /\ Head(s) = "-"
      <4>1. parseDollarsToCents(s) = ParseCents(neg, IF neg THEN Tail(s) ELSE s)
        BY <1>1, <2>2, Zenon DEF parseDollarsToCents
      <4>2. neg = TRUE
        BY <1>1, <2>3
      <4> HIDE DEF neg
      <4> QED BY <4>1, <4>2
    <3>3. (Head(s) = "-") = TRUE
      BY <2>3
    <3> QED BY <1>2, <3>1, <3>2, <3>3, Zenon
  <2>4. CASE Head(s) # "-"
    <3>1. m = s
      BY <1>6, <2>4, Zenon DEF Mantissa
    <3>2. parseDollarsToCents(s) = ParseCents(FALSE, s)
      <4> DEFINE neg == s # <<>> /\ Head(s) = "-"
      <4>1. parseDollarsToCents(s) = ParseCents(neg, IF neg THEN Tail(s) ELSE s)
        BY <1>1, <2>2, Zenon DEF parseDollarsToCents
      <4>2. neg = FALSE
        BY <1>1, <2>4
      <4> HIDE DEF neg
      <4> QED BY <4>1, <4>2
    <3>3. (Head(s) = "-") = FALSE
      BY <2>4
    <3> QED BY <1>2, <3>1, <3>2, <3>3, Zenon
  <2> QED BY <2>3, <2>4
<1> QED BY <1>5, <1>6

\* A balance is the amount the text states, cut off at the cent.
LEMMA BalanceExact ==
    ASSUME NEW s \in Seq(Char), IsDecimal(s), IsLong(CutToCent(s))
    PROVE  parseMoneyToCents(s) = IF s[Len(s)] = "." THEN NotParsed ELSE Parsed(CutToCent(s))
<1> DEFINE m   == Mantissa(s)
           t   == Cents(BeforePoint(m), AfterPoint(m))
           neg == Head(s) = "-"
<1>1. s # <<>>
  BY DecimalParts
<1>2. parseMoneyToCents(s) = ParseCents(neg, m)
  BY <1>1, Zenon DEF parseMoneyToCents
<1>3. neg \in BOOLEAN
  OBVIOUS
<1>4. CutToCent(s) = IF neg THEN -t ELSE t
  BY DecimalValue, Zenon
<1>5. m = Mantissa(s) /\ t = Cents(BeforePoint(m), AfterPoint(m))
  OBVIOUS
<1> HIDE DEF m, t, neg
<1>6. s[Len(s)] = "." => ParseCents(neg, m) = NotParsed
  BY <1>3, <1>5, ParseCentsExact
<1>7. s[Len(s)] # "." /\ IsLong(IF neg THEN -t ELSE t)
                => ParseCents(neg, m) = Parsed(IF neg THEN -t ELSE t)
  BY <1>3, <1>5, ParseCentsExact
<1> QED BY <1>2, <1>4, <1>6, <1>7, Zenon

-----------------------------------------------------------------------------
(* What the form reads *)

\* int(), between two multiples of its divisor.
LEMMA TruncateFacts ==
    ASSUME NEW a \in Int, NEW b \in Int, b > 0, NEW t, t = Truncate(a, b)
    PROVE  t \in Int /\ b * t \in Int /\ (a >= 0 => b * t <= a) /\ a < b * t + b
<1>1. CASE a >= 0
  <2>1. t = a \div b
    BY <1>1 DEF Truncate
  <2> QED BY <2>1, DivFacts
<1>2. CASE ~(a >= 0)
  <2> DEFINE q == (-a) \div b
  <2>1. t = -q /\ -a \in Int
    BY <1>2 DEF Truncate
  <2>2. q \in Int /\ b * q \in Int /\ b * q <= -a
    <3> DEFINE z == -a
    <3>1. z \in Int /\ q = z \div b
      OBVIOUS
    <3> HIDE DEF z, q
    <3>2. q \in Int /\ b * q \in Int /\ b * q <= z
      BY <3>1, DivFacts
    <3> QED BY <3>2 DEF z
  <2> HIDE DEF q
  <2>3. b * t = -(b * q)
    BY <2>1, <2>2
  <2> QED BY <1>2, <2>1, <2>2, <2>3
<1> QED BY <1>1, <1>2

\* The cents of S / P and a half, doubled, in parts of 2 * P, and what an error of
\* k parts, and a little more, makes of them.
Doubled(S, P)    == 2 * (S * 200 + P)
Rounded(S, P, k) == Truncate(Doubled(S, P) - (2 * k + 1), 4 * P)
                      ..Truncate(Doubled(S, P) + (2 * k + 1), 4 * P)

\* A number cut off at either end of the error is half a cent and the error away.
LEMMA RoundedIsNearest ==
    ASSUME NEW S \in Nat, NEW P \in Nat, P > 0, NEW k \in Nat, NEW c \in Rounded(S, P, k)
    PROVE  LET off == 2 * (c * P - S * 100) IN off <= P + k /\ -off <= P + k
<1> DEFINE x == Doubled(S, P) - (2 * k + 1)
           y == Doubled(S, P) + (2 * k + 1)
           b == 4 * P
           l == Truncate(x, b)
           h == Truncate(y, b)
<1>1. /\ x \in Int /\ y \in Int /\ y >= 0 /\ b \in Int /\ b > 0 /\ b = 4 * P
      /\ x = 400 * S + 2 * P - 2 * k - 1 /\ y = 400 * S + 2 * P + 2 * k + 1
  BY DEF Doubled
<1>2. c \in l..h
  BY DEF Rounded
<1>3. l = Truncate(x, b) /\ h = Truncate(y, b)
  OBVIOUS
<1> HIDE DEF x, y, b, l, h
<1>4. l \in Int /\ b * l \in Int /\ x < b * l + b
  BY <1>1, <1>3, TruncateFacts
<1>5. h \in Int /\ b * h \in Int /\ b * h <= y
  BY <1>1, <1>3, TruncateFacts
<1>6. c \in Int /\ l <= c /\ c <= h
  BY <1>2, <1>4, <1>5
<1> DEFINE v == c * P
<1>7. v \in Int /\ b * l <= 4 * v /\ 4 * v <= b * h
  <2>1. \A m, n \in Int : m <= n => m * P <= n * P
    <3> SUFFICES ASSUME NEW m \in Int, NEW n \in Int, m <= n PROVE m * P <= n * P
      OBVIOUS
    <3>1. (n - m) \in Nat
      OBVIOUS
    <3>2. (n - m) * P >= 0
      BY <3>1
    <3> QED BY <3>2
  <2>2. l * P <= v /\ v <= h * P /\ v \in Int /\ l * P \in Int /\ h * P \in Int
    BY <1>4, <1>5, <1>6, <2>1
  <2>3. b * l = 4 * (l * P) /\ b * h = 4 * (h * P)
    BY <1>1, <1>4, <1>5
  <2> HIDE DEF v
  <2> QED BY <2>2, <2>3
<1> HIDE DEF v
<1>8. 2 * (v - S * 100) <= P + k
  BY <1>1, <1>5, <1>7
<1>9. -(2 * (v - S * 100)) <= P + k
  BY <1>1, <1>4, <1>7
<1> QED BY <1>8, <1>9, Zenon DEF v

\* With two decimals or fewer the amount is a whole number of cents, which an error
\* of less than a part leaves as it is.
LEMMA RoundedIsExact ==
    ASSUME NEW S \in Nat, NEW P \in {1, 10, 100}
    PROVE  Rounded(S, P, 0) = {Truncate(S * 100, P)}
<1> DEFINE x == Doubled(S, P) - (2 * 0 + 1)
           y == Doubled(S, P) + (2 * 0 + 1)
<1>1. x = 400 * S + 2 * P - 1 /\ y = 400 * S + 2 * P + 1 /\ x >= 0 /\ y >= 0 /\ x \in Int /\ y \in Int
  BY DEF Doubled
<1>2. Rounded(S, P, 0) = Truncate(x, 4 * P)..Truncate(y, 4 * P)
  BY DEF Rounded
<1> HIDE DEF x, y
<1>3. CASE P = 1
  <2>1. x \div 4 = 100 * S /\ y \div 4 = 100 * S /\ (S * 100) \div 1 = 100 * S /\ S * 100 >= 0
    BY <1>1, <1>3
  <2>2. Truncate(x, 4 * P) = 100 * S /\ Truncate(y, 4 * P) = 100 * S /\ Truncate(S * 100, P) = 100 * S
    BY <1>1, <1>3, <2>1 DEF Truncate
  <2> QED BY <1>2, <2>2
<1>4. CASE P = 10
  <2>1. x \div 40 = 10 * S /\ y \div 40 = 10 * S /\ (S * 100) \div 10 = 10 * S /\ S * 100 >= 0
    BY <1>1, <1>4
  <2>2. Truncate(x, 4 * P) = 10 * S /\ Truncate(y, 4 * P) = 10 * S /\ Truncate(S * 100, P) = 10 * S
    BY <1>1, <1>4, <2>1 DEF Truncate
  <2> QED BY <1>2, <2>2
<1>5. CASE P = 100
  <2>1. x \div 400 = S /\ y \div 400 = S /\ (S * 100) \div 100 = S /\ S * 100 >= 0
    BY <1>1, <1>5
  <2>2. Truncate(x, 4 * P) = S /\ Truncate(y, 4 * P) = S /\ Truncate(S * 100, P) = S
    BY <1>1, <1>5, <2>1 DEF Truncate
  <2> QED BY <1>2, <2>2
<1> QED BY <1>3, <1>4, <1>5

\* FormCents in these terms; the error is a number of parts.
LEMMA FormRounded ==
    ASSUME NEW s \in Seq(Char), IsDecimal(s)
    PROVE  /\ FormCents(s) = Rounded(Scaled(s), Power10[Decimals(s)], Slack(s))
           /\ Slack(s) \in Nat
           /\ Decimals(s) \in Nat /\ Scaled(s) \in Int
           /\ Power10[Decimals(s)] \in Nat /\ Power10[Decimals(s)] > 0
<1> DEFINE u == Unsigned(Digits(s))
           P == Power10[Decimals(s)]
           S == Scaled(s)
           k == Slack(s)
<1>1. u \in Nat /\ Decimals(s) \in Nat /\ S = IF Head(s) = "-" THEN -u ELSE u
  BY DecimalValue, Zenon
<1>2. P \in Nat /\ P > 0
  BY <1>1, PowerFacts
<1>3. S \in Int
  <2> HIDE DEF u, S
  <2> QED BY <1>1
<1>4. k \in Nat
  <2>1. k = (800 * u + 2 * P) \div FloatMax
    BY DEF Slack
  <2>2. FloatMax \in Nat /\ FloatMax > 0
    BY MoneyAssumption DEF MoneyAssumption
  <2> HIDE DEF k, u, P
  <2>3. 800 * u + 2 * P \in Nat
    BY <1>1, <1>2
  <2> QED BY <2>1, <2>2, <2>3
<1>5. FormCents(s) = Truncate(2 * (S * 200 + P) - (2 * k + 1), 2 * (2 * P))
                       ..Truncate(2 * (S * 200 + P) + (2 * k + 1), 2 * (2 * P))
  BY Zenon DEF FormCents
<1>6. 2 * (2 * P) = 4 * P
  <2> HIDE DEF P
  <2> QED BY <1>2
<1>7. FormCents(s) = Rounded(S, P, k)
  BY <1>5, <1>6, Zenon DEF Rounded, Doubled
<1> QED BY <1>1, <1>2, <1>3, <1>4, <1>7

\* An amount about as large as the column holds, with two decimals or fewer, is
\* small enough for a float64 to be right to the part.
LEMMA NoSlack ==
    ASSUME NEW s \in Seq(Char), IsDecimal(s), Decimals(s) <= 2,
           Scaled(s) \in (-IntMax - 1)..(IntMax + 1)
    PROVE  Slack(s) = 0 /\ Power10[Decimals(s)] \in {1, 10, 100}
<1> DEFINE u == Unsigned(Digits(s))
           P == Power10[Decimals(s)]
           S == Scaled(s)
<1>1. u \in Nat /\ Decimals(s) \in Nat /\ S = IF Head(s) = "-" THEN -u ELSE u
  BY DecimalValue, Zenon
<1>2. P \in {1, 10, 100}
  <2>1. Decimals(s) \in {0, 1, 2}
    BY <1>1
  <2> QED BY <2>1, PowerFacts
<1>3. Slack(s) = (800 * u + 2 * P) \div FloatMax
  BY DEF Slack
<1>4. IntMax \in Nat /\ FloatMax \in Nat /\ 800 * (IntMax + 2) < FloatMax
  BY MoneyAssumption DEF MoneyAssumption
<1>5. S \in (-IntMax - 1)..(IntMax + 1)
  OBVIOUS
<1> HIDE DEF u, P, S
<1>6. u <= IntMax + 1
  BY <1>1, <1>4, <1>5
<1> DEFINE e == 800 * u + 2 * P
<1>7. e \in Nat /\ e < FloatMax
  BY <1>1, <1>2, <1>4, <1>6
<1>8. Slack(s) = e \div FloatMax
  BY <1>3
<1> HIDE DEF e
<1>9. e \div FloatMax = 0
  BY <1>4, <1>7
<1> QED BY <1>2, <1>8, <1>9 DEF P

\* The form is right to the nearest cent, and exact on an amount the column holds
\* that has no more than two decimals.
LEMMA FormNearest ==
    ASSUME NEW s \in Seq(Char), IsDecimal(s), Scaled(s) >= 0, NEW cents \in FormCents(s)
    PROVE  /\ NearestCent(s, cents)
           /\ Decimals(s) <= 2 /\ CutToCent(s) <= IntMax => cents = CutToCent(s)
<1> DEFINE S == Scaled(s)
           d == Decimals(s)
           P == Power10[d]
           k == Slack(s)
<1>1. /\ S \in Nat /\ d \in Nat /\ P \in Nat /\ P > 0 /\ k \in Nat
      /\ FormCents(s) = Rounded(S, P, k)
  <2>1. /\ S \in Int /\ d \in Nat /\ P \in Nat /\ P > 0 /\ k \in Nat
        /\ FormCents(s) = Rounded(S, P, k)
    BY FormRounded
  <2>2. S >= 0
    OBVIOUS
  <2> HIDE DEF S, d, P, k
  <2> QED BY <2>1, <2>2
<1>2. NearestCent(s, cents)
  <2> HIDE DEF S, P, k
  <2>1. LET off == 2 * (cents * P - S * 100) IN off <= P + k /\ -off <= P + k
    <3>1. cents \in Rounded(S, P, k)
      BY <1>1
    <3> QED BY <1>1, <3>1, RoundedIsNearest, Zenon
  <2> QED BY <2>1, Zenon DEF NearestCent, S, P, d, k
<1>3. ASSUME d <= 2, CutToCent(s) <= IntMax PROVE cents = CutToCent(s)
  <2>1. P \in {1, 10, 100}
    <3>1. d \in {0, 1, 2}
      <4> HIDE DEF d
      <4> QED BY <1>1, <1>3
    <3> QED BY <3>1, PowerFacts
  <2>2. CutToCent(s) = Truncate(S * 100, P)
    BY Zenon DEF CutToCent
  <2>3. S \in (-IntMax - 1)..(IntMax + 1)
    <3>1. IntMax \in Nat
      BY MoneyAssumption DEF MoneyAssumption
    <3>2. Truncate(S * 100, P) <= IntMax
      BY <1>3, <2>2
    <3> HIDE DEF S, P
    <3>3. S * 100 >= 0 /\ Truncate(S * 100, P) = (S * 100) \div P
      BY <1>1 DEF Truncate
    <3>4. S <= (S * 100) \div P
      <4>1. CASE P = 1
        BY <1>1, <4>1
      <4>2. CASE P = 10
        BY <1>1, <4>2
      <4>3. CASE P = 100
        BY <1>1, <4>3
      <4> QED BY <2>1, <4>1, <4>2, <4>3
    <3>5. (S * 100) \div P <= IntMax /\ (S * 100) \div P \in Int
      BY <1>1, <3>2, <3>3
    <3> QED BY <1>1, <3>1, <3>4, <3>5
  <2>4. k = 0
    BY <1>3, <2>3, NoSlack
  <2> HIDE DEF S, P, k
  <2>5. Rounded(S, P, 0) = {Truncate(S * 100, P)}
    BY <1>1, <2>1, RoundedIsExact
  <2> QED BY <1>1, <2>2, <2>4, <2>5
<1> QED BY <1>2, <1>3

-----------------------------------------------------------------------------
(* What an edit form is filled with *)

LEMMA UnsignedTwo ==
    ASSUME NEW a \in Digit, NEW b \in Digit
    PROVE  <<a, b>> \in Seq(Digit) /\ Unsigned(<<a, b>>) = 10 * DigitValue[a] + DigitValue[b]
<1> DEFINE x == <<a>>
<1>1. x \in Seq(Digit) /\ Unsigned(x) = DigitValue[a] /\ <<a, b>> = Append(x, b)
  BY UnsignedOne
<1> HIDE DEF x
<1>2. Unsigned(Append(x, b)) = 10 * Unsigned(x) + DigitValue[b]
  BY <1>1, UnsignedAppend
<1>3. <<a, b>> \in Seq(Digit)
  OBVIOUS
<1> QED BY <1>1, <1>2, <1>3, Zenon

\* The text an amount is shown as states that amount, with two decimals.
LEMMA PlainText ==
    ASSUME NEW c \in Int, NEW s, s = formatCentsPlain(c)
    PROVE  s \in Seq(Char) /\ IsDecimal(s) /\ Decimals(s) = 2 /\ Scaled(s) = c
<1> DEFINE n == IF c < 0 THEN -c ELSE c
           w == Itoa[n \div 100]
           a == Numerals[((n % 100) \div 10) + 1]
           b == Numerals[(n % 10) + 1]
           m == w \o <<".", a, b>>
           sign == IF c < 0 THEN <<"-">> ELSE <<>>
<1>1. s = (sign \o w) \o <<".", a, b>>
  BY Zenon DEF formatCentsPlain
<1>2. /\ n \in Nat /\ n \div 100 \in Nat /\ (n % 100) \div 10 \in 0..9 /\ n % 10 \in 0..9
      /\ n = 100 * (n \div 100) + (10 * ((n % 100) \div 10) + (n % 10))
  <2>1. n \in Nat
    OBVIOUS
  <2> HIDE DEF n
  <2> QED BY <2>1
<1>3. w \in Seq(Digit) /\ w # <<>> /\ Unsigned(w) = n \div 100
  <2> HIDE DEF n
  <2> QED BY <1>2, ItoaReads, Zenon
<1>4. /\ a \in Digit /\ DigitValue[a] = (n % 100) \div 10
      /\ b \in Digit /\ DigitValue[b] = n % 10
  <2> HIDE DEF n
  <2> QED BY <1>2, DigitFacts, Zenon
<1> DEFINE f == <<a, b>>
           g == <<".", a, b>>
<1>5. Unsigned(w \o f) = n /\ w \o f \in Seq(Digit) /\ f \in Seq(Digit) /\ Len(f) = 2
  <2> HIDE DEF w, a, b, n
  <2>1. f \in Seq(Digit) /\ Unsigned(f) = 10 * DigitValue[a] + DigitValue[b] /\ Len(f) = 2
    BY <1>4, UnsignedTwo
  <2> HIDE DEF f
  <2>2. Unsigned(w \o f) = Unsigned(w) * Power10[Len(f)] + Unsigned(f) /\ w \o f \in Seq(Digit)
    <3>1. w \o f \in Seq(Digit)
      BY <1>3, <2>1, ConcatFacts
    <3>2. Unsigned(w \o f) = Unsigned(w) * Power10[Len(f)] + Unsigned(f)
      BY <1>3, <2>1, UnsignedConcat, Zenon
    <3> QED BY <3>1, <3>2, Zenon
  <2>3. Unsigned(w \o f) = (n \div 100) * 100 + (10 * ((n % 100) \div 10) + (n % 10))
    BY <1>3, <1>4, <2>1, <2>2, PowerFacts
  <2> QED BY <1>2, <2>1, <2>2, <2>3
<1>6. m \in Seq(Char) /\ BeforePoint(m) = w /\ AfterPoint(m) = f
  <2> HIDE DEF w, a, b
  <2> QED BY <1>3, <1>4, SplitAtPoint
<1>7. g \in Seq(Char) /\ w \in Seq(Char) /\ Head(w) \in Digit
  <2> HIDE DEF w, a, b
  <2>1. g \in Seq(Char)
    BY <1>4 DEF Char
  <2>2. w \in Seq(Char) /\ Head(w) \in Digit
    BY <1>3 DEF Char
  <2> QED BY <2>1, <2>2
<1>8. s \in Seq(Char) /\ Mantissa(s) = m /\ (c < 0 <=> Head(s) = "-")
  <2> HIDE DEF w, g, n
  <2>1. CASE c < 0
    <3>1. s = (<<"-">> \o w) \o g
      BY <1>1, <2>1 DEF g
    <3>2. <<"-">> \in Seq(Char)
      BY DEF Char
    <3>3. s \in Seq(Char) /\ s # <<>> /\ Head(s) = "-" /\ Tail(s) = w \o g
      BY <1>7, <3>1, <3>2
    <3>4. Mantissa(s) = Tail(s)
      BY <3>3, Zenon DEF Mantissa
    <3> QED BY <2>1, <3>3, <3>4 DEF g
  <2>2. CASE ~(c < 0)
    <3>1. s = (<<>> \o w) \o g
      BY <1>1, <2>2 DEF g
    <3>2. s = w \o g /\ s \in Seq(Char) /\ Head(s) = Head(w) /\ s # <<>>
      BY <1>3, <1>7, <3>1
    <3>3. Head(s) \notin {"+", "-"}
      BY <1>7, <3>2, DigitFacts
    <3>4. Mantissa(s) = s
      BY <3>3, Zenon DEF Mantissa
    <3> QED BY <2>2, <3>2, <3>3, <3>4 DEF g
  <2> QED BY <2>1, <2>2
<1> HIDE DEF m, f, w
<1>9. Digits(s) = w \o f /\ Decimals(s) = 2
  BY <1>5, <1>6, <1>8 DEF Digits, Decimals
<1>10. IsDecimal(s)
  <2>1. ToSet(w \o f) \subseteq Digit
    <3> DEFINE x == w \o f
    <3>1. x \in Seq(Digit)
      BY <1>5
    <3> HIDE DEF x
    <3>2. ToSet(x) \subseteq Digit
      BY <3>1 DEF ToSet
    <3> QED BY <3>2 DEF x
  <2>2. w \o f # <<>>
    BY <1>3, <1>5
  <2> QED BY <1>9, <2>1, <2>2 DEF IsDecimal
<1>11. Scaled(s) = c
  BY <1>5, <1>8, <1>9 DEF Scaled
<1> QED BY <1>8, <1>9, <1>10, <1>11

\* Of what the column holds, an amount that is not negative comes back as it is,
\* one that is a cent nearer to zero.
LEMMA PlainRoundTrip ==
    ASSUME NEW c \in (-IntMax - 1)..IntMax
    PROVE  /\ formatCentsPlain(c) \in Seq(Char) /\ IsDecimal(formatCentsPlain(c))
           /\ FormCents(formatCentsPlain(c)) = {IF c >= 0 THEN c ELSE c + 1}
<1> DEFINE s == formatCentsPlain(c)
<1>0. c \in Int /\ c \in (-IntMax - 1)..(IntMax + 1)
  BY MoneyAssumption DEF MoneyAssumption
<1>1. s \in Seq(Char) /\ IsDecimal(s) /\ Decimals(s) = 2 /\ Scaled(s) = c
  BY <1>0, PlainText
<1> HIDE DEF s
<1>2. FormCents(s) = Rounded(c, 100, 0)
  <2>1. Power10[Decimals(s)] = 100
    BY <1>1, PowerFacts
  <2>2. Slack(s) = 0
    BY <1>0, <1>1, NoSlack
  <2>3. FormCents(s) = Rounded(Scaled(s), Power10[Decimals(s)], Slack(s))
    BY <1>1, FormRounded
  <2> QED BY <1>1, <2>1, <2>2, <2>3
<1> DEFINE x == Doubled(c, 100) - (2 * 0 + 1)
           y == Doubled(c, 100) + (2 * 0 + 1)
<1>3. x = 400 * c + 199 /\ y = 400 * c + 201
  BY <1>0 DEF Doubled
<1>4. Rounded(c, 100, 0) = Truncate(x, 400)..Truncate(y, 400)
  BY DEF Rounded
<1> HIDE DEF x, y
<1>5. ASSUME NEW z \in {199, 201}
      PROVE  Truncate(400 * c + z, 400) = IF c >= 0 THEN c ELSE c + 1
  <2>1. CASE c >= 0
    <3>1. 400 * c + z >= 0 /\ (400 * c + z) \div 400 = c
      BY <1>0, <2>1
    <3> QED BY <2>1, <3>1 DEF Truncate
  <2>2. CASE ~(c >= 0)
    <3>1. ~(400 * c + z >= 0) /\ (-(400 * c + z)) \div 400 = -(c + 1)
      BY <1>0, <2>2
    <3>2. -(-(c + 1)) = c + 1
      BY <1>0
    <3> QED BY <2>2, <3>1, <3>2 DEF Truncate
  <2> QED BY <2>1, <2>2
<1>6. FormCents(s) = {IF c >= 0 THEN c ELSE c + 1}
  <2> DEFINE e == IF c >= 0 THEN c ELSE c + 1
  <2>1. Truncate(x, 400) = e /\ Truncate(y, 400) = e /\ e \in Int
    BY <1>0, <1>3, <1>5
  <2> HIDE DEF e
  <2>2. e..e = {e}
    BY <2>1
  <2>3. FormCents(s) = {e}
    BY <1>2, <1>4, <2>1, <2>2
  <2> QED BY <2>3 DEF e
<1> QED BY <1>1, <1>6 DEF s

=============================================================================
