----------------------------- MODULE Setup_proofs -----------------------------
(***************************************************************************)
(* Proofs about Setup and what it is made of: the planner, the rules of    *)
(* the catalog and the comparison of versions.                             *)
(***************************************************************************)
EXTENDS Installation, ReviewedExecution_proofs, FiniteSetTheorems, NaturalsInduction

-----------------------------------------------------------------------------
(* Naturals, sequences and recursive definitions.                          *)

\* A set of naturals that is not empty has a least element.
LEMMA Least ==
  ASSUME NEW T \in SUBSET Nat, T # {}
  PROVE  \E n \in T : \A k \in T : n <= k
<1> DEFINE R == {ss \in Nat \X Nat : ss[1] < ss[2]}
<1>1. IsWellFoundedOn(R, Nat)
  BY NatLessThanWellFounded DEF OpToRel
<1>2. \A x, y \in Nat : <<y, x>> \notin R => x <= y
  OBVIOUS
<1> HIDE DEF R
<1>3. \E x \in T : \A y \in T : <<y, x>> \notin R
  BY <1>1, WFMin
<1> QED BY <1>2, <1>3

\* Min picks it.
LEMMA MinLeast ==
  ASSUME NEW T \in SUBSET Nat, T # {}
  PROVE  Min(T) \in T /\ \A k \in T : Min(T) <= k
<1>1. PICK n \in T : \A k \in T : n <= k
  BY Least
<1> QED BY <1>1 DEF Min

\* What a recursive definition on 0 .. N makes of a value at each place.
Steps(S, N) == [1 .. N -> [S -> S]]

\* f follows g from i up to n.
Follows(g, i, n, f) == f[0] = i /\ \A k \in 1 .. n : f[k] = g[k][f[k - 1]]

\* What g says of each place can be followed to any length.
LEMMA FollowedTo ==
  ASSUME NEW S, NEW N \in Nat, NEW g \in Steps(S, N), NEW i \in S, NEW n \in 0 .. N
  PROVE  \E f \in [0 .. n -> S] : Follows(g, i, n, f)
<1> DEFINE None == {k \in 0 .. N : ~\E f \in [0 .. k -> S] : Follows(g, i, k, f)}
<1>1. SUFFICES ASSUME None # {}
               PROVE  FALSE
  OBVIOUS
<1>2. PICK m \in None : \A k \in None : m <= k
  <2>1. None \in SUBSET Nat
    OBVIOUS
  <2> HIDE DEF None
  <2> QED BY <1>1, <2>1, Least
<1>3. m # 0
  <2>1. [k \in 0 .. 0 |-> i] \in [0 .. 0 -> S] /\ Follows(g, i, 0, [k \in 0 .. 0 |-> i])
    BY DEF Follows
  <2> QED BY <2>1
<1>4. m - 1 \in 0 .. N /\ m - 1 \notin None /\ m \in 1 .. N
  BY <1>2, <1>3
<1>5. PICK f \in [0 .. m - 1 -> S] : Follows(g, i, m - 1, f)
  BY <1>4
<1> DEFINE h == [k \in 0 .. m |-> IF k = m THEN g[m][f[m - 1]] ELSE f[k]]
<1>6. h \in [0 .. m -> S]
  <2>1. g[m] \in [S -> S] /\ f[m - 1] \in S
    BY <1>4 DEF Steps
  <2> QED BY <1>4, <2>1
<1>7. Follows(g, i, m, h)
  <2>1. h[0] = i
    BY <1>3, <1>4, <1>5 DEF Follows
  <2>2. ASSUME NEW k \in 1 .. m
        PROVE  h[k] = g[k][h[k - 1]]
    <3>1. k \in 0 .. m /\ k - 1 \in 0 .. m /\ k - 1 # m /\ h[k - 1] = f[k - 1]
      BY <1>4
    <3>2. CASE k = m
      BY <3>1, <3>2
    <3>3. CASE k # m
      <4>1. k \in 1 .. m - 1 /\ h[k] = f[k]
        BY <1>4, <3>1, <3>3
      <4> QED BY <1>5, <3>1, <4>1 DEF Follows
    <3> QED BY <3>2, <3>3
  <2> QED BY <2>1, <2>2 DEF Follows
<1> QED BY <1>2, <1>6, <1>7

\* So what is defined by recursion on 0 .. N exists.
Followed(S, N, g, i) ==
    \E f \in [0 .. N -> S] : f[0] = i /\ \A n \in 1 .. N : f[n] = g[n][f[n - 1]]
LEMMA Recursion ==
  \A S : \A N \in Nat : \A g \in Steps(S, N) : \A i \in S : Followed(S, N, g, i)
<1> SUFFICES ASSUME NEW S, NEW N \in Nat, NEW g \in Steps(S, N), NEW i \in S
             PROVE  Followed(S, N, g, i)
  OBVIOUS
<1>1. N \in 0 .. N
  OBVIOUS
<1> QED BY <1>1, FollowedTo DEF Follows, Followed

-----------------------------------------------------------------------------
(* The order of versions.                                                    *)

Value(id) == CHOOSE value :
    value = [n \in 0 .. Len(id) |-> IF n = 0 THEN 0 ELSE 10 * value[n - 1] + id[n] - 48]

\* The value of the first n digits, as Number computes it.
LEMMA ValueSteps ==
  ASSUME NEW id \in Seq(Nat)
  PROVE  /\ Number(id) = Value(id)[Len(id)]
         /\ Value(id) \in [0 .. Len(id) -> Int] /\ Value(id)[0] = 0
         /\ \A n \in 1 .. Len(id) : Value(id)[n] = 10 * Value(id)[n - 1] + id[n] - 48
<1>1. Number(id) = Value(id)[Len(id)]
  BY DEF Number, Value
<1> DEFINE g == [n \in 1 .. Len(id) |-> [x \in Int |-> 10 * x + id[n] - 48]]
           Is(v) == v = [n \in 0 .. Len(id) |-> IF n = 0 THEN 0 ELSE 10 * v[n - 1] + id[n] - 48]
<1>2. Len(id) \in Nat /\ \A n \in 1 .. Len(id) : id[n] \in Nat
  OBVIOUS
<1>3. g \in [1 .. Len(id) -> [Int -> Int]]
  BY <1>2
<1>4. PICK f \in [0 .. Len(id) -> Int] : f[0] = 0 /\ \A n \in 1 .. Len(id) : f[n] = g[n][f[n - 1]]
  <2>1. g \in Steps(Int, Len(id))
    BY <1>3 DEF Steps
  <2> HIDE DEF g
  <2>2. Followed(Int, Len(id), g, 0)
    BY <1>2, <2>1, Recursion
  <2> QED BY <2>2 DEF Followed
<1>5. Is(f)
  <2>1. \A n \in 1 .. Len(id) : g[n][f[n - 1]] = 10 * f[n - 1] + id[n] - 48
    <3>1. \A n \in 1 .. Len(id) : n - 1 \in 0 .. Len(id)
      BY <1>2
    <3> QED BY <3>1
  <2>2. \A n \in 0 .. Len(id) : n # 0 => n \in 1 .. Len(id)
    BY <1>2
  <2> QED BY <1>4, <2>1, <2>2
<1>6. Is(Value(id))
  BY <1>5 DEF Value
<1>7. ASSUME NEW n \in 0 .. Len(id)
      PROVE  Value(id)[n] = IF n = 0 THEN 0 ELSE 10 * Value(id)[n - 1] + id[n] - 48
  BY <1>6
<1> DEFINE Wrong == {n \in 0 .. Len(id) : Value(id)[n] \notin Int}
<1>8. Wrong = {}
  <2>1. SUFFICES ASSUME Wrong # {}
                 PROVE  FALSE
    OBVIOUS
  <2>2. PICK n \in Wrong : \A k \in Wrong : n <= k
    <3>1. Wrong \in SUBSET Nat
      OBVIOUS
    <3> HIDE DEF Wrong
    <3> QED BY <2>1, <3>1, Least
  <2>3. n # 0
    BY <1>7
  <2>4. n - 1 \in 0 .. Len(id) /\ n - 1 \notin Wrong
    BY <1>2, <2>2, <2>3
  <2>5. Value(id)[n - 1] \in Int /\ id[n] \in Nat
    BY <1>2, <2>2, <2>3, <2>4
  <2> QED BY <1>7, <2>2, <2>3, <2>5
<1>9. \A n \in 0 .. Len(id) : Value(id)[n] \in Int
  BY <1>8
<1>10. Value(id) \in [0 .. Len(id) -> Int]
  BY <1>6, <1>9
<1> QED BY <1>1, <1>2, <1>7, <1>10

\* A digit adds less than one ten.
LEMMA Digits ==
  \A x, y \in Int, c, d \in 48 .. 57 :
      /\ x < y => 10 * x + c - 48 < 10 * y + d - 48
      /\ 0 <= x => 0 <= 10 * x + c - 48 /\ x <= 10 * x + c - 48
  OBVIOUS

\* A value that is ahead stays ahead, whatever digits follow.
LEMMA StaysAhead ==
  ASSUME NEW l \in Seq(Nat), NEW r \in Seq(Nat), Numeric(l), Numeric(r),
         NEW a \in 0 .. Len(l), NEW b \in 0 .. Len(r), Value(l)[a] < Value(r)[b],
         NEW n \in Nat, a + n <= Len(l), b + n <= Len(r)
  PROVE  Value(l)[a + n] < Value(r)[b + n]
<1> DEFINE Behind == {k \in 0 .. n : ~(Value(l)[a + k] < Value(r)[b + k])}
<1>1. SUFFICES ASSUME Behind # {}
               PROVE  FALSE
  <2>1. n \notin Behind
    BY <1>1
  <2> QED BY <2>1
<1>2. PICK k \in Behind : \A j \in Behind : k <= j
  <2>1. Behind \in SUBSET Nat
    OBVIOUS
  <2> HIDE DEF Behind
  <2> QED BY <1>1, <2>1, Least
<1>3. Len(l) \in Nat /\ Len(r) \in Nat
  OBVIOUS
<1>4. k # 0
  BY <1>3
<1>5. k - 1 \in 0 .. n /\ k - 1 \notin Behind
  <2>1. k \in 0 .. n
    OBVIOUS
  <2>2. k - 1 \in 0 .. n
    BY <1>4, <2>1
  <2> HIDE DEF Behind
  <2> QED BY <1>2, <2>1, <2>2
<1> DEFINE i == a + k
           j == b + k
<1>6. i \in 1 .. Len(l) /\ j \in 1 .. Len(r) /\ i - 1 = a + (k - 1) /\ j - 1 = b + (k - 1)
  BY <1>3, <1>4
<1>7. Value(l)[i - 1] < Value(r)[j - 1]
  BY <1>5, <1>6
<1>8. ~(Value(l)[i] < Value(r)[j])
  OBVIOUS
<1> HIDE DEF i, j
<1>9. l[i] \in 48 .. 57 /\ r[j] \in 48 .. 57
  BY <1>6 DEF Numeric, Digit
<1>10. Value(l)[i] = 10 * Value(l)[i - 1] + l[i] - 48 /\ Value(r)[j] = 10 * Value(r)[j - 1] + r[j] - 48
  BY <1>6, ValueSteps
<1>11. Value(l)[i - 1] \in Int /\ Value(r)[j - 1] \in Int
  <2>1. i - 1 \in 0 .. Len(l) /\ j - 1 \in 0 .. Len(r)
    BY <1>3, <1>6
  <2> QED BY <2>1, ValueSteps
<1> QED BY <1>7, <1>8, <1>9, <1>10, <1>11, Digits

\* Values do not shrink.
LEMMA ValueGrows ==
  ASSUME NEW id \in Seq(Nat), Numeric(id), NEW m \in 0 .. Len(id)
  PROVE  0 <= Value(id)[m] /\ Value(id)[m] <= Value(id)[Len(id)]
<1>1. Len(id) \in Nat
  OBVIOUS
<1> DEFINE Negative == {k \in 0 .. Len(id) : ~(0 <= Value(id)[k])}
<1>2. Negative = {}
  <2>1. SUFFICES ASSUME Negative # {}
                 PROVE  FALSE
    OBVIOUS
  <2>2. PICK n \in Negative : \A k \in Negative : n <= k
    <3>1. Negative \in SUBSET Nat
      OBVIOUS
    <3> HIDE DEF Negative
    <3> QED BY <2>1, <3>1, Least
  <2>3. n # 0
    BY <2>2, ValueSteps
  <2>8. ~(0 <= Value(id)[n])
    BY <2>2
  <2>4. n - 1 \in 0 .. Len(id) /\ n - 1 \notin Negative /\ n \in 1 .. Len(id)
    BY <1>1, <2>2, <2>3
  <2>5. id[n] \in 48 .. 57
    BY <2>4 DEF Numeric, Digit
  <2>6. Value(id)[n] = 10 * Value(id)[n - 1] + id[n] - 48 /\ Value(id)[n - 1] \in Int /\ Value(id)[n] \in Int
    BY <2>4, ValueSteps
  <2>7. 0 <= Value(id)[n - 1]
    BY <2>4
  <2> HIDE DEF Negative
  <2> QED BY <2>5, <2>6, <2>7, <2>8, Digits
<1>3. \A k \in 0 .. Len(id) : 0 <= Value(id)[k]
  BY <1>2
<1> DEFINE Less == {k \in m .. Len(id) : ~(Value(id)[m] <= Value(id)[k])}
<1>4. Less = {}
  <2>1. SUFFICES ASSUME Less # {}
                 PROVE  FALSE
    OBVIOUS
  <2>2. PICK n \in Less : \A k \in Less : n <= k
    <3>1. Less \in SUBSET Nat
      OBVIOUS
    <3> HIDE DEF Less
    <3> QED BY <2>1, <3>1, Least
  <2>8. ~(Value(id)[m] <= Value(id)[n]) /\ Value(id)[m] \in Int
    BY <2>2, ValueSteps
  <2>3. n # m
    BY <2>8
  <2>4. n - 1 \in m .. Len(id) /\ n - 1 \notin Less /\ n \in 1 .. Len(id) /\ n - 1 \in 0 .. Len(id)
    BY <1>1, <2>2, <2>3
  <2>5. id[n] \in 48 .. 57
    BY <2>4 DEF Numeric, Digit
  <2>6. Value(id)[n] = 10 * Value(id)[n - 1] + id[n] - 48 /\ Value(id)[n - 1] \in Int /\ Value(id)[m] \in Int
    BY <2>4, ValueSteps
  <2>7. 0 <= Value(id)[n - 1] /\ Value(id)[m] <= Value(id)[n - 1]
    BY <1>3, <2>4
  <2> HIDE DEF Less
  <2>9. Value(id)[n - 1] <= Value(id)[n]
    BY <2>5, <2>6, <2>7, Digits
  <2>10. Value(id)[n] \in Int
    BY <2>4, ValueSteps
  <2> QED BY <2>6, <2>7, <2>8, <2>9, <2>10
<1>5. Len(id) \notin Less
  BY <1>4
<1> QED BY <1>1, <1>3, <1>5

\* AtFirstDifference, of the results at the places that two sequences of length m and n share.
Shared(m, n) == 1 .. (IF m < n THEN m ELSE n)
Lexicographic(m, n, result) ==
    LET differ == {i \in Shared(m, n) : result[i] # 0}
    IN  IF differ = {} THEN Sign(m - n) ELSE result[Min(differ)]

\* The longer or greater one decides at some place up to which the two agree.
Above(m, n, result) == \E i \in 1 .. m :
    (i > n \/ result[i] > 0) /\ \A j \in 1 .. i - 1 : j <= n /\ result[j] = 0
Below(m, n, result) == \E i \in 1 .. n :
    (i > m \/ result[i] < 0) /\ \A j \in 1 .. i - 1 : j <= m /\ result[j] = 0
Level(m, n, result) == m = n /\ \A i \in 1 .. m : result[i] = 0

LEMMA SignOf == \A x \in Int : /\ Sign(x) > 0 <=> x > 0
                               /\ Sign(x) < 0 <=> x < 0
                               /\ Sign(x) = 0 <=> x = 0
                               /\ Sign(x) \in Int
  BY DEF Sign

LEMMA LexicographicOrder ==
  ASSUME NEW m \in Nat, NEW n \in Nat, NEW result \in [Shared(m, n) -> Int]
  PROVE  /\ Lexicographic(m, n, result) \in Int
         /\ Lexicographic(m, n, result) > 0 <=> Above(m, n, result)
         /\ Lexicographic(m, n, result) < 0 <=> Below(m, n, result)
         /\ Lexicographic(m, n, result) = 0 <=> Level(m, n, result)
<1> DEFINE R == Lexicographic(m, n, result)
           differ == {i \in Shared(m, n) : result[i] # 0}
<1>1. CASE differ = {}
  <2>1. \A i \in Shared(m, n) : result[i] = 0
    BY <1>1
  <2>2. R = Sign(m - n)
    BY <1>1 DEF Lexicographic
  <2>3. \A i \in 1 .. m : i <= n => result[i] = 0
    BY <2>1 DEF Shared
  <2>4. \A i \in 1 .. n : i <= m => result[i] = 0
    BY <2>1 DEF Shared
  <2>5. R \in Int /\ (R > 0 <=> m > n) /\ (R < 0 <=> m < n) /\ (R = 0 <=> m = n)
    BY <2>2, SignOf
  <2> HIDE DEF differ, R
  <2>6. Above(m, n, result) <=> m > n
    <3>1. ASSUME m > n PROVE Above(m, n, result)
      <4>1. n + 1 \in 1 .. m /\ \A j \in 1 .. (n + 1) - 1 : j <= n /\ result[j] = 0
        BY <3>1, <2>3
      <4>2. n + 1 > n
        OBVIOUS
      <4> QED BY <4>1, <4>2 DEF Above
    <3>2. ASSUME Above(m, n, result) PROVE m > n
      <4>1. PICK i \in 1 .. m : i > n \/ result[i] > 0
        BY <3>2 DEF Above
      <4>2. i <= n => result[i] = 0
        BY <2>3
      <4> QED BY <4>1, <4>2
    <3> QED BY <3>1, <3>2
  <2>7. Below(m, n, result) <=> m < n
    <3>1. ASSUME m < n PROVE Below(m, n, result)
      <4>1. m + 1 \in 1 .. n /\ \A j \in 1 .. (m + 1) - 1 : j <= m /\ result[j] = 0
        BY <3>1, <2>4
      <4>2. m + 1 > m
        OBVIOUS
      <4> QED BY <4>1, <4>2 DEF Below
    <3>2. ASSUME Below(m, n, result) PROVE m < n
      <4>1. PICK i \in 1 .. n : i > m \/ result[i] < 0
        BY <3>2 DEF Below
      <4>2. i <= m => result[i] = 0
        BY <2>4
      <4> QED BY <4>1, <4>2
    <3> QED BY <3>1, <3>2
  <2>8. Level(m, n, result) <=> m = n
    BY <2>3 DEF Level
  <2> QED BY <2>5, <2>6, <2>7, <2>8 DEF R
<1>2. CASE differ # {}
  <2>1. differ \in SUBSET Nat
    BY DEF Shared
  <2> DEFINE first == Min(differ)
  <2>3. first \in differ /\ \A j \in differ : first <= j
    <3> HIDE DEF differ
    <3> QED BY <1>2, <2>1, MinLeast
  <2>4. R = result[first]
    BY <1>2 DEF Lexicographic
  <2> HIDE DEF first
  <2>5. first \in Shared(m, n) /\ result[first] # 0 /\ result[first] \in Int
    BY <2>3
  <2>6. first \in 1 .. m /\ first \in 1 .. n /\ first <= m /\ first <= n
    BY <2>5 DEF Shared
  <2>7. \A j \in 1 .. first - 1 : result[j] = 0 /\ j <= m /\ j <= n
    <3>1. TAKE j \in 1 .. first - 1
    <3>2. j \in Shared(m, n) /\ ~(first <= j)
      BY <2>6 DEF Shared
    <3>3. j \notin differ
      BY <2>3, <3>2
    <3> QED BY <3>2, <3>3, <2>6
  <2>8. \A i \in 1 .. m : (\A j \in 1 .. i - 1 : j <= n /\ result[j] = 0) => i <= first
    <3>1. SUFFICES ASSUME NEW i \in 1 .. m, \A j \in 1 .. i - 1 : result[j] = 0, ~(i <= first)
                   PROVE  FALSE
      OBVIOUS
    <3>2. first \in 1 .. i - 1
      BY <2>6, <3>1
    <3> QED BY <2>5, <3>1, <3>2
  <2>9. \A i \in 1 .. n : (\A j \in 1 .. i - 1 : j <= m /\ result[j] = 0) => i <= first
    <3>1. SUFFICES ASSUME NEW i \in 1 .. n, \A j \in 1 .. i - 1 : result[j] = 0, ~(i <= first)
                   PROVE  FALSE
      OBVIOUS
    <3>2. first \in 1 .. i - 1
      BY <2>6, <3>1
    <3> QED BY <2>5, <3>1, <3>2
  <2> HIDE DEF differ, R
  <2>10. Above(m, n, result) <=> result[first] > 0
    <3>1. ASSUME Above(m, n, result) PROVE result[first] > 0
      <4>1. PICK i \in 1 .. m : (i > n \/ result[i] > 0) /\ \A j \in 1 .. i - 1 : j <= n /\ result[j] = 0
        BY <3>1 DEF Above
      <4>2. i <= first
        BY <2>8, <4>1
      <4>3. i \in 1 .. first - 1 => result[i] = 0 /\ i <= n
        BY <2>7
      <4>4. i = first
        BY <2>6, <4>1, <4>2, <4>3
      <4> QED BY <2>6, <4>1, <4>4
    <3>2. result[first] > 0 => Above(m, n, result)
      BY <2>6, <2>7 DEF Above
    <3> QED BY <3>1, <3>2
  <2>11. Below(m, n, result) <=> result[first] < 0
    <3>1. ASSUME Below(m, n, result) PROVE result[first] < 0
      <4>1. PICK i \in 1 .. n : (i > m \/ result[i] < 0) /\ \A j \in 1 .. i - 1 : j <= m /\ result[j] = 0
        BY <3>1 DEF Below
      <4>2. i <= first
        BY <2>9, <4>1
      <4>3. i \in 1 .. first - 1 => result[i] = 0 /\ i <= m
        BY <2>7
      <4>4. i = first
        BY <2>6, <4>1, <4>2, <4>3
      <4> QED BY <2>6, <4>1, <4>4
    <3>2. result[first] < 0 => Below(m, n, result)
      BY <2>6, <2>7 DEF Below
    <3> QED BY <3>1, <3>2
  <2>12. ~Level(m, n, result)
    BY <2>5, <2>6 DEF Level
  <2> QED BY <2>4, <2>5, <2>10, <2>11, <2>12 DEF R
<1> QED BY <1>1, <1>2

\* The comparisons of the code are comparisons of this kind.
LEMMA TextCompared ==
  ASSUME NEW l \in Seq(Nat), NEW r \in Seq(Nat)
  PROVE  CompareText(l, r) = Lexicographic(Len(l), Len(r), [i \in Shared(Len(l), Len(r)) |-> Subtract(l[i], r[i])])
<1> DEFINE result == [i \in Shared(Len(l), Len(r)) |-> Subtract(l[i], r[i])]
           differ == {i \in Shared(Len(l), Len(r)) : Subtract(l[i], r[i]) # 0}
           first == Min(differ)
<1>1. CompareText(l, r) = IF differ = {} THEN Sign(Len(l) - Len(r)) ELSE Subtract(l[first], r[first])
  BY DEF CompareText, AtFirstDifference, Shared
<1>2. {i \in Shared(Len(l), Len(r)) : result[i] # 0} = differ
  OBVIOUS
<1>3. Lexicographic(Len(l), Len(r), result) = IF differ = {} THEN Sign(Len(l) - Len(r)) ELSE result[first]
  <2> HIDE DEF result, differ
  <2> QED BY <1>2 DEF Lexicographic
<1>4. differ # {} => first \in Shared(Len(l), Len(r))
  <2>1. differ \in SUBSET Nat
    BY DEF Shared
  <2> HIDE DEF differ
  <2>2. differ # {} => first \in differ
    BY <2>1, MinLeast
  <2> QED BY <2>2 DEF differ
<1> QED BY <1>1, <1>3, <1>4
LEMMA IdentifiersCompared ==
  ASSUME NEW l \in Seq(Seq(Nat)), NEW r \in Seq(Seq(Nat))
  PROVE  AtFirstDifference(l, r, CompareIdentifier)
           = Lexicographic(Len(l), Len(r), [i \in Shared(Len(l), Len(r)) |-> CompareIdentifier(l[i], r[i])])
<1> DEFINE result == [i \in Shared(Len(l), Len(r)) |-> CompareIdentifier(l[i], r[i])]
           differ == {i \in Shared(Len(l), Len(r)) : CompareIdentifier(l[i], r[i]) # 0}
           first == Min(differ)
<1>1. AtFirstDifference(l, r, CompareIdentifier) = IF differ = {} THEN Sign(Len(l) - Len(r)) ELSE CompareIdentifier(l[first], r[first])
  BY DEF AtFirstDifference, Shared
<1>2. {i \in Shared(Len(l), Len(r)) : result[i] # 0} = differ
  OBVIOUS
<1>3. Lexicographic(Len(l), Len(r), result) = IF differ = {} THEN Sign(Len(l) - Len(r)) ELSE result[first]
  <2> HIDE DEF result, differ
  <2> QED BY <1>2 DEF Lexicographic
<1>4. differ # {} => first \in Shared(Len(l), Len(r))
  <2>1. differ \in SUBSET Nat
    BY DEF Shared
  <2> HIDE DEF differ
  <2>2. differ # {} => first \in differ
    BY <2>1, MinLeast
  <2> QED BY <2>2 DEF differ
<1> QED BY <1>1, <1>3, <1>4
LEMMA CoresCompared ==
  ASSUME NEW l \in Seq(Seq(Nat)), NEW r \in Seq(Seq(Nat))
  PROVE  AtFirstDifference(l, r, CompareNumber)
           = Lexicographic(Len(l), Len(r), [i \in Shared(Len(l), Len(r)) |-> CompareNumber(l[i], r[i])])
<1> DEFINE result == [i \in Shared(Len(l), Len(r)) |-> CompareNumber(l[i], r[i])]
           differ == {i \in Shared(Len(l), Len(r)) : CompareNumber(l[i], r[i]) # 0}
           first == Min(differ)
<1>1. AtFirstDifference(l, r, CompareNumber) = IF differ = {} THEN Sign(Len(l) - Len(r)) ELSE CompareNumber(l[first], r[first])
  BY DEF AtFirstDifference, Shared
<1>2. {i \in Shared(Len(l), Len(r)) : result[i] # 0} = differ
  OBVIOUS
<1>3. Lexicographic(Len(l), Len(r), result) = IF differ = {} THEN Sign(Len(l) - Len(r)) ELSE result[first]
  <2> HIDE DEF result, differ
  <2> QED BY <1>2 DEF Lexicographic
<1>4. differ # {} => first \in Shared(Len(l), Len(r))
  <2>1. differ \in SUBSET Nat
    BY DEF Shared
  <2> HIDE DEF differ
  <2>2. differ # {} => first \in differ
    BY <2>1, MinLeast
  <2> QED BY <2>2 DEF differ
<1> QED BY <1>1, <1>3, <1>4

\* Texts are compared as Heavier compares them.
LEMMA TextHeavier ==
  ASSUME NEW l \in Seq(Nat), NEW r \in Seq(Nat)
  PROVE  /\ CompareText(l, r) \in Int
         /\ CompareText(l, r) > 0 <=> Heavier(l, r)
         /\ CompareText(l, r) < 0 <=> Heavier(r, l)
         /\ CompareText(l, r) = 0 <=> l = r
<1> DEFINE result == [i \in Shared(Len(l), Len(r)) |-> Subtract(l[i], r[i])]
<1>1. /\ Len(l) \in Nat /\ Len(r) \in Nat
      /\ \A i \in 1 .. Len(l) : l[i] \in Nat
      /\ \A i \in 1 .. Len(r) : r[i] \in Nat
  OBVIOUS
<1>2. \A i \in 1 .. Len(l) : i <= Len(r) => i \in Shared(Len(l), Len(r))
  BY <1>1 DEF Shared
<1>3. \A i \in 1 .. Len(r) : i <= Len(l) => i \in Shared(Len(l), Len(r))
  BY <1>1 DEF Shared
<1>4. \A i \in Shared(Len(l), Len(r)) : i \in 1 .. Len(l) /\ i \in 1 .. Len(r)
  BY <1>1 DEF Shared
<1>5. \A i \in Shared(Len(l), Len(r)) :
         /\ result[i] \in Int /\ l[i] \in Nat /\ r[i] \in Nat
         /\ result[i] > 0 <=> l[i] > r[i]
         /\ result[i] < 0 <=> r[i] > l[i]
         /\ result[i] = 0 <=> l[i] = r[i]
  <2>1. TAKE i \in Shared(Len(l), Len(r))
  <2>2. l[i] \in Nat /\ r[i] \in Nat /\ result[i] = Sign(l[i] - r[i])
    BY <1>1, <1>4 DEF Subtract
  <2> HIDE DEF result
  <2> QED BY <2>2 DEF Sign
<1>6. result \in [Shared(Len(l), Len(r)) -> Int]
  BY <1>5
<1>7. CompareText(l, r) = Lexicographic(Len(l), Len(r), result)
  BY TextCompared
<1> HIDE DEF result
<1>8. Above(Len(l), Len(r), result) <=> Heavier(l, r)
  <2>1. ASSUME NEW i \in 1 .. Len(l)
        PROVE  /\ (i > Len(r) \/ result[i] > 0) <=> (i > Len(r) \/ l[i] > r[i])
               /\ i <= Len(r) => (result[i] = 0 <=> l[i] = r[i])
    <3>1. CASE i <= Len(r)
      BY <1>1, <1>2, <1>5, <3>1
    <3>2. CASE ~(i <= Len(r))
      BY <1>1, <3>2
    <3> QED BY <3>1, <3>2
  <2>2. \A i \in 1 .. Len(l) : \A j \in 1 .. i - 1 : j \in 1 .. Len(l)
    BY <1>1
  <2> QED BY <2>1, <2>2 DEF Above, Heavier
<1>9. Below(Len(l), Len(r), result) <=> Heavier(r, l)
  <2>1. ASSUME NEW i \in 1 .. Len(r)
        PROVE  /\ (i > Len(l) \/ result[i] < 0) <=> (i > Len(l) \/ r[i] > l[i])
               /\ i <= Len(l) => (result[i] = 0 <=> r[i] = l[i])
    <3>1. CASE i <= Len(l)
      BY <1>1, <1>3, <1>5, <3>1
    <3>2. CASE ~(i <= Len(l))
      BY <1>1, <3>2
    <3> QED BY <3>1, <3>2
  <2>2. \A i \in 1 .. Len(r) : \A j \in 1 .. i - 1 : j \in 1 .. Len(r)
    BY <1>1
  <2> QED BY <2>1, <2>2 DEF Below, Heavier
<1>10. Level(Len(l), Len(r), result) <=> l = r
  <2>1. ASSUME Level(Len(l), Len(r), result) PROVE l = r
    <3>1. Len(l) = Len(r) /\ \A i \in 1 .. Len(l) : result[i] = 0
      BY <2>1 DEF Level
    <3>2. \A i \in 1 .. Len(l) : i \in Shared(Len(l), Len(r))
      BY <1>1, <1>2, <3>1
    <3>3. \A i \in 1 .. Len(l) : l[i] = r[i]
      BY <1>5, <3>1, <3>2
    <3>4. l \in [1 .. Len(l) -> Nat] /\ r \in [1 .. Len(r) -> Nat]
      OBVIOUS
    <3> QED BY <3>1, <3>3, <3>4
  <2>2. ASSUME l = r PROVE Level(Len(l), Len(r), result)
    BY <1>1, <1>2, <1>5, <2>2 DEF Level
  <2> QED BY <2>1, <2>2
<1> QED BY <1>1, <1>6, <1>7, <1>8, <1>9, <1>10, LexicographicOrder

\* Equal digits have equal values.
LEMMA SameValue ==
  ASSUME NEW l \in Seq(Nat), NEW r \in Seq(Nat), NEW m \in Nat, m <= Len(l), m <= Len(r),
         \A j \in 1 .. m : l[j] = r[j]
  PROVE  Value(l)[m] = Value(r)[m]
<1> DEFINE Other == {k \in 0 .. m : Value(l)[k] # Value(r)[k]}
<1>1. SUFFICES ASSUME Other # {}
               PROVE  FALSE
  <2>1. m \notin Other
    BY <1>1
  <2> QED BY <2>1
<1>2. PICK k \in Other : \A j \in Other : k <= j
  <2>1. Other \in SUBSET Nat
    OBVIOUS
  <2> HIDE DEF Other
  <2> QED BY <1>1, <2>1, Least
<1>3. Len(l) \in Nat /\ Len(r) \in Nat
  OBVIOUS
<1>4. Value(l)[k] # Value(r)[k] /\ k \in 0 .. m
  BY <1>2
<1>5. k # 0
  BY <1>3, <1>4, ValueSteps
<1>6. k \in 1 .. m /\ k \in 1 .. Len(l) /\ k \in 1 .. Len(r) /\ k - 1 \in 0 .. m
  BY <1>3, <1>4, <1>5
<1>7. k - 1 \notin Other
  <2> HIDE DEF Other
  <2> QED BY <1>2, <1>4
<1>8. Value(l)[k - 1] = Value(r)[k - 1]
  BY <1>6, <1>7
<1>9. l[k] = r[k]
  BY <1>6
<1> HIDE DEF Other
<1>10. Value(l)[k] = 10 * Value(l)[k - 1] + l[k] - 48 /\ Value(r)[k] = 10 * Value(r)[k - 1] + r[k] - 48
  BY <1>6, ValueSteps
<1> QED BY <1>4, <1>8, <1>9, <1>10

LEMMA NumberType ==
  ASSUME NEW id \in Seq(Nat)
  PROVE  Number(id) \in Int
<1>1. Len(id) \in 0 .. Len(id)
  OBVIOUS
<1> QED BY <1>1, ValueSteps

\* Of two numbers of one length the text decides.
LEMMA LaterText ==
  ASSUME NEW l \in Seq(Nat), NEW r \in Seq(Nat), Numeric(l), Numeric(r), Len(l) = Len(r), Heavier(r, l)
  PROVE  Number(l) < Number(r)
<1>1. Len(l) \in Nat /\ Len(r) \in Nat
  OBVIOUS
<1>2. PICK i \in 1 .. Len(r) : /\ i > Len(l) \/ r[i] > l[i]
                               /\ \A j \in 1 .. i - 1 : r[j] = l[j]
  BY DEF Heavier
<1>3. i \in 1 .. Len(l) /\ r[i] > l[i] /\ i - 1 \in Nat /\ i - 1 <= Len(l) /\ i - 1 <= Len(r)
  BY <1>1, <1>2
<1>4. Value(l)[i - 1] = Value(r)[i - 1]
  BY <1>2, <1>3, SameValue
<1>5. i - 1 \in 0 .. Len(l) /\ i \in 0 .. Len(l) /\ i \in 0 .. Len(r)
  BY <1>1, <1>2, <1>3
<1>6. /\ Value(l)[i] = 10 * Value(l)[i - 1] + l[i] - 48
      /\ Value(r)[i] = 10 * Value(r)[i - 1] + r[i] - 48
      /\ Value(l)[i - 1] \in Int
  BY <1>2, <1>3, <1>5, ValueSteps
<1>7. l[i] \in Nat /\ r[i] \in Nat
  BY <1>2, <1>3
<1>8. Value(l)[i] < Value(r)[i]
  <2>1. \A x \in Int, c, d \in Nat : c < d => 10 * x + c - 48 < 10 * x + d - 48
    OBVIOUS
  <2>2. 10 * Value(l)[i - 1] + l[i] - 48 < 10 * Value(l)[i - 1] + r[i] - 48
    BY <1>3, <1>6, <1>7, <2>1
  <2> QED BY <1>4, <1>6, <2>2
<1> DEFINE n == Len(l) - i
<1>9. n \in Nat /\ i + n = Len(l) /\ i + n <= Len(l) /\ i + n <= Len(r)
  BY <1>1, <1>3
<1>10. Value(l)[i + n] < Value(r)[i + n]
  <2> HIDE DEF n
  <2> QED BY <1>5, <1>8, <1>9, StaysAhead
<1> QED BY <1>9, <1>10, ValueSteps

\* The longer of two numbers without leading zeros is greater.
LEMMA LongerNumber ==
  ASSUME NEW l \in Seq(Nat), NEW r \in Seq(Nat), Numeric(l), Numeric(r), Len(l) < Len(r), r[1] # 48
  PROVE  Number(l) < Number(r)
<1>1. Len(l) \in Nat /\ Len(r) \in Nat /\ 1 \in 1 .. Len(r) /\ 1 \in 0 .. Len(r) /\ 0 \in 0 .. Len(l)
  OBVIOUS
<1>2. r[1] \in 48 .. 57
  BY <1>1 DEF Numeric, Digit
<1>3. Value(l)[0] = 0 /\ Value(r)[1] = 10 * Value(r)[1 - 1] + r[1] - 48 /\ Value(r)[0] = 0
  BY <1>1, ValueSteps
<1>4. Value(l)[0] < Value(r)[1]
  BY <1>2, <1>3
<1>5. Value(l)[0 + Len(l)] < Value(r)[1 + Len(l)]
  BY <1>1, <1>4, StaysAhead
<1>6. 1 + Len(l) \in 0 .. Len(r) /\ 0 + Len(l) = Len(l) /\ Len(l) \in 0 .. Len(l) /\ Len(r) \in 0 .. Len(r)
  BY <1>1
<1>7. Value(r)[1 + Len(l)] <= Value(r)[Len(r)]
  BY <1>6, ValueGrows
<1>8. Value(l)[Len(l)] \in Int /\ Value(r)[1 + Len(l)] \in Int /\ Value(r)[Len(r)] \in Int
  BY <1>6, ValueSteps
<1> QED BY <1>5, <1>6, <1>7, <1>8, ValueSteps

\* Identifiers that a prerelease may have.
Plain(id) == Spelled(id) /\ ~(Len(id) > 1 /\ id[1] = 48 /\ Numeric(id))

\* Weights, compared.
LEMMA PairHeavier == \A a, b \in Int : Heavier(<<0, a>>, <<0, b>>) <=> a > b
<1> TAKE a, b \in Int
<1>1. ASSUME a > b PROVE Heavier(<<0, a>>, <<0, b>>)
  <2>1. 2 \in 1 .. Len(<<0, a>>) /\ <<0, a>>[2] > <<0, b>>[2]
    BY <1>1
  <2>2. \A j \in 1 .. 2 - 1 : j <= Len(<<0, b>>) /\ <<0, a>>[j] = <<0, b>>[j]
    OBVIOUS
  <2> QED BY <2>1, <2>2 DEF Heavier
<1>2. ASSUME Heavier(<<0, a>>, <<0, b>>) PROVE a > b
  <2>1. PICK i \in 1 .. 2 : i > 2 \/ <<0, a>>[i] > <<0, b>>[i]
    BY <1>2 DEF Heavier
  <2>2. i = 1 \/ i = 2
    OBVIOUS
  <2> QED BY <2>1, <2>2
<1> QED BY <1>1, <1>2

LEMMA Shifted ==
  ASSUME NEW a \in Seq(Nat)
  PROVE  /\ Len(<< 1 >> \o a) = Len(a) + 1 /\ (<< 1 >> \o a)[1] = 1
         /\ \A i \in 1 .. Len(a) : (<< 1 >> \o a)[i + 1] = a[i]
         /\ << 1 >> \o a \in Seq(Nat)
  OBVIOUS

LEMMA KindHeavier ==
  ASSUME NEW a \in Seq(Nat), NEW b \in Int
  PROVE  Heavier(<< 1 >> \o a, <<0, b>>) /\ ~Heavier(<<0, b>>, << 1 >> \o a) /\ <<0, b>> # << 1 >> \o a
<1> DEFINE t == << 1 >> \o a
           z == <<0, b>>
<1>1. Len(t) \in Nat /\ Len(t) >= 1 /\ t[1] = 1 /\ Len(z) = 2 /\ z[1] = 0
  BY Shifted
<1> HIDE DEF t, z
<1>2. Heavier(t, z)
  <2>1. 1 \in 1 .. Len(t) /\ t[1] > z[1] /\ \A j \in 1 .. 1 - 1 : j <= Len(z) /\ t[j] = z[j]
    BY <1>1
  <2> QED BY <2>1 DEF Heavier
<1>3. ~Heavier(z, t)
  <2>1. SUFFICES ASSUME NEW i \in 1 .. Len(z), i > Len(t) \/ z[i] > t[i],
                        \A j \in 1 .. i - 1 : j <= Len(t) /\ z[j] = t[j]
                 PROVE  FALSE
    BY DEF Heavier
  <2>2. i = 1 \/ 1 \in 1 .. i - 1
    BY <1>1
  <2> QED BY <1>1, <2>1, <2>2
<1> QED BY <1>1, <1>2, <1>3 DEF t, z

LEMMA HeavierShift ==
  ASSUME NEW a \in Seq(Nat), NEW b \in Seq(Nat)
  PROVE  Heavier(<< 1 >> \o a, << 1 >> \o b) <=> Heavier(a, b)
<1> DEFINE s == << 1 >> \o a
           t == << 1 >> \o b
<1>1. /\ Len(s) = Len(a) + 1 /\ s[1] = 1 /\ \A i \in 1 .. Len(a) : s[i + 1] = a[i]
      /\ Len(t) = Len(b) + 1 /\ t[1] = 1 /\ \A i \in 1 .. Len(b) : t[i + 1] = b[i]
      /\ Len(a) \in Nat /\ Len(b) \in Nat
  BY Shifted
<1> HIDE DEF s, t
<1>2. \A i \in 1 .. Len(s) : i = 1 \/ (i - 1 \in 1 .. Len(a) /\ s[i] = a[i - 1])
  <2> TAKE i \in 1 .. Len(s)
  <2>1. CASE i = 1
    BY <2>1
  <2>2. CASE i # 1
    <3>1. i - 1 \in 1 .. Len(a) /\ (i - 1) + 1 = i
      BY <1>1, <2>2
    <3> QED BY <1>1, <3>1
  <2> QED BY <2>1, <2>2
<1>3. \A i \in 1 .. Len(t) : i = 1 \/ (i - 1 \in 1 .. Len(b) /\ t[i] = b[i - 1])
  <2> TAKE i \in 1 .. Len(t)
  <2>1. CASE i = 1
    BY <2>1
  <2>2. CASE i # 1
    <3>1. i - 1 \in 1 .. Len(b) /\ (i - 1) + 1 = i
      BY <1>1, <2>2
    <3> QED BY <1>1, <3>1
  <2> QED BY <2>1, <2>2
<1>4. ASSUME Heavier(a, b) PROVE Heavier(s, t)
  <2>1. PICK i \in 1 .. Len(a) : (i > Len(b) \/ a[i] > b[i]) /\ \A j \in 1 .. i - 1 : j <= Len(b) /\ a[j] = b[j]
    BY <1>4 DEF Heavier
  <2>2. i + 1 \in 1 .. Len(s) /\ (i + 1 > Len(t) \/ s[i + 1] > t[i + 1])
    <3>1. i > Len(b) => i + 1 > Len(t)
      BY <1>1
    <3>2. ~(i > Len(b)) => i \in 1 .. Len(b)
      BY <1>1
    <3> QED BY <1>1, <2>1, <3>1, <3>2
  <2>3. ASSUME NEW j \in 1 .. (i + 1) - 1
        PROVE  j <= Len(t) /\ s[j] = t[j]
    <3>1. CASE j = 1
      BY <1>1, <3>1
    <3>2. CASE j # 1
      <4>1. j - 1 \in 1 .. i - 1 /\ j \in 1 .. Len(s) /\ j - 1 <= Len(b) /\ a[j - 1] = b[j - 1]
        BY <1>1, <2>1, <3>2
      <4>2. j \in 1 .. Len(t)
        BY <1>1, <4>1
      <4> QED BY <1>1, <1>2, <1>3, <3>2, <4>1, <4>2
    <3> QED BY <3>1, <3>2
  <2> QED BY <2>2, <2>3 DEF Heavier
<1>5. ASSUME Heavier(s, t) PROVE Heavier(a, b)
  <2>1. PICK i \in 1 .. Len(s) : (i > Len(t) \/ s[i] > t[i]) /\ \A j \in 1 .. i - 1 : j <= Len(t) /\ s[j] = t[j]
    BY <1>5 DEF Heavier
  <2>2. i # 1
    BY <1>1, <2>1
  <2> DEFINE k == i - 1
  <2>3. k \in 1 .. Len(a) /\ s[i] = a[k] /\ (i > Len(t) <=> k > Len(b)) /\ i = k + 1
    BY <1>1, <1>2, <2>2
  <2> HIDE DEF k
  <2>4. k > Len(b) \/ a[k] > b[k]
    <3>1. CASE k > Len(b)
      BY <3>1
    <3>2. CASE ~(k > Len(b))
      <4>1. k \in 1 .. Len(b)
        BY <1>1, <2>3, <3>2
      <4>2. t[i] = b[k]
        BY <1>1, <2>3, <4>1
      <4> QED BY <2>1, <2>3, <3>2, <4>2
    <3> QED BY <3>1, <3>2
  <2>5. ASSUME NEW j \in 1 .. k - 1
        PROVE  j <= Len(b) /\ a[j] = b[j]
    <3>1. j + 1 \in 1 .. i - 1 /\ j \in 1 .. Len(a)
      BY <1>1, <2>3
    <3>2. j + 1 <= Len(t) /\ s[j + 1] = t[j + 1]
      BY <2>1, <3>1
    <3>3. j \in 1 .. Len(b)
      BY <1>1, <3>1, <3>2
    <3> QED BY <1>1, <3>1, <3>2, <3>3
  <2> QED BY <2>3, <2>4, <2>5 DEF Heavier
<1> QED BY <1>4, <1>5 DEF s, t

LEMMA SameShifted ==
  ASSUME NEW a \in Seq(Nat), NEW b \in Seq(Nat)
  PROVE  << 1 >> \o a = << 1 >> \o b <=> a = b
<1>1. ASSUME << 1 >> \o a = << 1 >> \o b PROVE a = b
  <2>1. Len(a) = Len(b)
    BY <1>1, Shifted
  <2>2. \A i \in 1 .. Len(a) : a[i] = b[i]
    BY <1>1, <2>1, Shifted
  <2>3. a \in [1 .. Len(a) -> Nat] /\ b \in [1 .. Len(b) -> Nat]
    OBVIOUS
  <2> QED BY <2>1, <2>2, <2>3
<1> QED BY <1>1

\* Identifiers are compared as their weights.
LEMMA IdentifierHeavier ==
  ASSUME NEW l \in Seq(Nat), NEW r \in Seq(Nat), Plain(l), Plain(r)
  PROVE  /\ CompareIdentifier(l, r) \in Int
         /\ CompareIdentifier(l, r) > 0 <=> Heavier(Weight(l), Weight(r))
         /\ CompareIdentifier(l, r) < 0 <=> Heavier(Weight(r), Weight(l))
         /\ CompareIdentifier(l, r) = 0 <=> Weight(l) = Weight(r)
<1>0. Number(l) \in Int /\ Number(r) \in Int
  BY NumberType
<1>1. CASE Numeric(l) /\ ~Numeric(r)
  <2>1. CompareIdentifier(l, r) = -1 /\ Weight(l) = <<0, Number(l)>> /\ Weight(r) = << 1 >> \o r
    BY <1>1 DEF CompareIdentifier, Weight
  <2> QED BY <1>0, <2>1, KindHeavier
<1>2. CASE ~Numeric(l) /\ Numeric(r)
  <2>1. CompareIdentifier(l, r) = 1 /\ Weight(r) = <<0, Number(r)>> /\ Weight(l) = << 1 >> \o l
    BY <1>2 DEF CompareIdentifier, Weight
  <2>2. Heavier(Weight(l), Weight(r)) /\ ~Heavier(Weight(r), Weight(l)) /\ Weight(l) # Weight(r)
    BY <1>0, <2>1, KindHeavier
  <2> QED BY <2>1, <2>2
<1>3. CASE ~Numeric(l) /\ ~Numeric(r)
  <2>1. CompareIdentifier(l, r) = CompareText(l, r) /\ Weight(l) = << 1 >> \o l /\ Weight(r) = << 1 >> \o r
    BY <1>3 DEF CompareIdentifier, Weight
  <2>2. /\ Heavier(Weight(l), Weight(r)) <=> Heavier(l, r)
        /\ Heavier(Weight(r), Weight(l)) <=> Heavier(r, l)
    BY <2>1, HeavierShift
  <2>3. Weight(l) = Weight(r) <=> l = r
    BY <2>1, SameShifted
  <2>4. /\ CompareText(l, r) \in Int
        /\ CompareText(l, r) > 0 <=> Heavier(l, r)
        /\ CompareText(l, r) < 0 <=> Heavier(r, l)
        /\ CompareText(l, r) = 0 <=> l = r
    BY TextHeavier
  <2>5. CompareIdentifier(l, r) = CompareText(l, r)
    BY <2>1
  <2> QED BY <2>2, <2>3, <2>4, <2>5
<1>4. CASE Numeric(l) /\ Numeric(r)
  <2>1. Weight(l) = <<0, Number(l)>> /\ Weight(r) = <<0, Number(r)>>
    BY <1>4 DEF Weight
  <2>2. /\ Heavier(Weight(l), Weight(r)) <=> Number(l) > Number(r)
        /\ Heavier(Weight(r), Weight(l)) <=> Number(r) > Number(l)
        /\ Weight(l) = Weight(r) <=> Number(l) = Number(r)
    BY <1>0, <2>1, PairHeavier
  <2>3. /\ CompareIdentifier(l, r) \in Int
        /\ CompareIdentifier(l, r) > 0 => Number(l) > Number(r)
        /\ CompareIdentifier(l, r) < 0 => Number(r) > Number(l)
        /\ CompareIdentifier(l, r) = 0 => Number(l) = Number(r)
    <3>1. CASE Len(l) = Len(r)
      <4>1. CompareIdentifier(l, r) = CompareText(l, r)
        BY <1>4, <3>1 DEF CompareIdentifier
      <4> QED BY <1>0, <1>4, <3>1, <4>1, TextHeavier, LaterText
    <3>2. CASE Len(l) # Len(r)
      <4>1. CompareIdentifier(l, r) = Sign(Len(l) - Len(r))
        BY <1>4, <3>2 DEF CompareIdentifier
      <4>2. Len(l) \in Nat /\ Len(r) \in Nat /\ Len(l) >= 1 /\ Len(r) >= 1
        BY <1>4 DEF Numeric
      <4>3. CASE Len(l) < Len(r)
        <5>1. CompareIdentifier(l, r) = -1
          BY <4>1, <4>2, <4>3 DEF Sign
        <5>2. r[1] # 48
          BY <1>4, <4>2, <4>3 DEF Plain
        <5> QED BY <1>0, <1>4, <4>3, <5>1, <5>2, LongerNumber
      <4>4. CASE Len(r) < Len(l)
        <5>1. CompareIdentifier(l, r) = 1
          BY <4>1, <4>2, <4>4 DEF Sign
        <5>2. l[1] # 48
          BY <1>4, <4>2, <4>4 DEF Plain
        <5> QED BY <1>0, <1>4, <4>4, <5>1, <5>2, LongerNumber
      <4> QED BY <3>2, <4>2, <4>3, <4>4
    <3> QED BY <3>1, <3>2
  <2> QED BY <1>0, <2>2, <2>3
<1> QED BY <1>1, <1>2, <1>3, <1>4

\* What Precedes says of two prereleases, and of the numbers of two cores.
LaterPrerelease(l, r) == \E i \in 1 .. Len(r) :
    /\ i > Len(l) \/ Heavier(Weight(r[i]), Weight(l[i]))
    /\ \A j \in 1 .. i - 1 : j <= Len(l) /\ Weight(l[j]) = Weight(r[j])
CoreOf(v) == [i \in 1 .. 3 |-> Number(v.core[i])]

LEMMA PrereleasesOrdered ==
  ASSUME NEW l \in Seq(Seq(Nat)), NEW r \in Seq(Seq(Nat)), ValidIdentifiers(l, TRUE), ValidIdentifiers(r, TRUE)
  PROVE  /\ AtFirstDifference(l, r, CompareIdentifier) \in Int
         /\ AtFirstDifference(l, r, CompareIdentifier) > 0 <=> LaterPrerelease(r, l)
         /\ AtFirstDifference(l, r, CompareIdentifier) < 0 <=> LaterPrerelease(l, r)
<1> DEFINE result == [i \in Shared(Len(l), Len(r)) |-> CompareIdentifier(l[i], r[i])]
           m == Len(l)
           n == Len(r)
<1>1. /\ m \in Nat /\ n \in Nat
      /\ \A i \in 1 .. m : l[i] \in Seq(Nat) /\ Plain(l[i])
      /\ \A i \in 1 .. n : r[i] \in Seq(Nat) /\ Plain(r[i])
  BY DEF ValidIdentifiers, Plain
<1>2. \A i \in 1 .. m : i <= n => i \in Shared(m, n)
  BY <1>1 DEF Shared
<1>3. \A i \in 1 .. n : i <= m => i \in Shared(m, n)
  BY <1>1 DEF Shared
<1>4. ASSUME NEW i \in Shared(m, n)
      PROVE  /\ result[i] \in Int
             /\ result[i] > 0 <=> Heavier(Weight(l[i]), Weight(r[i]))
             /\ result[i] < 0 <=> Heavier(Weight(r[i]), Weight(l[i]))
             /\ result[i] = 0 <=> Weight(l[i]) = Weight(r[i])
  <2>1. i \in 1 .. m /\ i \in 1 .. n
    BY <1>1 DEF Shared
  <2>2. result[i] = CompareIdentifier(l[i], r[i])
    OBVIOUS
  <2>3. l[i] \in Seq(Nat) /\ Plain(l[i]) /\ r[i] \in Seq(Nat) /\ Plain(r[i])
    BY <1>1, <2>1
  <2> HIDE DEF result
  <2>4. /\ CompareIdentifier(l[i], r[i]) \in Int
        /\ CompareIdentifier(l[i], r[i]) > 0 <=> Heavier(Weight(l[i]), Weight(r[i]))
        /\ CompareIdentifier(l[i], r[i]) < 0 <=> Heavier(Weight(r[i]), Weight(l[i]))
        /\ CompareIdentifier(l[i], r[i]) = 0 <=> Weight(l[i]) = Weight(r[i])
    BY <2>3, IdentifierHeavier
  <2> QED BY <2>2, <2>4
<1>5. result \in [Shared(m, n) -> Int]
  BY <1>4
<1>6. AtFirstDifference(l, r, CompareIdentifier) = Lexicographic(m, n, result)
  BY IdentifiersCompared
<1> DEFINE R == AtFirstDifference(l, r, CompareIdentifier)
<1>7. R \in Int /\ (R > 0 <=> Above(m, n, result)) /\ (R < 0 <=> Below(m, n, result))
  <2>1. R = Lexicographic(m, n, result)
    BY <1>6
  <2> HIDE DEF R, result, m, n
  <2> QED BY <1>1, <1>5, <2>1, LexicographicOrder
<1> HIDE DEF result
<1>8. Above(m, n, result) <=> LaterPrerelease(r, l)
  <2>1. ASSUME NEW i \in 1 .. m
        PROVE  /\ (i > n \/ result[i] > 0) <=> (i > n \/ Heavier(Weight(l[i]), Weight(r[i])))
               /\ i <= n => (result[i] = 0 <=> Weight(r[i]) = Weight(l[i]))
    <3>1. CASE i <= n
      BY <1>1, <1>2, <1>4, <3>1
    <3>2. CASE ~(i <= n)
      BY <1>1, <3>2
    <3> QED BY <3>1, <3>2
  <2>2. \A i \in 1 .. m : \A j \in 1 .. i - 1 : j \in 1 .. m
    BY <1>1
  <2> QED BY <2>1, <2>2 DEF Above, LaterPrerelease
<1>9. Below(m, n, result) <=> LaterPrerelease(l, r)
  <2>1. ASSUME NEW i \in 1 .. n
        PROVE  /\ (i > m \/ result[i] < 0) <=> (i > m \/ Heavier(Weight(r[i]), Weight(l[i])))
               /\ i <= m => (result[i] = 0 <=> Weight(l[i]) = Weight(r[i]))
    <3>1. CASE i <= m
      BY <1>1, <1>3, <1>4, <3>1
    <3>2. CASE ~(i <= m)
      BY <1>1, <3>2
    <3> QED BY <3>1, <3>2
  <2>2. \A i \in 1 .. n : \A j \in 1 .. i - 1 : j \in 1 .. n
    BY <1>1
  <2> QED BY <2>1, <2>2 DEF Below, LaterPrerelease
<1> QED BY <1>7, <1>8, <1>9

LEMMA CoresOrdered ==
  ASSUME NEW v, NEW w, v.core \in Seq(Seq(Nat)), w.core \in Seq(Seq(Nat)), Len(v.core) = 3, Len(w.core) = 3
  PROVE  /\ AtFirstDifference(v.core, w.core, CompareNumber) \in Int
         /\ AtFirstDifference(v.core, w.core, CompareNumber) > 0 <=> Heavier(CoreOf(v), CoreOf(w))
         /\ AtFirstDifference(v.core, w.core, CompareNumber) < 0 <=> Heavier(CoreOf(w), CoreOf(v))
         /\ AtFirstDifference(v.core, w.core, CompareNumber) = 0 <=> CoreOf(v) = CoreOf(w)
<1> DEFINE a == CoreOf(v)
           b == CoreOf(w)
           result == [i \in Shared(3, 3) |-> CompareNumber(v.core[i], w.core[i])]
<1>1. Shared(3, 3) = 1 .. 3
  BY DEF Shared
<1>2. \A i \in 1 .. 3 : v.core[i] \in Seq(Nat) /\ w.core[i] \in Seq(Nat)
  OBVIOUS
<1>3. /\ a = [i \in 1 .. 3 |-> a[i]] /\ b = [i \in 1 .. 3 |-> b[i]]
      /\ \A i \in 1 .. 3 : a[i] \in Int /\ b[i] \in Int /\ a[i] = Number(v.core[i]) /\ b[i] = Number(w.core[i])
  BY <1>2, NumberType DEF CoreOf
<1>4. Len(a) = 3 /\ Len(b) = 3
  BY DEF CoreOf
<1>5. \A i \in 1 .. 3 : /\ result[i] \in Int
                        /\ result[i] > 0 <=> a[i] > b[i]
                        /\ result[i] < 0 <=> b[i] > a[i]
                        /\ result[i] = 0 <=> a[i] = b[i]
  <2> TAKE i \in 1 .. 3
  <2>1. result[i] = Sign(a[i] - b[i]) /\ a[i] \in Int /\ b[i] \in Int
    BY <1>1, <1>3 DEF CompareNumber
  <2> HIDE DEF result, a, b
  <2> QED BY <2>1 DEF Sign
<1>6. result \in [Shared(3, 3) -> Int]
  BY <1>1, <1>5
<1>7. AtFirstDifference(v.core, w.core, CompareNumber) = Lexicographic(3, 3, result)
  BY CoresCompared
<1> DEFINE R == AtFirstDifference(v.core, w.core, CompareNumber)
<1>8. R \in Int /\ (R > 0 <=> Above(3, 3, result)) /\ (R < 0 <=> Below(3, 3, result)) /\ (R = 0 <=> Level(3, 3, result))
  <2>1. R = Lexicographic(3, 3, result)
    BY <1>7
  <2> HIDE DEF R, result
  <2> QED BY <1>6, <2>1, LexicographicOrder
<1> HIDE DEF result, a, b
<1>9. Above(3, 3, result) <=> Heavier(a, b)
  <2>1. \A i \in 1 .. 3 : ~(i > 3) /\ \A j \in 1 .. i - 1 : j \in 1 .. 3 /\ j <= 3
    OBVIOUS
  <2> QED BY <1>4, <1>5, <2>1 DEF Above, Heavier
<1>10. Below(3, 3, result) <=> Heavier(b, a)
  <2>1. \A i \in 1 .. 3 : ~(i > 3) /\ \A j \in 1 .. i - 1 : j \in 1 .. 3 /\ j <= 3
    OBVIOUS
  <2> QED BY <1>4, <1>5, <2>1 DEF Below, Heavier
<1>11. Level(3, 3, result) <=> a = b
  BY <1>3, <1>5 DEF Level
<1> QED BY <1>8, <1>9, <1>10, <1>11 DEF R, a, b

\* Compare is the precedence of SemVer.
LEMMA CompareIsPrecedence ==
  ASSUME NEW v \in VersionText, NEW w \in VersionText, Parsed(v), Parsed(w)
  PROVE  /\ Compare(v, w) \in Int
         /\ Compare(v, w) < 0 <=> Precedes(v, w)
         /\ Compare(v, w) > 0 <=> Precedes(w, v)
<1>1. /\ v.core \in Seq(Seq(Nat)) /\ Len(v.core) = 3 /\ v.pre \in Seq(Seq(Nat)) /\ ValidIdentifiers(v.pre, TRUE)
      /\ w.core \in Seq(Seq(Nat)) /\ Len(w.core) = 3 /\ w.pre \in Seq(Seq(Nat)) /\ ValidIdentifiers(w.pre, TRUE)
  BY DEF VersionText, Parsed
<1> DEFINE core == AtFirstDifference(v.core, w.core, CompareNumber)
           rest == AtFirstDifference(v.pre, w.pre, CompareIdentifier)
<1>2. /\ core \in Int /\ (core > 0 <=> Heavier(CoreOf(v), CoreOf(w)))
      /\ core < 0 <=> Heavier(CoreOf(w), CoreOf(v))
      /\ core = 0 <=> CoreOf(v) = CoreOf(w)
  BY <1>1, CoresOrdered
<1>3. /\ rest \in Int /\ (rest > 0 <=> LaterPrerelease(w.pre, v.pre))
      /\ rest < 0 <=> LaterPrerelease(v.pre, w.pre)
  BY <1>1, PrereleasesOrdered
<1>4. Precedes(v, w) <=> \/ Heavier(CoreOf(w), CoreOf(v))
                         \/ /\ CoreOf(v) = CoreOf(w)
                            /\ \/ v.pre # <<>> /\ w.pre = <<>>
                               \/ v.pre # <<>> /\ w.pre # <<>> /\ LaterPrerelease(v.pre, w.pre)
  BY DEF Precedes, CoreOf, LaterPrerelease
<1>5. Precedes(w, v) <=> \/ Heavier(CoreOf(v), CoreOf(w))
                         \/ /\ CoreOf(w) = CoreOf(v)
                            /\ \/ w.pre # <<>> /\ v.pre = <<>>
                               \/ w.pre # <<>> /\ v.pre # <<>> /\ LaterPrerelease(w.pre, v.pre)
  BY DEF Precedes, CoreOf, LaterPrerelease
<1>6. Compare(v, w) = IF core # 0 THEN core ELSE ComparePrerelease(v.pre, w.pre)
  BY DEF Compare
<1>7. /\ ComparePrerelease(v.pre, w.pre) \in Int
      /\ ComparePrerelease(v.pre, w.pre) < 0 <=>
             v.pre # <<>> /\ (w.pre = <<>> \/ LaterPrerelease(v.pre, w.pre))
      /\ ComparePrerelease(v.pre, w.pre) > 0 <=>
             w.pre # <<>> /\ (v.pre = <<>> \/ LaterPrerelease(w.pre, v.pre))
  <2>1. CASE v.pre = <<>> /\ w.pre = <<>>
    <3>1. ComparePrerelease(v.pre, w.pre) = 0
      BY <2>1 DEF ComparePrerelease
    <3> QED BY <2>1, <3>1
  <2>2. CASE v.pre = <<>> /\ w.pre # <<>>
    <3>1. ComparePrerelease(v.pre, w.pre) = 1
      BY <2>2 DEF ComparePrerelease
    <3> QED BY <2>2, <3>1
  <2>3. CASE v.pre # <<>> /\ w.pre = <<>>
    <3>1. ComparePrerelease(v.pre, w.pre) = -1
      BY <2>3 DEF ComparePrerelease
    <3> QED BY <2>3, <3>1
  <2>4. CASE v.pre # <<>> /\ w.pre # <<>>
    <3>1. ComparePrerelease(v.pre, w.pre) = rest
      BY <2>4 DEF ComparePrerelease
    <3> HIDE DEF rest
    <3> QED BY <1>3, <2>4, <3>1
  <2> QED BY <2>1, <2>2, <2>3, <2>4
<1> HIDE DEF core, rest
<1>8. CASE core # 0
  <2>1. Compare(v, w) = core /\ CoreOf(v) # CoreOf(w)
    BY <1>2, <1>6, <1>8
  <2> QED BY <1>2, <1>4, <1>5, <2>1
<1>9. CASE core = 0
  <2>1. Compare(v, w) = ComparePrerelease(v.pre, w.pre) /\ CoreOf(v) = CoreOf(w)
    BY <1>2, <1>6, <1>9
  <2>2. ~Heavier(CoreOf(v), CoreOf(w)) /\ ~Heavier(CoreOf(w), CoreOf(v))
    BY <1>2, <1>9
  <2>3. Compare(v, w) \in Int
    BY <1>7, <2>1
  <2>4. Compare(v, w) < 0 <=> Precedes(v, w)
    BY <1>4, <1>7, <2>1, <2>2
  <2>5. Compare(v, w) > 0 <=> Precedes(w, v)
    BY <1>5, <1>7, <2>1, <2>2
  <2> QED BY <2>3, <2>4, <2>5
<1> QED BY <1>8, <1>9

\* A version is compatible exactly if it lies within the policy and everything has an order.
LEMMA CompatibleIsWithin ==
  ASSUME NEW v \in VersionText, NEW policy \in VersionText \X VersionText
  PROVE  Compatible(v, policy[1], policy[2]) <=>
             /\ \A bound \in Range(policy) \ {Unbounded} : Parsed(v) /\ Parsed(bound)
             /\ Within(v, policy[1], policy[2])
<1> DEFINE lower == policy[1]
           upper == policy[2]
<1>1. lower \in VersionText /\ upper \in VersionText /\ Range(policy) = {lower, upper}
  BY DEF Range
<1> HIDE DEF lower, upper
<1>2. CASE \A bound \in {lower, upper} \ {Unbounded} : Parsed(v) /\ Parsed(bound)
  <2>1. lower # Unbounded => (Compare(v, lower) >= 0 <=> ~Precedes(v, lower))
    BY <1>1, <1>2, CompareIsPrecedence
  <2>2. upper # Unbounded => (Compare(v, upper) <= 0 <=> ~Precedes(upper, v))
    BY <1>1, <1>2, CompareIsPrecedence
  <2> QED BY <1>1, <1>2, <2>1, <2>2 DEF Compatible, Within, lower, upper
<1>3. CASE ~\A bound \in {lower, upper} \ {Unbounded} : Parsed(v) /\ Parsed(bound)
  BY <1>1, <1>3 DEF Compatible, lower, upper
<1> QED BY <1>2, <1>3

-----------------------------------------------------------------------------
(* What a router's command line downloads.                                 *)

\* The first of some arguments comes before the end of the line.
LEMMA FirstTool ==
  ASSUME NEW n \in Nat, NEW tools \in SUBSET (1 .. n), tools # {}
  PROVE  /\ Min(tools) \in tools /\ \A k \in tools : Min(tools) <= k
         /\ Min(tools \cup {n + 1}) = Min(tools)
<1>1. tools \in SUBSET Nat /\ tools \cup {n + 1} \in SUBSET Nat /\ tools \cup {n + 1} # {}
  OBVIOUS
<1>2. Min(tools) \in tools /\ \A k \in tools : Min(tools) <= k
  BY <1>1, MinLeast
<1> DEFINE all == tools \cup {n + 1}
<1>3. Min(all) \in all /\ \A k \in all : Min(all) <= k
  <2>1. all \in SUBSET Nat /\ all # {}
    BY <1>1
  <2> HIDE DEF all
  <2> QED BY <2>1, MinLeast
<1>4. Min(all) <= Min(tools)
  BY <1>2, <1>3
<1>5. Min(all) \in tools
  <2>1. Min(all) \in tools \/ Min(all) = n + 1
    BY <1>3
  <2>2. Min(tools) \in 1 .. n
    BY <1>2
  <2> HIDE DEF all
  <2> QED BY <1>4, <2>1, <2>2
<1>6. Min(tools) <= Min(all) /\ Min(all) \in Nat /\ Min(tools) \in Nat
  BY <1>1, <1>2, <1>5
<1> QED BY <1>2, <1>4, <1>6

ExactTokens == {"exact", "flag=exact"}

\* The tool of a line whose options are understood, and what comes before it.
LEMMA TheTool ==
  ASSUME NEW args \in Seq(Tokens), Understood(args), NEW p \in Positional(args),
         \A t \in Tools(args) : p <= t
  PROVE  /\ Added(args) = {} /\ Before(args) \subseteq 1 .. Len(args)
         /\ p \in Tools(args) => /\ {args[i] : i \in Tools(args) \cap {Min(Tools(args) \cup {Len(args) + 1})}} = {args[p]}
                                /\ Before(args) = 1 .. p - 1
         /\ p \notin Tools(args) => p - 1 \in Before(args) /\ args[p - 1] = "flag"
<1> DEFINE n == Len(args)
           tools == Tools(args)
<1>1. n \in Nat /\ p \in 1 .. n /\ tools \in SUBSET (1 .. n)
  BY DEF Tools, Positional
<1>2. tools # {} => /\ Min(tools) \in tools /\ \A k \in tools : Min(tools) <= k
                    /\ Min(tools \cup {n + 1}) = Min(tools)
  <2> HIDE DEF tools, n
  <2> QED BY <1>1, FirstTool
<1>3. Before(args) = IF tools = {} THEN 1 .. n ELSE 1 .. Min(tools) - 1
  BY DEF Before
<1>4. tools # {} => Min(tools) \in 1 .. n
  BY <1>1, <1>2
<1>5. Before(args) \subseteq 1 .. n
  <2> HIDE DEF tools, n
  <2> QED BY <1>1, <1>3, <1>4
<1>6. Added(args) = {}
  <2>1. \A i \in Before(args) : args[i] # "with" /\ args[i] # "with=exact" /\ args[i] # "with=floating"
    BY DEF Understood
  <2> QED BY <2>1 DEF Added, ValuesOf
<1>7. ASSUME p \in tools
      PROVE  /\ {args[i] : i \in tools \cap {Min(tools \cup {n + 1})}} = {args[p]}
             /\ Before(args) = 1 .. p - 1
  <2>1. Min(tools) = p
    <3>1. Min(tools) <= p /\ p <= Min(tools) /\ p \in Nat /\ Min(tools) \in Nat
      BY <1>1, <1>2, <1>4, <1>7
    <3> HIDE DEF tools
    <3> QED BY <3>1
  <2> HIDE DEF tools, n
  <2>2. tools \cap {Min(tools \cup {n + 1})} = {p}
    BY <1>2, <1>7, <2>1
  <2> QED BY <1>3, <1>7, <2>1, <2>2
<1>8. ASSUME p \notin tools
      PROVE  p - 1 \in Before(args) /\ args[p - 1] = "flag"
  <2>1. p # 1 /\ args[p - 1] \in {"flag", "setting", "with"}
    BY <1>8 DEF Tools
  <2>2. p - 1 \in Before(args)
    <3>1. CASE tools = {}
      BY <1>1, <1>3, <2>1, <3>1
    <3>2. CASE tools # {}
      <4>1. p <= Min(tools) /\ Min(tools) \in Nat /\ p \in Nat
        BY <1>1, <1>2, <1>4, <3>2
      <4> HIDE DEF tools
      <4> QED BY <1>1, <1>3, <2>1, <3>2, <4>1
    <3> QED BY <3>1, <3>2
  <2> QED BY <2>1, <2>2 DEF Understood
<1> QED BY <1>5, <1>6, <1>7, <1>8

LEMMA NpxFetches ==
  ASSUME NEW args \in Seq(Tokens), NpxPinned(args), Understood(args)
  PROVE  Fetched(args) # {} /\ Fetched(args) \subseteq ExactTokens
<1> DEFINE n == Len(args)
           p == Min(Positional(args))
<1>1. n \in Nat /\ Positional(args) \in SUBSET (1 .. n) /\ Positional(args) # {}
      /\ Tools(args) \subseteq Positional(args)
  BY DEF NpxPinned, Positional, Tools
<1>2. /\ \A i \in 1 .. n : args[i] = "flag" => i < n /\ args[i + 1] = "exact"
      /\ \A i \in 1 .. n : args[i] # "flag=floating"
      /\ args[p] = "exact"
  BY DEF NpxPinned
<1>3. p \in Positional(args) /\ \A k \in Positional(args) : p <= k
  BY <1>1, FirstTool
<1> HIDE DEF p
<1>4. /\ Added(args) = {} /\ Before(args) \subseteq 1 .. n
      /\ p \in Tools(args) =>
            {args[i] : i \in Tools(args) \cap {Min(Tools(args) \cup {n + 1})}} = {args[p]}
      /\ p \notin Tools(args) => p - 1 \in Before(args) /\ args[p - 1] = "flag"
  BY <1>1, <1>3, TheTool
<1>5. Named(args) \subseteq ExactTokens
  BY <1>2, <1>4 DEF Named, ValuesOf, ExactTokens
<1>6. p \notin Tools(args) => Named(args) # {}
  <2>1. ASSUME p \notin Tools(args)
        PROVE  args[(p - 1) + 1] \in ValuesOf("flag", args)
    BY <1>2, <1>4, <2>1 DEF ValuesOf
  <2> QED BY <2>1 DEF Named
<1> QED BY <1>2, <1>4, <1>5, <1>6 DEF Fetched, ExactTokens

LEMMA UvxFetches ==
  ASSUME NEW args \in Seq(Tokens), UvxPinned(args), Understood(args)
  PROVE  Fetched(args) # {} /\ Fetched(args) \subseteq ExactTokens
<1> DEFINE n == Len(args)
           walked == {i \in Positional(args) : i = 1 \/ args[i - 1] # "flag"}
           p == Min(walked)
<1>1. n \in Nat /\ walked \in SUBSET (1 .. n) /\ Tools(args) \subseteq walked
  BY DEF Positional, Tools
<1>2. /\ walked # {} /\ args[p] = "exact"
      /\ \A i \in 1 .. p - 1 : args[i] # "flag=floating" /\ (args[i] = "flag" => args[i + 1] = "exact")
  BY DEF UvxPinned
<1>3. p \in walked /\ \A k \in walked : p <= k
  <2> HIDE DEF walked, n
  <2> QED BY <1>1, <1>2, FirstTool
<1>4. p \in Positional(args) /\ (p = 1 \/ args[p - 1] # "flag") /\ \A t \in Tools(args) : p <= t
  BY <1>1, <1>3
<1> HIDE DEF p, walked
<1>5. p \in Tools(args)
  <2>1. p \notin Tools(args) => args[p - 1] = "flag" /\ p # 1
    BY <1>4, TheTool DEF Tools
  <2> QED BY <1>4, <2>1
<1>6. /\ Added(args) = {} /\ Before(args) = 1 .. p - 1
      /\ {args[i] : i \in Tools(args) \cap {Min(Tools(args) \cup {n + 1})}} = {args[p]}
  BY <1>4, <1>5, TheTool
<1>7. Named(args) \subseteq ExactTokens
  BY <1>2, <1>6 DEF Named, ValuesOf, ExactTokens
<1> QED BY <1>2, <1>6, <1>7 DEF Fetched, ExactTokens

\* What cmd /c runs is a command line.
LEMMA UnwrappedTyped ==
  ASSUME NEW line \in CommandLine
  PROVE  Unwrapped(line).args \in Seq(Tokens)
<1>1. line.args \in Seq(Tokens)
  BY DEF CommandLine
<1>2. Len(line.args) >= 2 => SubSeq(line.args, 3, Len(line.args)) \in Seq(Tokens)
  BY <1>1
<1> QED BY <1>1, <1>2 DEF Unwrapped

\* A component by its id is one of the catalog's.
LEMMA ById ==
  ASSUME NEW c \in CatalogRecord, NEW id \in IdsOf(c)
  PROVE  /\ ComponentByID(c, id) \in ComponentRecord /\ ComponentByID(c, id).id = id
         /\ \E i \in 1 .. Len(c.components) : ComponentByID(c, id) = c.components[i]
<1> DEFINE places == {i \in 1 .. Len(c.components) : c.components[i].id = id}
           at == CHOOSE i \in 1 .. Len(c.components) :
                     c.components[i].id = id /\ \A j \in 1 .. i - 1 : c.components[j].id # id
<1>1. c.components \in Seq(ComponentRecord)
  BY DEF CatalogRecord
<1>2. places # {} /\ places \in SUBSET Nat
  BY DEF IdsOf
<1>3. PICK i \in places : \A j \in places : i <= j
  <2> HIDE DEF places
  <2> QED BY <1>2, Least
<1>4. \A j \in 1 .. i - 1 : c.components[j].id # id
  <2>1. \A j \in 1 .. i - 1 : j \in 1 .. Len(c.components) /\ ~(i <= j)
    BY <1>1, <1>3
  <2> QED BY <1>3, <2>1
<1>5. at \in 1 .. Len(c.components) /\ c.components[at].id = id
  BY <1>3, <1>4
<1>6. ComponentByID(c, id) = c.components[at]
  BY DEF ComponentByID
<1> HIDE DEF at
<1> QED BY <1>1, <1>5, <1>6

\* An accepted catalog pins what its routers download.
LEMMA AcceptedPins ==
  ASSUME NEW c \in CatalogRecord, Validate(c), NEW id \in IdsOf(c),
         ComponentByID(c, id).kind = "router", ComponentByID(c, id).tier # NoId,
         NEW k \in 1 .. Len(ComponentByID(c, id).router.lines),
         NEW run, run = Unwrapped(ComponentByID(c, id).router.lines[k]),
         run.program \in {"npx", "uvx"}, Understood(run.args)
  PROVE  Fetched(run.args) # {} /\ Fetched(run.args) \subseteq {"exact", "flag=exact"}
<1> DEFINE component == ComponentByID(c, id)
<1>1. PICK i \in 1 .. Len(c.components) : component = c.components[i]
  BY ById
<1>2. component \in ComponentRecord
  BY ById
<1>3. run.args \in Seq(Tokens)
  <2>1. component.router \in [lines : Seq(CommandLine), limits : STRING]
    BY <1>2 DEF ComponentRecord
  <2>2. component.router.lines[k] \in CommandLine
    BY <2>1
  <2> QED BY <2>2, UnwrappedTyped
<1>4. Locked(component)
  <2>1. ValidComponents(c)
    BY DEF Validate
  <2>2. c.components[i].tier # NoId => Locked(c.components[i])
    BY <2>1 DEF ValidComponents
  <2> QED BY <1>1, <2>2
<1>5. Pinned(component.router.lines[k])
  <2>1. component.kind = "router" /\ k \in 1 .. Len(component.router.lines)
    OBVIOUS
  <2> HIDE DEF component
  <2> QED BY <1>4, <2>1 DEF Locked
<1>6. NpxPinned(run.args) \/ UvxPinned(run.args)
  BY <1>5 DEF Pinned, AcquisitionPinned
<1> HIDE DEF component
<1> QED BY <1>3, <1>6, NpxFetches, UvxFetches DEF ExactTokens

-----------------------------------------------------------------------------
(* What a set of components needs.                                         *)

\* What a set needs contains it and the needs of its members.
LEMMA ClosureHolds ==
  ASSUME NEW needs, NEW S
  PROVE  /\ S \subseteq Closure(needs, S)
         /\ \A id \in DOMAIN needs : id \in Closure(needs, S) => needs[id] \subseteq Closure(needs, S)
<1> DEFINE Arrows == UNION {{id} \X needs[id] : id \in DOMAIN needs}
           Universe == S \cup {arrow[2] : arrow \in Arrows}
           Closed == {T \in SUBSET Universe :
                         S \subseteq T /\ \A arrow \in Arrows : arrow[1] \in T => arrow[2] \in T}
<1>1. Closure(needs, S) = {id \in Universe : \A T \in Closed : id \in T}
  BY DEF Closure
<1>2. S \subseteq Closure(needs, S)
  BY <1>1
<1>3. ASSUME NEW id \in DOMAIN needs, id \in Closure(needs, S), NEW need \in needs[id]
      PROVE  need \in Closure(needs, S)
  <2>1. <<id, need>> \in Arrows
    OBVIOUS
  <2>2. need \in Universe
    BY <2>1
  <2>3. ASSUME NEW T \in Closed PROVE need \in T
    <3>1. id \in T
      BY <1>1, <1>3
    <3>2. \A arrow \in Arrows : arrow[1] \in T => arrow[2] \in T
      OBVIOUS
    <3> HIDE DEF Arrows, Closed
    <3> QED BY <2>1, <3>1, <3>2
  <2> HIDE DEF Universe, Closed
  <2> QED BY <1>1, <2>2, <2>3
<1> QED BY <1>2, <1>3

\* And is the least set that does.
LEMMA ClosureLeast ==
  ASSUME NEW needs, NEW S, NEW T, S \subseteq T,
         \A id \in DOMAIN needs : id \in T => needs[id] \subseteq T
  PROVE  Closure(needs, S) \subseteq T
<1> DEFINE Arrows == UNION {{id} \X needs[id] : id \in DOMAIN needs}
           Universe == S \cup {arrow[2] : arrow \in Arrows}
           Closed == {U \in SUBSET Universe :
                         S \subseteq U /\ \A arrow \in Arrows : arrow[1] \in U => arrow[2] \in U}
           part == T \cap Universe
<1>1. Closure(needs, S) = {id \in Universe : \A U \in Closed : id \in U}
  BY DEF Closure
<1>2. S \subseteq part
  OBVIOUS
<1>3. ASSUME NEW arrow \in Arrows, arrow[1] \in part PROVE arrow[2] \in part
  <2>1. arrow[2] \in Universe
    OBVIOUS
  <2>2. PICK id \in DOMAIN needs : arrow \in {id} \X needs[id]
    OBVIOUS
  <2>3. arrow[1] = id /\ arrow[2] \in needs[id]
    BY <2>2
  <2>4. arrow[2] \in T
    BY <1>3, <2>3
  <2> QED BY <2>1, <2>4
<1>4. part \in Closed
  <2> HIDE DEF Arrows
  <2> QED BY <1>2, <1>3
<1> HIDE DEF Closed, Universe
<1> QED BY <1>1, <1>4

\* So more is needed of more.
LEMMA ClosureWithin ==
  ASSUME NEW needs, NEW S, NEW T, S \subseteq Closure(needs, T)
  PROVE  Closure(needs, S) \subseteq Closure(needs, T)
BY ClosureHolds, ClosureLeast

\* A part that needs nothing outside it needs nothing else than in the whole.
LEMMA ClosureOfPart ==
  ASSUME NEW needs, NEW part, DOMAIN part \subseteq DOMAIN needs,
         \A id \in DOMAIN part : part[id] \subseteq needs[id], NEW S
  PROVE  Closure(part, S) \subseteq Closure(needs, S)
<1>1. S \subseteq Closure(needs, S) /\ \A id \in DOMAIN part : id \in Closure(needs, S) => part[id] \subseteq Closure(needs, S)
  BY ClosureHolds
<1> QED BY <1>1, ClosureLeast

LEMMA AcyclicPart ==
  ASSUME NEW needs, NEW part, DOMAIN part \subseteq DOMAIN needs,
         \A id \in DOMAIN part : part[id] \subseteq needs[id], Acyclic(needs)
  PROVE  Acyclic(part)
<1> SUFFICES ASSUME NEW id \in DOMAIN part, id \in Closure(part, part[id])
             PROVE  FALSE
  BY DEF Acyclic
<1>1. id \in Closure(needs, part[id])
  BY ClosureOfPart
<1>2. part[id] \subseteq Closure(needs, needs[id])
  BY ClosureHolds
<1>3. id \in Closure(needs, needs[id])
  BY <1>1, <1>2, ClosureWithin
<1> QED BY <1>3 DEF Acyclic

\* Of components that need no component in a cycle, one needs none of the others.
LEMMA LastNeed ==
  ASSUME NEW needs, Acyclic(needs), NEW S, IsFiniteSet(S), S # {}, S \subseteq DOMAIN needs,
         \A id \in S : needs[id] \subseteq S
  PROVE  \E id \in S : needs[id] = {}
<1> DEFINE size(id) == Cardinality(Closure(needs, {id}))
           sizes == {size(id) : id \in S}
<1>1. ASSUME NEW id \in S PROVE Closure(needs, {id}) \subseteq S /\ IsFiniteSet(Closure(needs, {id})) /\ size(id) \in Nat
  <2>1. Closure(needs, {id}) \subseteq S
    BY ClosureLeast
  <2> QED BY <2>1, FS_Subset, FS_CardinalityType
<1>2. PICK n \in sizes : \A k \in sizes : n <= k
  <2>1. sizes \in SUBSET Nat /\ sizes # {}
    BY <1>1
  <2> HIDE DEF sizes
  <2> QED BY <2>1, Least
<1>3. PICK id \in S : n = size(id)
  OBVIOUS
<1>4. SUFFICES ASSUME needs[id] # {}
               PROVE  FALSE
  OBVIOUS
<1>5. PICK need \in needs[id] : TRUE
  BY <1>4
<1>6. need \in S
  OBVIOUS
<1>7. needs[id] \subseteq Closure(needs, needs[id]) /\ id \in Closure(needs, {id})
  BY ClosureHolds
<1>8. Closure(needs, {need}) \subseteq Closure(needs, needs[id])
  BY <1>7, ClosureWithin
<1>9. id \notin Closure(needs, {need})
  BY <1>8 DEF Acyclic
<1>10. needs[id] \subseteq Closure(needs, {id})
  BY <1>7, ClosureHolds
<1>11. Closure(needs, {need}) \subseteq Closure(needs, {id})
  BY <1>10, ClosureWithin
<1>12. size(need) < size(id)
  <2>1. size(need) <= size(id) /\ (size(id) = size(need) => Closure(needs, {id}) = Closure(needs, {need}))
    BY <1>1, <1>11, FS_Subset
  <2>2. size(need) \in Nat /\ size(id) \in Nat
    BY <1>1, <1>6
  <2> HIDE DEF size
  <2> QED BY <1>7, <1>9, <2>1, <2>2
<1>13. size(need) \in sizes /\ size(need) \in Nat /\ size(id) \in Nat
  BY <1>1, <1>6
<1>14. n <= size(need)
  BY <1>2, <1>13
<1> HIDE DEF size
<1> QED BY <1>3, <1>12, <1>13, <1>14

-----------------------------------------------------------------------------
(* The order of tiers and names.                                           *)

LEMMA IdsFinite ==
  ASSUME NEW c \in CatalogRecord
  PROVE  IsFiniteSet(IdsOf(c))
<1> DEFINE f == [i \in 1 .. Len(c.components) |-> c.components[i].id]
<1>1. c.components \in Seq(ComponentRecord)
  BY DEF CatalogRecord
<1>2. IsFiniteSet(1 .. Len(c.components))
  BY <1>1, FS_Interval
<1>3. f \in Surjection(1 .. Len(c.components), IdsOf(c))
  BY DEF Surjection, IdsOf
<1> HIDE DEF f
<1> QED BY <1>2, <1>3, FS_Surjection

\* The key of a component: three numbers, and no two components have the same.
Place(c, id) == CHOOSE i \in 1 .. Len(c.components) : c.components[i].id = id
LEMMA SortKeys ==
  ASSUME NEW c \in CatalogRecord
  PROVE  /\ \A id \in IdsOf(c) : /\ SortKey(c, id)[1] \in Int /\ SortKey(c, id)[2] \in Int /\ SortKey(c, id)[3] \in Int
                                 /\ SortKey(c, id)[3] = Place(c, id)
         /\ \A a, b \in IdsOf(c) : Place(c, a) = Place(c, b) => a = b
<1>1. ASSUME NEW id \in IdsOf(c)
      PROVE  Place(c, id) \in 1 .. Len(c.components) /\ c.components[Place(c, id)].id = id
  BY DEF IdsOf, Place
<1>2. ASSUME NEW id \in IdsOf(c)
      PROVE  /\ SortKey(c, id)[1] \in Int /\ SortKey(c, id)[2] \in Int /\ SortKey(c, id)[3] \in Int
             /\ SortKey(c, id)[3] = Place(c, id)
  <2>1. ComponentByID(c, id) \in ComponentRecord
    BY ById
  <2>2. ComponentByID(c, id).name \in Int
    BY <2>1 DEF ComponentRecord
  <2>3. \A tier : TierRank(tier) \in Int
    <3>1. TAKE tier
    <3>2. CASE tier \in Range(Tiers)
      <4>1. \E i \in 1 .. 4 : Tiers[i] = tier
        BY <3>2 DEF Range, Tiers
      <4> QED BY <3>2, <4>1 DEF TierRank
    <3>3. CASE tier \notin Range(Tiers)
      BY <3>3 DEF TierRank
    <3> QED BY <3>2, <3>3
  <2>4. SortKey(c, id) = <<TierRank(ComponentByID(c, id).tier), ComponentByID(c, id).name, Place(c, id)>>
    BY DEF SortKey, Place
  <2> QED BY <1>1, <2>2, <2>3, <2>4
<1> QED BY <1>1, <1>2

\* The order is strict, and total.
LEMMA SortsStrictly ==
  ASSUME NEW c \in CatalogRecord
  PROVE  /\ \A a \in IdsOf(c) : ~SortsBefore(c, a, a)
         /\ \A a, b \in IdsOf(c) : a = b \/ SortsBefore(c, a, b) \/ SortsBefore(c, b, a)
         /\ \A a, b, d \in IdsOf(c) : SortsBefore(c, a, b) /\ SortsBefore(c, b, d) => SortsBefore(c, a, d)
<1> DEFINE k1(id) == SortKey(c, id)[1]
           k2(id) == SortKey(c, id)[2]
           k3(id) == SortKey(c, id)[3]
<1>1. ASSUME NEW a \in IdsOf(c), NEW b \in IdsOf(c)
      PROVE  SortsBefore(c, a, b) <=> \/ k1(a) < k1(b)
                                      \/ k1(a) = k1(b) /\ k2(a) < k2(b)
                                      \/ k1(a) = k1(b) /\ k2(a) = k2(b) /\ k3(a) < k3(b)
  <2>1. SortsBefore(c, a, b) <=> \E i \in {1, 2, 3} :
            SortKey(c, a)[i] < SortKey(c, b)[i] /\ \A j \in 1 .. i - 1 : SortKey(c, a)[j] = SortKey(c, b)[j]
    <3>1. 1 .. 3 = {1, 2, 3}
      OBVIOUS
    <3> QED BY <3>1 DEF SortsBefore
  <2>2. 1 .. (1 - 1) = {} /\ 1 .. (2 - 1) = {1} /\ 1 .. (3 - 1) = {1, 2}
    OBVIOUS
  <2> QED BY <2>1, <2>2
<1>2. \A id \in IdsOf(c) : k1(id) \in Int /\ k2(id) \in Int /\ k3(id) \in Int
  BY SortKeys
<1>3. \A a, b \in IdsOf(c) : k3(a) = k3(b) => a = b
  BY SortKeys
<1> HIDE DEF k1, k2, k3
<1>4. \A a \in IdsOf(c) : ~SortsBefore(c, a, a)
  BY <1>1, <1>2
<1>5. ASSUME NEW a \in IdsOf(c), NEW b \in IdsOf(c)
      PROVE  a = b \/ SortsBefore(c, a, b) \/ SortsBefore(c, b, a)
  BY <1>1, <1>2, <1>3
<1>6. ASSUME NEW a \in IdsOf(c), NEW b \in IdsOf(c), NEW d \in IdsOf(c), SortsBefore(c, a, b), SortsBefore(c, b, d)
      PROVE  SortsBefore(c, a, d)
  BY <1>1, <1>2, <1>6
<1> QED BY <1>4, <1>5, <1>6

\* Of some components, one comes after all others.
LEMMA LastOne ==
  ASSUME NEW c \in CatalogRecord, NEW S \in SUBSET IdsOf(c), S # {}
  PROVE  \E a \in S : \A b \in S \ {a} : SortsBefore(c, b, a)
<1> DEFINE later(a) == {b \in S : SortsBefore(c, a, b)}
           counts == {Cardinality(later(a)) : a \in S}
<1>1. IsFiniteSet(S)
  BY IdsFinite, FS_Subset
<1>2. ASSUME NEW a \in S PROVE IsFiniteSet(later(a)) /\ Cardinality(later(a)) \in Nat
  BY <1>1, FS_Subset, FS_CardinalityType
<1>3. PICK n \in counts : \A k \in counts : n <= k
  <2>1. counts \in SUBSET Nat /\ counts # {}
    BY <1>2
  <2> HIDE DEF counts
  <2> QED BY <2>1, Least
<1>4. PICK a \in S : n = Cardinality(later(a))
  OBVIOUS
<1>5. ASSUME NEW b \in S, SortsBefore(c, a, b) PROVE FALSE
  <2>1. later(b) \subseteq later(a) /\ b \in later(a) /\ b \notin later(b)
    BY <1>5, SortsStrictly
  <2>2. Cardinality(later(b)) \in counts /\ Cardinality(later(b)) \in Nat /\ Cardinality(later(a)) \in Nat /\ IsFiniteSet(later(a))
    BY <1>2
  <2> HIDE DEF later, counts
  <2>3. Cardinality(later(b)) <= Cardinality(later(a)) /\ Cardinality(later(a)) # Cardinality(later(b))
    BY <2>1, <2>2, FS_Subset
  <2> QED BY <1>3, <1>4, <2>2, <2>3
<1> QED BY <1>5, SortsStrictly

Sorts(c, S, sorted) == \A i, j \in DOMAIN sorted : i < j => SortsBefore(c, sorted[i], sorted[j])

\* So some components can be put in order.
LEMMA SortableSets ==
  ASSUME NEW c \in CatalogRecord, NEW S \in SUBSET IdsOf(c)
  PROVE  \E sorted \in [1 .. Cardinality(S) -> S] : Sorts(c, S, sorted)
<1> DEFINE Sortable(T) == \E sorted \in [1 .. Cardinality(T) -> T] : Sorts(c, T, sorted)
           Sizes == {Cardinality(T) : T \in {U \in SUBSET IdsOf(c) : ~Sortable(U)}}
<1>1. ASSUME NEW T \in SUBSET IdsOf(c) PROVE IsFiniteSet(T) /\ Cardinality(T) \in Nat
  BY IdsFinite, FS_Subset, FS_CardinalityType
<1>2. SUFFICES ASSUME Sizes # {}
               PROVE  FALSE
  OBVIOUS
<1>3. PICK n \in Sizes : \A k \in Sizes : n <= k
  <2>1. Sizes \in SUBSET Nat
    BY <1>1
  <2> HIDE DEF Sizes
  <2> QED BY <1>2, <2>1, Least
<1>4. PICK T \in SUBSET IdsOf(c) : ~Sortable(T) /\ n = Cardinality(T)
  OBVIOUS
<1>5. n \in Nat
  BY <1>1, <1>4
<1>6. CASE T = {}
  <2>1. Cardinality(T) = 0
    BY <1>6, FS_EmptySet
  <2>2. [i \in 1 .. 0 |-> i] \in [1 .. Cardinality(T) -> T] /\ Sorts(c, T, [i \in 1 .. 0 |-> i])
    BY <2>1 DEF Sorts
  <2> QED BY <1>4, <2>2
<1>7. CASE T # {}
  <2>1. PICK last \in T : \A b \in T \ {last} : SortsBefore(c, b, last)
    BY <1>7, LastOne
  <2> DEFINE rest == T \ {last}
  <2>2. Cardinality(rest) = n - 1 /\ rest \in SUBSET IdsOf(c)
    BY <1>1, <1>4, FS_RemoveElement
  <2>3. n >= 1
    BY <1>1, <2>2, <1>5
  <2>4. Sortable(rest)
    <3>1. SUFFICES ASSUME ~Sortable(rest) PROVE FALSE
      OBVIOUS
    <3>2. Cardinality(rest) \in Sizes
      BY <2>2, <3>1
    <3>3. n <= n - 1
      BY <1>3, <2>2, <3>2
    <3> QED BY <1>5, <3>3
  <2>5. PICK before \in [1 .. n - 1 -> rest] : Sorts(c, rest, before)
    BY <2>2, <2>4
  <2> DEFINE sorted == [i \in 1 .. n |-> IF i = n THEN last ELSE before[i]]
  <2>6. \A i \in 1 .. n : i = n \/ i \in 1 .. n - 1
    BY <1>5
  <2>7. sorted \in [1 .. Cardinality(T) -> T]
    BY <1>4, <2>6
  <2>8. Sorts(c, T, sorted)
    <3>1. SUFFICES ASSUME NEW i \in 1 .. n, NEW j \in 1 .. n, i < j
                   PROVE  SortsBefore(c, sorted[i], sorted[j])
      BY DEF Sorts
    <3>2. i \in 1 .. n - 1 /\ i # n
      BY <1>5, <3>1
    <3>3. CASE j = n
      BY <2>1, <3>2, <3>3
    <3>4. CASE j # n
      <4>1. j \in 1 .. n - 1
        BY <1>5, <3>4
      <4> QED BY <2>5, <3>1, <3>2, <3>4, <4>1 DEF Sorts
    <3> QED BY <3>3, <3>4
  <2> QED BY <1>4, <2>7, <2>8
<1> QED BY <1>6, <1>7

\* SortedIds puts all of them in order.
LEMMA SortedAll ==
  ASSUME NEW c \in CatalogRecord, NEW S \in SUBSET IdsOf(c)
  PROVE  /\ SortedIds(c, S) \in [1 .. Cardinality(S) -> S]
         /\ Sorts(c, S, SortedIds(c, S))
         /\ Cardinality(S) \in Nat /\ IsFiniteSet(S)
         /\ Range(SortedIds(c, S)) = S
         /\ SortedIds(c, S) \in Seq(S) /\ Len(SortedIds(c, S)) = Cardinality(S)
<1> DEFINE n == Cardinality(S)
           sorted == SortedIds(c, S)
<1>1. IsFiniteSet(S) /\ n \in Nat
  BY IdsFinite, FS_Subset, FS_CardinalityType
<1>2. sorted \in [1 .. n -> S] /\ Sorts(c, S, sorted)
  <2>1. \E f \in [1 .. n -> S] : \A i, j \in DOMAIN f : i < j => SortsBefore(c, f[i], f[j])
    BY SortableSets DEF Sorts
  <2> QED BY <2>1 DEF SortedIds, Sorts
<1> HIDE DEF sorted, n
<1>3. \A i, j \in 1 .. n : i < j => sorted[i] # sorted[j]
  <2>1. SUFFICES ASSUME NEW i \in 1 .. n, NEW j \in 1 .. n, i < j
                 PROVE  sorted[i] # sorted[j]
    OBVIOUS
  <2>2. SortsBefore(c, sorted[i], sorted[j])
    BY <1>2, <2>1 DEF Sorts
  <2>3. sorted[i] \in IdsOf(c)
    BY <1>2
  <2> QED BY <2>2, <2>3, SortsStrictly
<1>4. \A i, j \in 1 .. n : sorted[i] = sorted[j] => i = j
  <2>1. \A i, j \in 1 .. n : i = j \/ i < j \/ j < i
    BY <1>1
  <2> QED BY <1>3, <2>1
<1>5. sorted \in Injection(1 .. n, S)
  BY <1>2, <1>4 DEF Injection, IsInjective
<1>6. Cardinality(1 .. n) = n
  BY <1>1, FS_Interval
<1>7. sorted \in Surjection(1 .. n, S)
  BY <1>1, <1>5, <1>6, FS_Injection DEF n
<1>8. Range(sorted) = S
  BY <1>2, <1>7 DEF Range, Surjection
<1>9. sorted \in Seq(S) /\ Len(sorted) = n
  BY <1>1, <1>2
<1> QED BY <1>1, <1>2, <1>8, <1>9 DEF sorted, n

-----------------------------------------------------------------------------
(* The order of a plan.                                                    *)

\* What a valid component needs are components, and not in a cycle.
LEMMA NeedsOfValid ==
  ASSUME NEW c \in CatalogRecord, ValidDependencies(c)
  PROVE  /\ Acyclic(Dependencies(c)) /\ DOMAIN Dependencies(c) = IdsOf(c)
         /\ \A id \in IdsOf(c) : /\ Dependencies(c)[id] = Range(ComponentByID(c, id).needs)
                                 /\ Dependencies(c)[id] \subseteq IdsOf(c)
                                 /\ ComponentByID(c, id).needs \in Seq(STRING)
<1>1. Acyclic(Dependencies(c)) /\ DOMAIN Dependencies(c) = IdsOf(c)
  BY DEF ValidDependencies, Dependencies
<1>2. ASSUME NEW id \in IdsOf(c)
      PROVE  /\ Dependencies(c)[id] = Range(ComponentByID(c, id).needs)
             /\ Dependencies(c)[id] \subseteq IdsOf(c)
             /\ ComponentByID(c, id).needs \in Seq(STRING)
  <2>1. Dependencies(c)[id] = Range(ComponentByID(c, id).needs)
    BY DEF Dependencies
  <2>2. PICK i \in 1 .. Len(c.components) : ComponentByID(c, id) = c.components[i]
    BY ById
  <2>3. Range(c.components[i].needs) \subseteq IdsOf(c)
    BY DEF ValidDependencies
  <2>4. ComponentByID(c, id).needs \in Seq(STRING)
    <3>1. ComponentByID(c, id) \in ComponentRecord
      BY ById
    <3> QED BY <3>1 DEF ComponentRecord
  <2> QED BY <2>1, <2>2, <2>3, <2>4
<1> QED BY <1>1, <1>2

\* What comes next needs nothing that is open, and the first open component needs it.
Fits(c, open, placed) ==
    /\ placed \in open
    /\ Dependencies(c)[placed] \cap open = {}
    /\ \E first \in open : /\ \A id \in open : id = first \/ SortsBefore(c, first, id)
                           /\ placed \in Closure(Dependencies(c), {first})
LEMMA NextFits ==
  ASSUME NEW c \in CatalogRecord, ValidDependencies(c), NEW S \in SUBSET IdsOf(c),
         NEW open \in SUBSET S, open # {}
  PROVE  Fits(c, open, NextVisited(c, SortedIds(c, S), open))
<1> DEFINE sorted == SortedIds(c, S)
           places == {i \in 1 .. Len(sorted) : sorted[i] \in open}
           first == sorted[Min(places)]
           needs(id) == ComponentByID(c, id).needs
           lacking(id) == {i \in 1 .. Len(needs(id)) : needs(id)[i] \in open}
           down == [id \in open |-> IF lacking(id) = {} THEN {} ELSE {needs(id)[Min(lacking(id))]}]
           chosen == NextVisited(c, sorted, open)
           deps == Dependencies(c)
<1>1. chosen = CHOOSE id \in Closure(down, {first}) : down[id] = {}
  BY DEF NextVisited
<1>2. first \in open /\ \A id \in open : id = first \/ SortsBefore(c, first, id)
  <2>1. /\ sorted \in [1 .. Len(sorted) -> S] /\ Range(sorted) = S /\ Len(sorted) \in Nat
        /\ Sorts(c, S, sorted)
    BY SortedAll
  <2> HIDE DEF sorted
  <2>2. places \in SUBSET Nat
    OBVIOUS
  <2>3. \A id \in open : \E i \in places : sorted[i] = id
    BY <2>1 DEF Range
  <2>4. places # {}
    BY <2>3
  <2>5. Min(places) \in places /\ \A k \in places : Min(places) <= k
    <3> HIDE DEF places
    <3> QED BY <2>2, <2>4, MinLeast
  <2>6. first \in open
    BY <2>5
  <2>7. ASSUME NEW id \in open PROVE id = first \/ SortsBefore(c, first, id)
    <3>1. PICK i \in places : sorted[i] = id
      BY <2>3
    <3>2. Min(places) <= i /\ i \in 1 .. Len(sorted) /\ Min(places) \in 1 .. Len(sorted)
      BY <2>5
    <3>3. Min(places) < i => SortsBefore(c, sorted[Min(places)], sorted[i])
      <4> HIDE DEF places
      <4> QED BY <2>1, <3>2 DEF Sorts
    <3>4. Min(places) = i \/ Min(places) < i
      <4> HIDE DEF places
      <4> QED BY <2>1, <3>2
    <3> QED BY <3>1, <3>3, <3>4
  <2> QED BY <2>6, <2>7
<1>3. /\ Acyclic(deps) /\ DOMAIN deps = IdsOf(c)
      /\ \A id \in IdsOf(c) : deps[id] = Range(needs(id)) /\ needs(id) \in Seq(STRING)
  BY NeedsOfValid
<1>4. ASSUME NEW id \in open
      PROVE  down[id] \subseteq deps[id] \cap open /\ (down[id] = {} => deps[id] \cap open = {})
  <2> DEFINE some == lacking(id)
  <2>1. some \in SUBSET Nat
    OBVIOUS
  <2>2. id \in IdsOf(c)
    OBVIOUS
  <2>3. down[id] = IF some = {} THEN {} ELSE {needs(id)[Min(some)]}
    OBVIOUS
  <2>4. some = {} => deps[id] \cap open = {}
    <3>1. some = {} => \A i \in 1 .. Len(needs(id)) : needs(id)[i] \notin open
      OBVIOUS
    <3>2. deps[id] = Range(needs(id)) /\ DOMAIN needs(id) = 1 .. Len(needs(id))
      BY <1>3, <2>2
    <3> HIDE DEF some, deps, needs
    <3> QED BY <3>1, <3>2 DEF Range
  <2>5. some # {} => Min(some) \in some
    <3> HIDE DEF some
    <3> QED BY <2>1, MinLeast
  <2>6. \A i \in some : needs(id)[i] \in deps[id] \cap open
    BY <1>3, <2>2 DEF Range
  <2> HIDE DEF some, down, deps, needs
  <2> QED BY <2>3, <2>4, <2>5, <2>6
<1>5. DOMAIN down = open
  OBVIOUS
<1> HIDE DEF first, sorted, down, chosen, deps
<1>6. Closure(down, {first}) \subseteq open
  BY <1>2, <1>4, <1>5, ClosureLeast
<1>7. {first} \subseteq Closure(down, {first}) /\ \A id \in DOMAIN down : id \in Closure(down, {first}) => down[id] \subseteq Closure(down, {first})
  BY ClosureHolds
<1>8. Acyclic(down)
  BY <1>3, <1>4, <1>5, AcyclicPart
<1>9. IsFiniteSet(Closure(down, {first}))
  BY <1>6, IdsFinite, FS_Subset
<1>10. \E id \in Closure(down, {first}) : down[id] = {}
  BY <1>5, <1>6, <1>7, <1>8, <1>9, LastNeed
<1>11. chosen \in Closure(down, {first}) /\ down[chosen] = {}
  BY <1>1, <1>10
<1>12. chosen \in Closure(deps, {first})
  <2>1. DOMAIN down \subseteq DOMAIN deps /\ \A id \in DOMAIN down : down[id] \subseteq deps[id]
    BY <1>3, <1>4, <1>5
  <2> QED BY <1>11, <2>1, ClosureOfPart
<1>13. chosen \in open /\ deps[chosen] \cap open = {}
  BY <1>4, <1>6, <1>11
<1> QED BY <1>2, <1>12, <1>13 DEF Fits, chosen, deps, sorted

\* Order of the planned components, as far as they have been visited.
VisitedUpTo(c, sorted) == CHOOSE visited : visited = [n \in 0 .. Len(sorted) |->
    IF n = 0 THEN <<>>
    ELSE LET done == visited[n - 1]
         IN  Append(done, NextVisited(c, sorted, Range(sorted) \ Range(done)))]
LEMMA VisitSteps ==
  ASSUME NEW c \in CatalogRecord, NEW sorted, Len(sorted) \in Nat
  PROVE  /\ OrderByDependencies(c, sorted) = VisitedUpTo(c, sorted)[Len(sorted)]
         /\ VisitedUpTo(c, sorted)[0] = <<>>
         /\ \A n \in 1 .. Len(sorted) : VisitedUpTo(c, sorted)[n] =
               Append(VisitedUpTo(c, sorted)[n - 1],
                      NextVisited(c, sorted, Range(sorted) \ Range(VisitedUpTo(c, sorted)[n - 1])))
<1> DEFINE N == Len(sorted)
           after(open) == NextVisited(c, sorted, open)
           W == {after(open) : open \in SUBSET Range(sorted)}
           g == [n \in 1 .. N |-> [done \in Seq(W) |-> Append(done, after(Range(sorted) \ Range(done)))]]
           Is(v) == v = [n \in 0 .. N |->
                IF n = 0 THEN <<>> ELSE LET done == v[n - 1] IN Append(done, after(Range(sorted) \ Range(done)))]
<1>1. OrderByDependencies(c, sorted) = VisitedUpTo(c, sorted)[N]
  BY DEF OrderByDependencies, VisitedUpTo
<1>2. g \in Steps(Seq(W), N)
  <2>1. \A done \in Seq(W) : after(Range(sorted) \ Range(done)) \in W
    OBVIOUS
  <2> HIDE DEF W, after
  <2> QED BY <2>1 DEF Steps
<1>3. PICK f \in [0 .. N -> Seq(W)] : f[0] = <<>> /\ \A n \in 1 .. N : f[n] = g[n][f[n - 1]]
  <2>1. <<>> \in Seq(W)
    OBVIOUS
  <2> HIDE DEF g, W
  <2>2. Followed(Seq(W), N, g, <<>>)
    BY <1>2, <2>1, Recursion
  <2> QED BY <2>2 DEF Followed
<1>4. Is(f)
  <2>1. \A n \in 1 .. N : n - 1 \in 0 .. N
    OBVIOUS
  <2>2. \A n \in 0 .. N : n # 0 => n \in 1 .. N
    OBVIOUS
  <2> HIDE DEF after, W
  <2>3. \A n \in 1 .. N : f[n] = Append(f[n - 1], after(Range(sorted) \ Range(f[n - 1])))
    BY <1>3, <2>1
  <2> HIDE DEF g
  <2> QED BY <1>3, <2>2, <2>3
<1>5. Is(VisitedUpTo(c, sorted))
  BY <1>4 DEF VisitedUpTo
<1> DEFINE V == VisitedUpTo(c, sorted)
<1>6. V[0] = <<>> /\ \A n \in 1 .. N : V[n] = Append(V[n - 1], after(Range(sorted) \ Range(V[n - 1])))
  <2>1. 0 \in 0 .. N /\ \A n \in 1 .. N : n \in 0 .. N /\ n # 0
    OBVIOUS
  <2> HIDE DEF after
  <2> QED BY <1>5, <2>1
<1> QED BY <1>1, <1>6

\* What is open when the i-th component of an order is placed.
OpenAt(S, order, i) == S \ {order[k] : k \in 1 .. i - 1}
Orders(c, S, order, n) ==
    order \in Seq(S) /\ Len(order) = n /\ \A i \in 1 .. n : Fits(c, OpenAt(S, order, i), order[i])

LEMMA OrderExtended ==
  ASSUME NEW c \in CatalogRecord, ValidDependencies(c), NEW S \in SUBSET IdsOf(c),
         NEW n \in Nat, n < Cardinality(S), NEW done, Orders(c, S, done, n)
  PROVE  Orders(c, S, Append(done, NextVisited(c, SortedIds(c, S), S \ Range(done))), n + 1)
<1> DEFINE open == S \ Range(done)
           following == NextVisited(c, SortedIds(c, S), open)
           order == Append(done, following)
<1>1. done \in Seq(S) /\ Len(done) = n /\ done \in [1 .. n -> S]
  BY DEF Orders
<1>2. open # {}
  <2>1. SUFFICES ASSUME S = Range(done) PROVE FALSE
    BY <1>1 DEF Range
  <2>2. done \in Surjection(1 .. n, S)
    BY <1>1, <2>1 DEF Surjection, Range
  <2>3. IsFiniteSet(1 .. n) /\ Cardinality(1 .. n) = n
    BY FS_Interval
  <2>4. Cardinality(S) <= n
    BY <2>2, <2>3, FS_Surjection
  <2>5. Cardinality(S) \in Nat
    BY SortedAll
  <2> QED BY <2>4, <2>5
<1>3. Fits(c, open, following)
  BY <1>2, NextFits
<1>4. following \in S
  BY <1>3 DEF Fits
<1> HIDE DEF following
<1>5. /\ order \in Seq(S) /\ Len(order) = n + 1 /\ order[n + 1] = following
      /\ \A i \in 1 .. n : order[i] = done[i]
  BY <1>1, <1>4
<1>6. open = OpenAt(S, order, n + 1)
  <2>1. (n + 1) - 1 = n
    OBVIOUS
  <2>2. Range(done) = {done[k] : k \in 1 .. n}
    BY <1>1 DEF Range
  <2>3. {done[k] : k \in 1 .. n} = {order[k] : k \in 1 .. n}
    BY <1>5
  <2> HIDE DEF order
  <2> QED BY <2>1, <2>2, <2>3 DEF OpenAt
<1>7. ASSUME NEW i \in 1 .. n PROVE OpenAt(S, done, i) = OpenAt(S, order, i)
  <2>1. \A k \in 1 .. i - 1 : order[k] = done[k]
    BY <1>5
  <2> HIDE DEF order
  <2> QED BY <2>1 DEF OpenAt
<1> HIDE DEF order, open
<1>8. ASSUME NEW i \in 1 .. n + 1 PROVE Fits(c, OpenAt(S, order, i), order[i])
  <2>1. CASE i = n + 1
    BY <1>3, <1>5, <1>6, <2>1
  <2>2. CASE i # n + 1
    <3>1. i \in 1 .. n
      BY <2>2
    <3> QED BY <1>5, <1>7, <3>1 DEF Orders
  <2> QED BY <2>1, <2>2
<1> QED BY <1>5, <1>8 DEF Orders, order, following, open

LEMMA OrderOfAll ==
  ASSUME NEW c \in CatalogRecord, ValidDependencies(c), NEW S \in SUBSET IdsOf(c)
  PROVE  Orders(c, S, OrderByDependencies(c, SortedIds(c, S)), Cardinality(S))
<1> DEFINE N == Cardinality(S)
           sorted == SortedIds(c, S)
           V == VisitedUpTo(c, sorted)
           Unordered == {n \in 0 .. N : ~Orders(c, S, V[n], n)}
<1>1. N \in Nat /\ Len(sorted) = N /\ Range(sorted) = S
  BY SortedAll
<1>2. /\ OrderByDependencies(c, sorted) = V[N]
      /\ V[0] = <<>>
      /\ \A n \in 1 .. N : V[n] = Append(V[n - 1], NextVisited(c, sorted, S \ Range(V[n - 1])))
  <2> HIDE DEF N, sorted
  <2>1. Len(sorted) \in Nat
    BY <1>1
  <2> QED BY <1>1, <2>1, VisitSteps
<1>3. SUFFICES ASSUME Unordered # {}
               PROVE  FALSE
  <2>1. N \notin Unordered /\ N \in 0 .. N
    BY <1>1, <1>3
  <2> QED BY <1>2, <2>1
<1> HIDE DEF V
<1>4. PICK n \in Unordered : \A k \in Unordered : n <= k
  <2>1. Unordered \in SUBSET Nat
    OBVIOUS
  <2> HIDE DEF Unordered
  <2> QED BY <1>3, <2>1, Least
<1>5. ~Orders(c, S, V[n], n) /\ n \in 0 .. N
  BY <1>4
<1>6. n # 0
  <2>1. <<>> \in Seq(S) /\ Len(<<>>) = 0 /\ 1 .. 0 = {}
    OBVIOUS
  <2>2. Orders(c, S, <<>>, 0)
    BY <2>1 DEF Orders
  <2> HIDE DEF Unordered
  <2> QED BY <1>2, <1>5, <2>2
<1>7. n - 1 \in 0 .. N /\ n \in 1 .. N /\ n - 1 < N /\ n - 1 \in Nat /\ (n - 1) + 1 = n
  <2> HIDE DEF N
  <2> QED BY <1>1, <1>5, <1>6
<1>8. n - 1 \notin Unordered
  <2> HIDE DEF Unordered, N
  <2> QED BY <1>1, <1>4, <1>5
<1>9. Orders(c, S, V[n - 1], n - 1)
  BY <1>7, <1>8
<1>10. Orders(c, S, Append(V[n - 1], NextVisited(c, sorted, S \ Range(V[n - 1]))), (n - 1) + 1)
  <2> HIDE DEF Unordered
  <2> QED BY <1>7, <1>9, OrderExtended
<1> QED BY <1>2, <1>5, <1>7, <1>10

\* So every component stands once in the order.
OnceEach(S, order) ==
    /\ order \in [1 .. Cardinality(S) -> S] /\ order \in Seq(S) /\ Len(order) = Cardinality(S)
    /\ \A i, j \in 1 .. Len(order) : order[i] = order[j] => i = j
    /\ \A id \in S : \E i \in 1 .. Len(order) : order[i] = id
LEMMA OrderedOnce ==
  ASSUME NEW c, NEW S, IsFiniteSet(S), NEW order, Orders(c, S, order, Cardinality(S))
  PROVE  OnceEach(S, order)
<1> DEFINE n == Cardinality(S)
<1>1. n \in Nat
  BY FS_CardinalityType
<1>2. order \in [1 .. n -> S] /\ order \in Seq(S) /\ Len(order) = n
  BY DEF Orders
<1> HIDE DEF n
<1>3. \A i, j \in 1 .. n : i < j => order[i] # order[j]
  <2>1. SUFFICES ASSUME NEW i \in 1 .. n, NEW j \in 1 .. n, i < j
                 PROVE  order[i] # order[j]
    OBVIOUS
  <2>2. order[j] \in OpenAt(S, order, j)
    BY DEF Orders, Fits, n
  <2>3. i \in 1 .. j - 1
    BY <1>1, <2>1
  <2> QED BY <2>2, <2>3 DEF OpenAt
<1>4. \A i, j \in 1 .. n : order[i] = order[j] => i = j
  <2>1. \A i, j \in 1 .. n : i = j \/ i < j \/ j < i
    BY <1>1
  <2> QED BY <1>3, <2>1
<1>5. order \in Injection(1 .. n, S)
  BY <1>2, <1>4 DEF Injection, IsInjective
<1>6. Cardinality(1 .. n) = n
  BY <1>1, FS_Interval
<1>7. order \in Surjection(1 .. n, S)
  BY <1>1, <1>5, <1>6, FS_Injection DEF n
<1>8. \A id \in S : \E i \in 1 .. n : order[i] = id
  BY <1>2, <1>7 DEF Surjection
<1> QED BY <1>2, <1>4, <1>8 DEF n, OnceEach

-----------------------------------------------------------------------------
(* Plans.                                                                  *)

Selected(c, request) == Expand(c, Requested(c, request))
Plannable(c, selected) ==
    selected \subseteq IdsOf(c) /\ \A id \in selected : Dependencies(c)[id] \subseteq selected

\* What a request that is not refused selects.
LEMMA RequestResolved ==
  ASSUME NEW c \in CatalogRecord, Validate(c), NEW request, Refusal(c, request) = "none"
  PROVE  Plannable(c, Selected(c, request))
<1> DEFINE profiles == {c.profiles[i].id : i \in 1 .. Len(c.profiles)}
           chosen == Requested(c, request)
<1>1. request.profile \in profiles /\ request.include \cup request.exclude \subseteq IdsOf(c)
  BY DEF Refusal
<1>2. \A o \in request.overrides : o[2] \in IdsOf(c)
  BY DEF Refusal
<1>3. Range(ProfileByID(c, request.profile).components) \subseteq IdsOf(c)
  <2>1. ValidProfiles(c)
    BY DEF Validate
  <2>2. \A i \in 1 .. Len(c.profiles) : Range(c.profiles[i].components) \subseteq IdsOf(c)
    BY <2>1 DEF ValidProfiles
  <2>3. PICK i \in 1 .. Len(c.profiles) : ProfileByID(c, request.profile) = c.profiles[i]
    BY <1>1 DEF ProfileByID
  <2> QED BY <2>2, <2>3
<1>4. chosen \subseteq IdsOf(c)
  BY <1>1, <1>2, <1>3 DEF Requested
<1>5. ValidDependencies(c)
  BY DEF Validate
<1>6. /\ DOMAIN Dependencies(c) = IdsOf(c)
      /\ \A id \in IdsOf(c) : Dependencies(c)[id] \subseteq IdsOf(c)
  BY <1>5, NeedsOfValid
<1>7. Closure(Dependencies(c), chosen) \subseteq IdsOf(c)
  <2> HIDE DEF chosen
  <2> QED BY <1>4, <1>6, ClosureLeast
<1>8. \A id \in IdsOf(c) : id \in Closure(Dependencies(c), chosen) =>
          Dependencies(c)[id] \subseteq Closure(Dependencies(c), chosen)
  <2> HIDE DEF chosen
  <2> QED BY <1>6, ClosureHolds
<1> QED BY <1>7, <1>8 DEF Plannable, Selected, Expand

\* What Build answers: a plan of what was requested, or a refusal that is not about the catalog.
LEMMA BuildAnswers ==
  ASSUME NEW c \in CatalogRecord, Validate(c), NEW items, NEW request
  PROVE  /\ Build(c, items, request).error \notin {"missing", "cycle"}
         /\ \/ /\ Build(c, items, request).error # "none" /\ Build(c, items, request).actions = <<>>
               /\ \/ Refusal(c, request) # "none" \/ Selected(c, request) \cap request.exclude # {}
                  \/ Ambiguous(c, request, Selected(c, request))
            \/ /\ Build(c, items, request) = PlanOf(c, items, request, Selected(c, request))
               /\ Build(c, items, request).error = "none"
               /\ Plannable(c, Selected(c, request))
               /\ Selected(c, request) \cap request.exclude = {}
               /\ Refusal(c, request) = "none"
               /\ ~Ambiguous(c, request, Selected(c, request))
<1> DEFINE selected == Selected(c, request)
           made == Build(c, items, request)
<1>1. CASE Refusal(c, request) # "none"
  <2>1. Refusal(c, request) \in {"profile", "component", "excluded", "provider"}
    BY <1>1 DEF Refusal
  <2>2. made = Refused(Refusal(c, request))
    BY <1>1 DEF Build
  <2> HIDE DEF made
  <2> QED BY <1>1, <2>1, <2>2 DEF Refused, made
<1>2. CASE Refusal(c, request) = "none"
  <2>1. Plannable(c, selected)
    BY <1>2, RequestResolved
  <2>2. Acyclic([id \in selected |-> Dependencies(c)[id]])
    <3>1. Acyclic(Dependencies(c)) /\ DOMAIN Dependencies(c) = IdsOf(c)
      BY NeedsOfValid DEF Validate
    <3> DEFINE part == [id \in selected |-> Dependencies(c)[id]]
    <3>2. DOMAIN part \subseteq DOMAIN Dependencies(c) /\ \A id \in DOMAIN part : part[id] \subseteq Dependencies(c)[id]
      BY <2>1, <3>1 DEF Plannable
    <3> HIDE DEF part
    <3>3. Acyclic(part)
      BY <3>1, <3>2, AcyclicPart
    <3> QED BY <3>3 DEF part
  <2>3. made = IF selected \cap request.exclude # {} THEN Refused("excluded")
               ELSE IF Ambiguous(c, request, selected) THEN Refused("ambiguous")
               ELSE PlanOf(c, items, request, selected)
    BY <1>2, <2>1, <2>2 DEF Build, Selected, Plannable
  <2>4. PlanOf(c, items, request, selected).error = "none"
    BY DEF PlanOf
  <2> HIDE DEF made, selected
  <2>5. CASE selected \cap request.exclude # {}
    BY <2>3, <2>5 DEF Refused, made, selected
  <2>6. CASE selected \cap request.exclude = {} /\ Ambiguous(c, request, selected)
    BY <2>3, <2>6 DEF Refused, made, selected
  <2>7. CASE selected \cap request.exclude = {} /\ ~Ambiguous(c, request, selected)
    <3>1. made = PlanOf(c, items, request, selected)
      BY <2>3, <2>7
    <3> QED BY <1>2, <2>1, <2>4, <2>7, <3>1 DEF made, selected
  <2> QED BY <2>5, <2>6, <2>7
<1> QED BY <1>1, <1>2

\* The actions of a plan: what is selected, in order.
KindPlanned(c, items, request, selected, id) ==
    ActionKind(ComponentByID(c, id), items[id], request, Active(c, request, selected))
LEMMA PlanActions ==
  ASSUME NEW c \in CatalogRecord, ValidDependencies(c), NEW items, NEW request,
         NEW selected, selected \subseteq IdsOf(c)
  PROVE  LET made == PlanOf(c, items, request, selected)
             order == OrderByDependencies(c, SortedIds(c, selected))
         IN  /\ Orders(c, selected, order, Cardinality(selected))
             /\ made.providers = Active(c, request, selected)
             /\ Len(made.actions) = Cardinality(selected) /\ Len(made.actions) \in Nat
             /\ \A i \in 1 .. Len(made.actions) : made.actions[i].id = order[i] /\ made.actions[i].id \in selected
             /\ \A i \in 1 .. Len(made.actions) :
                   made.actions[i].kind = KindPlanned(c, items, request, selected, made.actions[i].id)
             /\ \A i, j \in 1 .. Len(made.actions) : made.actions[i].id = made.actions[j].id => i = j
             /\ PlannedIds(made) = selected
             /\ \A id \in selected : KindIn(made, id) = KindPlanned(c, items, request, selected, id)
<1> DEFINE made == PlanOf(c, items, request, selected)
           order == OrderByDependencies(c, SortedIds(c, selected))
           active == Active(c, request, selected)
           n == Cardinality(selected)
<1>1. Orders(c, selected, order, n)
  BY OrderOfAll
<1>2. IsFiniteSet(selected) /\ n \in Nat
  BY IdsFinite, FS_Subset, FS_CardinalityType
<1>3. /\ order \in [1 .. n -> selected] /\ Len(order) = n
      /\ \A i, j \in 1 .. Len(order) : order[i] = order[j] => i = j
      /\ \A id \in selected : \E i \in 1 .. Len(order) : order[i] = id
  <2> HIDE DEF order
  <2>1. OnceEach(selected, order)
    BY <1>1, <1>2, OrderedOnce
  <2> QED BY <2>1 DEF OnceEach
<1>4. /\ made.providers = active
      /\ made.actions = [i \in 1 .. n |-> [id |-> order[i],
             kind |-> ActionKind(ComponentByID(c, order[i]), items[order[i]], request, active)]]
  BY <1>3 DEF PlanOf
<1> HIDE DEF made, order, n, active
<1>5. Len(made.actions) = n
  BY <1>2, <1>4
<1>6. \A i \in 1 .. n : /\ made.actions[i].id = order[i] /\ order[i] \in selected
                        /\ made.actions[i].kind = KindPlanned(c, items, request, selected, order[i])
  BY <1>3, <1>4 DEF KindPlanned, active
<1>7. PlannedIds(made) = selected
  BY <1>3, <1>5, <1>6 DEF PlannedIds
<1>8. ASSUME NEW id \in selected
      PROVE  KindIn(made, id) = KindPlanned(c, items, request, selected, id)
  <2>1. \E i \in 1 .. Len(made.actions) : made.actions[i].id = id
    BY <1>3, <1>5, <1>6
  <2> DEFINE at == CHOOSE i \in 1 .. Len(made.actions) : made.actions[i].id = id
  <2>2. at \in 1 .. n /\ made.actions[at].id = id
    BY <1>5, <2>1
  <2>3. KindIn(made, id) = made.actions[at].kind
    BY DEF KindIn
  <2> HIDE DEF at
  <2> QED BY <1>6, <2>2, <2>3
<1> QED BY <1>1, <1>2, <1>3, <1>4, <1>5, <1>6, <1>7, <1>8 DEF made, order, n, active

\* What stands at each place of a plan that follows an order of a closed set.
LEMMA PlacesSound ==
  ASSUME NEW c \in CatalogRecord, ValidDependencies(c), NEW S, Plannable(c, S),
         NEW made, NEW order, Orders(c, S, order, Cardinality(S)), Len(made.actions) = Cardinality(S),
         \A i \in 1 .. Len(made.actions) : made.actions[i].id = order[i]
  PROVE  Ordered(c, made) /\ TierOrderJustified(c, made)
<1> DEFINE n == Len(made.actions)
           at(i) == made.actions[i].id
<1>1. IsFiniteSet(S) /\ n \in Nat /\ S \subseteq IdsOf(c)
  BY IdsFinite, FS_Subset, FS_CardinalityType DEF Plannable
<1>2. OnceEach(S, order)
  BY <1>1, OrderedOnce
<1>3. \A i \in 1 .. n : Fits(c, OpenAt(S, order, i), order[i]) /\ at(i) = order[i] /\ at(i) \in S
  BY <1>2 DEF Orders, OnceEach
<1>4. \A id \in S : \E i \in 1 .. n : at(i) = id
  BY <1>2, <1>3 DEF OnceEach
<1>5. \A i, j \in 1 .. n : at(i) = at(j) => i = j
  BY <1>2, <1>3 DEF OnceEach
<1>6. \A i \in 1 .. n : \A id \in S : id \in OpenAt(S, order, i) <=> \A k \in 1 .. i - 1 : at(k) # id
  <2>1. TAKE i \in 1 .. n
  <2>2. \A k \in 1 .. i - 1 : k \in 1 .. n
    BY <1>1
  <2> HIDE DEF n, at
  <2> QED BY <1>3, <2>2 DEF OpenAt
<1>7. Ordered(c, made)
  <2>1. SUFFICES ASSUME NEW i \in 1 .. n, NEW need \in Range(ComponentByID(c, at(i)).needs)
                 PROVE  \E j \in 1 .. i - 1 : at(j) = need
    BY DEF Ordered
  <2>2. at(i) \in IdsOf(c) /\ need \in Dependencies(c)[at(i)]
    BY <1>1, <1>3, <2>1, NeedsOfValid
  <2>3. need \in S /\ need \notin OpenAt(S, order, i)
    BY <1>3, <2>2 DEF Plannable, Fits
  <2> HIDE DEF at, n
  <2> QED BY <1>6, <2>3
<1>8. TierOrderJustified(c, made)
  <2>1. SUFFICES ASSUME NEW i \in 1 .. n, NEW j \in 1 .. n, i < j, SortsBefore(c, at(j), at(i))
                 PROVE  \E k \in i + 1 .. n : /\ ~SortsBefore(c, at(j), at(k))
                                              /\ at(i) \in Closure(Dependencies(c), {at(k)})
    BY DEF TierOrderJustified
  <2> HIDE DEF at, n
  <2>2. at(i) \in OpenAt(S, order, i) /\ at(j) \in OpenAt(S, order, i)
    <3>1. \A k \in 1 .. i - 1 : k \in 1 .. n /\ k # i /\ k # j
      BY <1>1, <2>1
    <3> QED BY <1>3, <1>5, <1>6, <3>1
  <2>3. PICK first \in OpenAt(S, order, i) :
            /\ \A id \in OpenAt(S, order, i) : id = first \/ SortsBefore(c, first, id)
            /\ at(i) \in Closure(Dependencies(c), {first})
    <3>1. Fits(c, OpenAt(S, order, i), at(i))
      BY <1>3
    <3> QED BY <3>1 DEF Fits
  <2>4. first \in S
    BY DEF OpenAt
  <2>5. PICK k \in 1 .. n : at(k) = first
    BY <1>4, <2>4
  <2>6. \A id \in S : id \in IdsOf(c)
    BY <1>1
  <2>7. first # at(i)
    <3>1. first = at(j) \/ SortsBefore(c, first, at(j))
      BY <2>2, <2>3
    <3> QED BY <1>3, <2>1, <2>4, <2>6, <3>1, SortsStrictly
  <2>8. ~SortsBefore(c, at(j), first)
    <3>1. first = at(j) \/ SortsBefore(c, first, at(j))
      BY <2>2, <2>3
    <3> QED BY <1>3, <2>4, <2>6, <3>1, SortsStrictly
  <2>9. k \in i + 1 .. n
    <3>1. k # i
      BY <2>5, <2>7
    <3>2. ~(k < i)
      <4>1. SUFFICES ASSUME k < i PROVE FALSE
        OBVIOUS
      <4>2. k \in 1 .. i - 1
        BY <1>1, <4>1
      <4> QED BY <1>6, <2>3, <2>4, <2>5, <4>2
    <3> QED BY <1>1, <3>1, <3>2
  <2> QED BY <2>3, <2>5, <2>8, <2>9
<1> QED BY <1>7, <1>8

\* The provider of a capability.
LEMMA ProviderPlanned ==
  ASSUME NEW c \in CatalogRecord, ValidComponents(c), NEW request, NEW selected, selected \subseteq IdsOf(c),
         NEW capability \in Capabilities(c)
  PROVE  LET provider == Active(c, request, selected)[capability]
         IN  /\ provider # NoId => provider \in selected
             /\ Providing(c, capability, selected) # {} => provider # NoId
<1>1. NoId \notin IdsOf(c)
  BY DEF ValidComponents, IdsOf
<1> DEFINE provider == Active(c, request, selected)[capability]
           candidates == Providing(c, capability, selected)
<1>2. provider = IF Proposed(c, request, capability) \in selected THEN Proposed(c, request, capability)
                 ELSE IF candidates # {} THEN CHOOSE id \in candidates : TRUE
                 ELSE NoId
  BY DEF Active, ActiveProvider
<1>3. candidates \subseteq selected
  BY DEF Providing
<1> HIDE DEF provider, candidates
<1>4. provider # NoId => provider \in selected
  BY <1>2, <1>3
<1>5. candidates # {} => provider \in selected
  BY <1>2, <1>3
<1> QED BY <1>1, <1>4, <1>5 DEF provider, candidates

Promises(c, made, request) ==
    /\ made.error \notin {"missing", "cycle"}
    /\ made.error = "none" =>
          /\ Ordered(c, made) /\ TierOrderJustified(c, made)
          /\ OneProvider(c, made) /\ ProvidersPlanned(c, made)
          /\ PlannedIds(made) \cap request.exclude = {}

\* Every plan of an accepted catalog keeps its promises.
LEMMA BuildSound ==
  ASSUME NEW c \in CatalogRecord, Validate(c), NEW items, NEW request
  PROVE  Promises(c, Build(c, items, request), request)
<1> DEFINE made == Build(c, items, request)
           selected == Selected(c, request)
           order == OrderByDependencies(c, SortedIds(c, selected))
<1>1. made.error \notin {"missing", "cycle"}
  BY BuildAnswers
<1>2. SUFFICES ASSUME made.error = "none"
               PROVE  /\ Ordered(c, made) /\ TierOrderJustified(c, made)
                      /\ OneProvider(c, made) /\ ProvidersPlanned(c, made)
                      /\ PlannedIds(made) \cap request.exclude = {}
  BY <1>1 DEF Promises
<1>3. /\ made = PlanOf(c, items, request, selected)
      /\ Plannable(c, selected)
      /\ selected \cap request.exclude = {}
  BY <1>2, BuildAnswers
<1>4. ValidDependencies(c) /\ ValidComponents(c)
  BY DEF Validate
<1>5. selected \subseteq IdsOf(c)
  BY <1>3 DEF Plannable
<1>6. /\ Orders(c, selected, order, Cardinality(selected))
      /\ made.providers = Active(c, request, selected)
      /\ Len(made.actions) = Cardinality(selected)
      /\ \A i \in 1 .. Len(made.actions) : made.actions[i].id = order[i]
      /\ PlannedIds(made) = selected
      /\ \A id \in selected : KindIn(made, id) = KindPlanned(c, items, request, selected, id)
  <2> HIDE DEF made, selected
  <2> QED BY <1>3, <1>4, <1>5, PlanActions
<1> HIDE DEF made, order, selected
<1>7. Ordered(c, made) /\ TierOrderJustified(c, made)
  BY <1>3, <1>4, <1>6, PlacesSound
<1>8. ASSUME NEW capability \in Capabilities(c)
      PROVE  LET used == {id \in Providing(c, capability, PlannedIds(made)) :
                              KindIn(made, id) \in {"install", "repair", "configure", "keep", "skip"}}
             IN  used \subseteq {made.providers[capability]}
  <2>1. SUFFICES ASSUME NEW id \in Providing(c, capability, selected),
                        KindIn(made, id) \in {"install", "repair", "configure", "keep", "skip"}
                 PROVE  id = made.providers[capability]
    BY <1>6
  <2>2. id \in selected /\ ComponentByID(c, id).capability = capability /\ capability # NoId
    BY DEF Providing, Capabilities
  <2>3. ComponentByID(c, id).id = id
    BY <1>5, <2>2, ById
  <2> DEFINE active == Active(c, request, selected)
             component == ComponentByID(c, id)
  <2>4. ActionKind(component, items[id], request, active) \in {"install", "repair", "configure", "keep", "skip"}
    BY <1>6, <2>1, <2>2 DEF KindPlanned
  <2>5. active[component.capability] \in {NoId, component.id}
    <3> HIDE DEF active, component
    <3>1. SUFFICES ASSUME active[component.capability] \notin {NoId, component.id} PROVE FALSE
      OBVIOUS
    <3>2. component.capability # NoId
      BY <2>2 DEF component
    <3>3. ActionKind(component, items[id], request, active) \in {"consent-required", "preserve-inactive", "skip-dominated"}
      BY <3>1, <3>2 DEF ActionKind
    <3> QED BY <2>4, <3>3
  <2>6. active[capability] # NoId
    BY <1>4, <1>5, <2>1, ProviderPlanned
  <2> QED BY <1>6, <2>2, <2>3, <2>5, <2>6
<1>9. OneProvider(c, made)
  BY <1>8 DEF OneProvider
<1>10. ProvidersPlanned(c, made)
  BY <1>4, <1>5, <1>6, ProviderPlanned DEF ProvidersPlanned
<1> QED BY <1>3, <1>6, <1>7, <1>9, <1>10

\* Whether there is a plan does not depend on the inventory.
LEMMA PlanAgain ==
  ASSUME NEW c \in CatalogRecord, Validate(c), NEW request, NEW before, NEW now,
         Build(c, before, request).error = "none"
  PROVE  Build(c, now, request).error = "none"
BY BuildAnswers

\* The components a plan has, and what it does with each.
LEMMA PlanKinds ==
  ASSUME NEW c \in CatalogRecord, Validate(c), NEW request, NEW items
  PROVE  LET made == Build(c, items, request) IN
         /\ PlannedIds(made) \subseteq IdsOf(c) /\ Len(made.actions) \in Nat
         /\ \A i \in 1 .. Len(made.actions) :
               /\ made.actions[i].id \in PlannedIds(made)
               /\ made.actions[i].kind = KindIn(made, made.actions[i].id)
         /\ made.error = "none" =>
               /\ PlannedIds(made) = Selected(c, request)
               /\ \A id \in PlannedIds(made) :
                     KindIn(made, id) = KindPlanned(c, items, request, Selected(c, request), id)
<1> DEFINE made == Build(c, items, request)
           selected == Selected(c, request)
<1>1. CASE made.error # "none"
  <2>1. made.actions = <<>>
    BY <1>1, BuildAnswers
  <2> HIDE DEF made
  <2>2. PlannedIds(made) = {} /\ Len(made.actions) = 0
    BY <2>1 DEF PlannedIds
  <2> QED BY <1>1, <2>2 DEF made
<1>2. CASE made.error = "none"
  <2>1. made = PlanOf(c, items, request, selected) /\ selected \subseteq IdsOf(c)
    BY <1>2, BuildAnswers DEF Plannable
  <2>2. ValidDependencies(c)
    BY DEF Validate
  <2> HIDE DEF made, selected
  <2>3. /\ Len(made.actions) \in Nat
        /\ \A i \in 1 .. Len(made.actions) :
              /\ made.actions[i].id \in selected
              /\ made.actions[i].kind = KindPlanned(c, items, request, selected, made.actions[i].id)
        /\ PlannedIds(made) = selected
        /\ \A id \in selected : KindIn(made, id) = KindPlanned(c, items, request, selected, id)
    BY <2>1, <2>2, PlanActions
  <2> QED BY <2>1, <2>3 DEF made, selected
<1> QED BY <1>1, <1>2

-----------------------------------------------------------------------------
(* What the actions of a plan leave.                                       *)

Machines ==
    [version : [Ids -> VersionText], skills : [Ids -> SUBSET Directory],
     added : [Ids -> SUBSET Directory], failed : SUBSET Ids]

\* Only skill packs are copied.
CopiesSkills(m) == \A id \in Ids : m.added[id] # {} => C(id).kind = "skill-pack"

LEMMA MachineParts ==
  ASSUME NEW m \in Machines
  PROVE  /\ m.version \in [Ids -> VersionText] /\ m.skills \in [Ids -> SUBSET Directory]
         /\ m.added \in [Ids -> SUBSET Directory] /\ m.failed \in SUBSET Ids
         /\ DOMAIN m = {"version", "skills", "added", "failed"}
  BY DEF Machines

\* One of its parts written.
LEMMA MachineWritten ==
  ASSUME NEW m \in Machines, NEW v \in [Ids -> VersionText], NEW s \in [Ids -> SUBSET Directory],
         NEW a \in [Ids -> SUBSET Directory], NEW f \in SUBSET Ids
  PROVE  /\ [m EXCEPT !.version = v] \in Machines
         /\ [m EXCEPT !.failed = f] \in Machines
         /\ [m EXCEPT !.skills = s, !.added = a] \in Machines
  BY DEF Machines

Touches(m, n, action) == \A id \in Ids :
    (id # action.id \/ ~Acts(action.kind)) =>
        n.version[id] = m.version[id] /\ n.skills[id] = m.skills[id]

\* What one action may change.
LEMMA ActionPerformed ==
  ASSUME NEW m \in Machines, CopiesSkills(m), catalog \in CatalogRecord,
         NEW action, action.id \in Ids, NEW broken, NEW left \in SUBSET Directory
  PROVE  /\ PerformAction(m, action, broken, left) \in Machines
         /\ CopiesSkills(PerformAction(m, action, broken, left))
         /\ Touches(m, PerformAction(m, action, broken, left), action)
<1> DEFINE id == action.id
           component == C(id)
           Sound(n) == n \in Machines /\ CopiesSkills(n) /\ Touches(m, n, action)
           Failed(n) == [n EXCEPT !.failed = @ \cup {id}]
           done == [m EXCEPT !.version[id] = component.locked]
           copied(S) == [m EXCEPT !.skills[id] = @ \cup S, !.added[id] = S \ m.skills[id]]
<1>1. component \in ComponentRecord /\ component.locked \in VersionText
  <2>1. component \in ComponentRecord
    BY ById DEF C, Ids
  <2> QED BY <2>1 DEF ComponentRecord
<1>2. Sound(m)
  BY DEF Touches
<1>3. ASSUME NEW n, Sound(n) PROVE Sound(Failed(n))
  <2> DEFINE f == n.failed \cup {id}
  <2>1. f \in SUBSET Ids
    BY <1>3, MachineParts
  <2>2. Failed(n) = [n EXCEPT !.failed = f]
    OBVIOUS
  <2> HIDE DEF f
  <2>3. [n EXCEPT !.failed = f] \in Machines
    BY <1>3, <2>1, MachineWritten, MachineParts
  <2>4. [n EXCEPT !.failed = f].version = n.version /\ [n EXCEPT !.failed = f].skills = n.skills /\ [n EXCEPT !.failed = f].added = n.added
    BY <1>3, MachineParts
  <2> QED BY <1>3, <2>2, <2>3, <2>4 DEF CopiesSkills, Touches
<1>4. Acts(action.kind) => Sound(done)
  <2> DEFINE v == [m.version EXCEPT ![id] = component.locked]
  <2>1. v \in [Ids -> VersionText]
    BY <1>1, MachineParts
  <2>2. \A x \in Ids : x # id => v[x] = m.version[x]
    BY MachineParts
  <2>3. done = [m EXCEPT !.version = v]
    OBVIOUS
  <2> HIDE DEF v
  <2>4. [m EXCEPT !.version = v] \in Machines
    BY <2>1, MachineWritten, MachineParts
  <2>5. [m EXCEPT !.version = v].version = v /\ [m EXCEPT !.version = v].skills = m.skills /\ [m EXCEPT !.version = v].added = m.added
    BY MachineParts
  <2> HIDE DEF done
  <2> QED BY <2>2, <2>3, <2>4, <2>5 DEF CopiesSkills, Touches
<1>5. ASSUME NEW S \in SUBSET Directory, component.kind = "skill-pack", Acts(action.kind) PROVE Sound(copied(S))
  <2> DEFINE s == [m.skills EXCEPT ![id] = m.skills[id] \cup S]
             a == [m.added EXCEPT ![id] = S \ m.skills[id]]
  <2>1. s \in [Ids -> SUBSET Directory] /\ a \in [Ids -> SUBSET Directory]
    BY MachineParts
  <2>2. \A x \in Ids : x # id => s[x] = m.skills[x] /\ a[x] = m.added[x]
    BY MachineParts
  <2>3. copied(S) = [m EXCEPT !.skills = s, !.added = a]
    OBVIOUS
  <2> HIDE DEF s, a
  <2> DEFINE n == [m EXCEPT !.skills = s, !.added = a]
  <2>4. n \in Machines
    BY <2>1, MachineWritten, MachineParts
  <2>5. n.version = m.version /\ n.skills = s /\ n.added = a
    BY MachineParts
  <2> HIDE DEF n
  <2>6. Sound(n)
    BY <1>5, <2>2, <2>4, <2>5 DEF CopiesSkills, Touches
  <2> QED BY <2>3, <2>6 DEF n
<1>6. \/ PerformAction(m, action, broken, left) = m
      \/ PerformAction(m, action, broken, left) = Failed(m)
      \/ Acts(action.kind) /\ component.kind = "skill-pack" /\ PerformAction(m, action, broken, left) = Failed(copied(left))
      \/ Acts(action.kind) /\ component.kind = "skill-pack" /\ PerformAction(m, action, broken, left) = copied(Directory)
      \/ Acts(action.kind) /\ PerformAction(m, action, broken, left) = Failed(done)
      \/ Acts(action.kind) /\ PerformAction(m, action, broken, left) = done
  BY DEF PerformAction
<1> HIDE DEF Sound, Failed, done, copied
<1>7. Sound(PerformAction(m, action, broken, left))
  BY <1>2, <1>3, <1>4, <1>5, <1>6
<1> QED BY <1>7 DEF Sound

AfterEach(made, broken, left) == CHOOSE after : after = [n \in 0 .. Len(made.actions) |->
    IF n = 0 THEN Machine ELSE PerformAction(after[n - 1], made.actions[n], broken, left)]

\* What the actions of a plan, one after another, may change.
LEMMA ActionsPerformed ==
  ASSUME NEW made, Len(made.actions) \in Nat, \A i \in 1 .. Len(made.actions) : made.actions[i].id \in Ids,
         catalog \in CatalogRecord, version \in [Ids -> VersionText], skills \in [Ids -> SUBSET Directory],
         NEW broken, NEW left \in SUBSET Directory
  PROVE  LET after == AfterActions(made, broken, left) IN
         /\ after \in Machines /\ CopiesSkills(after)
         /\ \A id \in Ids :
               (\A i \in 1 .. Len(made.actions) : made.actions[i].id = id => ~Acts(made.actions[i].kind))
                  => after.version[id] = version[id] /\ after.skills[id] = skills[id]
<1> DEFINE N == Len(made.actions)
           S == {m \in Machines : CopiesSkills(m)}
           g == [n \in 1 .. N |-> [m \in S |-> PerformAction(m, made.actions[n], broken, left)]]
           Is(f) == f = [n \in 0 .. N |->
               IF n = 0 THEN Machine ELSE PerformAction(f[n - 1], made.actions[n], broken, left)]
           A == AfterEach(made, broken, left)
<1>1. AfterActions(made, broken, left) = A[N]
  BY DEF AfterActions, AfterEach
<1>2. Machine \in S /\ Machine.version = version /\ Machine.skills = skills
  <2>1. [id \in Ids |-> {}] \in [Ids -> SUBSET Directory]
    OBVIOUS
  <2>2. Machine \in Machines
    BY <2>1 DEF Machine, Machines
  <2>3. CopiesSkills(Machine)
    BY DEF Machine, CopiesSkills
  <2> QED BY <2>2, <2>3 DEF Machine
<1>3. g \in Steps(S, N)
  <2>1. ASSUME NEW n \in 1 .. N, NEW m \in S
        PROVE  PerformAction(m, made.actions[n], broken, left) \in S
    <3>1. made.actions[n].id \in Ids
      OBVIOUS
    <3> QED BY <3>1, ActionPerformed
  <2> HIDE DEF S
  <2> QED BY <2>1 DEF Steps
<1>4. PICK f \in [0 .. N -> S] : f[0] = Machine /\ \A n \in 1 .. N : f[n] = g[n][f[n - 1]]
  <2> HIDE DEF g, S, N
  <2>1. N \in Nat
    BY DEF N
  <2>2. Followed(S, N, g, Machine)
    BY <1>2, <1>3, <2>1, Recursion
  <2> QED BY <2>2 DEF Followed
<1> HIDE DEF S
<1>5. Is(f)
  <2>1. \A n \in 1 .. N : f[n - 1] \in S /\ g[n][f[n - 1]] = PerformAction(f[n - 1], made.actions[n], broken, left)
    <3>1. \A n \in 1 .. N : n - 1 \in 0 .. N
      OBVIOUS
    <3> QED BY <3>1
  <2>2. \A n \in 0 .. N : n # 0 => n \in 1 .. N
    OBVIOUS
  <2> HIDE DEF g
  <2> QED BY <1>4, <2>1, <2>2
<1>6. Is(A)
  BY <1>5 DEF AfterEach
<1>7. A[0] = Machine /\ \A n \in 1 .. N : A[n] = PerformAction(A[n - 1], made.actions[n], broken, left)
  <2>1. 0 \in 0 .. N /\ \A n \in 1 .. N : n \in 0 .. N /\ n # 0
    OBVIOUS
  <2> QED BY <1>6, <2>1
<1> HIDE DEF A, g
<1> DEFINE Untouched(n) == \A id \in Ids :
              (\A i \in 1 .. n : made.actions[i].id = id => ~Acts(made.actions[i].kind))
                  => A[n].version[id] = version[id] /\ A[n].skills[id] = skills[id]
           Other == {n \in 0 .. N : ~(A[n] \in S /\ Untouched(n))}
<1>8. ASSUME Other # {} PROVE FALSE
  <2>1. PICK n \in Other : \A k \in Other : n <= k
    <3>1. Other \in SUBSET Nat
      OBVIOUS
    <3> HIDE DEF Other
    <3> QED BY <1>8, <3>1, Least
  <2>2. ~(A[n] \in S /\ Untouched(n)) /\ n \in 0 .. N
    BY <2>1
  <2>3. n # 0
    BY <1>2, <1>7, <2>2
  <2>4. n \in 1 .. N /\ n - 1 \in 0 .. N /\ N \in Nat
    BY <2>2, <2>3
  <2>5. n - 1 \notin Other
    <3> HIDE DEF Other, N
    <3> QED BY <2>1, <2>4
  <2>6. A[n - 1] \in S /\ Untouched(n - 1)
    BY <2>4, <2>5
  <2> HIDE DEF Other
  <2>7. made.actions[n].id \in Ids
    BY <2>4
  <2>8. A[n] \in S /\ Touches(A[n - 1], A[n], made.actions[n])
    BY <1>7, <2>4, <2>6, <2>7, ActionPerformed DEF S
  <2>9. ASSUME NEW id \in Ids, \A i \in 1 .. n : made.actions[i].id = id => ~Acts(made.actions[i].kind)
        PROVE  A[n].version[id] = version[id] /\ A[n].skills[id] = skills[id]
    <3>1. n \in 1 .. n /\ \A i \in 1 .. n - 1 : i \in 1 .. n
      BY <2>4
    <3>2. A[n - 1].version[id] = version[id] /\ A[n - 1].skills[id] = skills[id]
      BY <2>6, <2>9, <3>1
    <3>3. id # made.actions[n].id \/ ~Acts(made.actions[n].kind)
      BY <2>9, <3>1
    <3> QED BY <2>8, <3>2, <3>3 DEF Touches
  <2> QED BY <2>2, <2>8, <2>9
<1>9. N \in 0 .. N /\ N \notin Other
  BY <1>8
<1>10. A[N] \in S /\ Untouched(N)
  BY <1>9
<1> QED BY <1>1, <1>10 DEF S

-----------------------------------------------------------------------------
(* The invariant.                                                          *)

Ownerships == [source : {"none", "agentstack", "agentstack-router"}, active : BOOLEAN, paths : SUBSET Directory]

\* What the machine and its records are made of; and only an accepted catalog is loaded.
SetupShape ==
    /\ setup \in Setups
    /\ setup.loaded = "yes" => Validate(catalog)
    /\ version \in [Ids -> VersionText]
    /\ skills \in [Ids -> SUBSET Directory]
    /\ servers \subseteq Ids
    /\ ownership \in [Ids -> Ownerships]

\* Only routers are recorded as configured, and only skill packs own directories.
OwnershipOfKinds == \A id \in Ids :
    /\ ownership[id].source = "agentstack-router" => C(id).kind = "router"
    /\ ownership[id].paths # {} => C(id).kind = "skill-pack"

\* A saved plan was made of the catalog and of an inventory that judged the versions found.
JudgedItems(items) == \A id \in Ids : C(id).kind \in Packages /\ items[2][id] # Absent =>
    /\ items[2][id] \in VersionText
    /\ items[1][id].installed /\ ~items[1][id].broken
    /\ items[1][id].incompatible = OutsidePolicy(id, items[2][id])
PlanFromCatalog == current = NoSavedPlan \/
    /\ setup.loaded = "yes"
    /\ current.plan = Build(catalog, current.items[1], current.request)
    /\ JudgedItems(current.items)

\* A report is of an accepted catalog, and of the operation before.
ReportOfOperation == setup.loaded # "yes" => report = NoReport

SetupInv == SetupShape /\ OwnershipOfKinds /\ PlanFromCatalog /\ ReportOfOperation /\ ApplyConverges

LEMMA SetupParts ==
  ASSUME setup \in Setups
  PROVE  /\ catalog \in CatalogRecord /\ setup.changes \in Nat /\ setup.operations \in Nat
         /\ setup.loaded \in {"no", "yes", "refused"}
         /\ DOMAIN setup = {"catalog", "versions", "requests", "changes", "operations", "loaded"}
  BY DEF Setups, catalog

\* No operation changes the catalog, or unloads it.
LEMMA SetupKept ==
  ASSUME SetupShape, [Operate]_setupVars
  PROVE  /\ setup' \in Setups /\ setup'.catalog = setup.catalog
         /\ setup'.loaded = "yes" => Validate(catalog)
         /\ setup.loaded = "yes" => setup'.loaded = "yes"
<1>1. setup \in Setups /\ (setup.loaded = "yes" => Validate(catalog))
  BY DEF SetupShape
<1>2. /\ catalog \in CatalogRecord /\ setup.changes \in Nat /\ setup.operations \in Nat
      /\ DOMAIN setup = {"catalog", "versions", "requests", "changes", "operations", "loaded"}
  BY <1>1, SetupParts
<1>3. CASE Load
  <2>1. PICK answer \in {"yes", "refused"} : /\ setup' = [setup EXCEPT !.loaded = answer]
                                             /\ answer = "yes" => Validate(catalog)
    BY <1>3 DEF Load
  <2>2. setup.loaded = "no"
    BY <1>3 DEF Load
  <2>3. setup'.loaded = answer /\ setup'.catalog = setup.catalog
    BY <1>2, <2>1
  <2>4. setup' \in Setups
    BY <1>1, <2>1 DEF Setups
  <2> QED BY <2>1, <2>2, <2>3, <2>4
<1>4. CASE Operates
  <2>1. setup' = [setup EXCEPT !.operations = setup.operations - 1] /\ setup.operations - 1 \in Nat
    BY <1>2, <1>4 DEF Operates
  <2>2. setup' \in Setups
    BY <1>1, <2>1 DEF Setups
  <2> QED BY <1>1, <1>2, <2>1, <2>2
<1>5. CASE \E id \in Ids : OwnerChanges(id)
  <2>1. setup' = [setup EXCEPT !.changes = setup.changes - 1] /\ setup.changes - 1 \in Nat
    BY <1>2, <1>5 DEF OwnerChanges
  <2>2. setup' \in Setups
    BY <1>1, <2>1 DEF Setups
  <2> QED BY <1>1, <1>2, <2>1, <2>2
<1>6. CASE PlanDropped \/ UNCHANGED setupVars
  BY <1>1, <1>6 DEF PlanDropped, setupVars
<1> QED BY <1>3, <1>4, <1>5, <1>6 DEF Operate, MakePlan, MCPInit, ApplyPlanned, DeactivateOwned, RemoveOwned

LEMMA SetupInvInit == SetupInit => SetupInv
<1> SUFFICES ASSUME SetupInit PROVE SetupInv
  OBVIOUS
<1>1. setup \in Setups /\ setup.loaded = "no" /\ version \in [Ids -> VersionText]
  <2>1. setup.loaded = "no" /\ setup.versions \in [IdsOf(setup.catalog) -> VersionText] /\ setup \in Setups
    BY SetupAssumption DEF SetupInit
  <2> QED BY <2>1 DEF SetupInit, Ids, catalog
<1>2. NotOwned \in Ownerships
  BY DEF NotOwned, Ownerships
<1>3. SetupShape
  BY <1>1, <1>2 DEF SetupInit, SetupShape
<1>4. OwnershipOfKinds
  <2>1. NotOwned.source = "none" /\ NotOwned.paths = {}
    BY DEF NotOwned
  <2> QED BY <2>1 DEF SetupInit, OwnershipOfKinds
<1>5. report.request = <<>>
  BY DEF SetupInit, NoReport
<1> QED BY <1>3, <1>4, <1>5 DEF SetupInit, SetupInv, PlanFromCatalog, ReportOfOperation, ApplyConverges

\* What a plan that can be applied is made of.
LEMMA AppliedPlan ==
  ASSUME SetupShape, PlanFromCatalog, setup.loaded = "yes"
  PROVE  /\ catalog \in CatalogRecord /\ Validate(catalog)
         /\ Len(current.plan.actions) \in Nat /\ PlannedIds(current.plan) \subseteq Ids
         /\ \A i \in 1 .. Len(current.plan.actions) :
               /\ current.plan.actions[i].id \in PlannedIds(current.plan)
               /\ current.plan.actions[i].id \in Ids
               /\ current.plan.actions[i].kind = KindIn(current.plan, current.plan.actions[i].id)
<1>1. catalog \in CatalogRecord /\ Validate(catalog)
  BY SetupParts DEF SetupShape
<1>2. CASE current = NoSavedPlan
  <2>1. Len(current.plan.actions) = 0 /\ PlannedIds(current.plan) = {}
    BY <1>2 DEF NoSavedPlan, Refused, PlannedIds
  <2> QED BY <1>1, <2>1
<1>3. CASE current # NoSavedPlan
  <2>1. current.plan = Build(catalog, current.items[1], current.request)
    BY <1>3 DEF PlanFromCatalog
  <2> DEFINE made == current.plan
  <2>2. /\ PlannedIds(made) \subseteq IdsOf(catalog) /\ Len(made.actions) \in Nat
        /\ \A i \in 1 .. Len(made.actions) :
              /\ made.actions[i].id \in PlannedIds(made)
              /\ made.actions[i].kind = KindIn(made, made.actions[i].id)
    BY <1>1, <2>1, PlanKinds
  <2> HIDE DEF made
  <2> QED BY <1>1, <2>2 DEF Ids, made
<1> QED BY <1>2, <1>3

-----------------------------------------------------------------------------
(* What operations leave of the machine and its records.                   *)

RecordKinds(record) ==
    /\ record \in [Ids -> Ownerships]
    /\ \A id \in Ids : /\ record[id].source = "agentstack-router" => C(id).kind = "router"
                       /\ record[id].paths # {} => C(id).kind = "skill-pack"

LEMMA RoutersRecorded ==
  ASSUME NEW record, RecordKinds(record), NEW config, \A id \in config : id \in Ids /\ C(id).kind = "router"
  PROVE  /\ RecordKinds(RecordedRouters(config, record))
         /\ \A id \in config : RecordedRouters(config, record)[id].source # "none"
         /\ \A id \in Ids : record[id].source # "none" => RecordedRouters(config, record)[id].source # "none"
         /\ \A id \in Ids \ config : record[id].source = "none" => RecordedRouters(config, record)[id] = record[id]
<1> DEFINE new == RecordedRouters(config, record)
           configured == [source |-> "agentstack-router", active |-> TRUE, paths |-> {}]
<1>1. configured \in Ownerships
  BY DEF Ownerships
<1>2. ASSUME NEW id \in Ids
      PROVE  /\ record[id] \in Ownerships /\ [record[id] EXCEPT !.active = FALSE] \in Ownerships
             /\ [record[id] EXCEPT !.active = FALSE].source = record[id].source
             /\ [record[id] EXCEPT !.active = FALSE].paths = record[id].paths
  BY DEF RecordKinds, Ownerships
<1>3. DOMAIN new = Ids
  BY DEF RecordedRouters
<1>4. ASSUME NEW id \in Ids
      PROVE  \/ id \in config /\ new[id] = configured
             \/ id \notin config /\ record[id].source # "none" /\ new[id] = [record[id] EXCEPT !.active = FALSE]
             \/ id \notin config /\ new[id] = record[id]
  BY DEF RecordedRouters
<1>5. \A id \in Ids \ config : record[id].source = "none" => new[id] = record[id]
  BY DEF RecordedRouters
<1> HIDE DEF new
<1>6. new = [id \in Ids |-> new[id]]
  BY <1>3 DEF RecordedRouters, new
<1>7. ASSUME NEW id \in Ids
      PROVE  /\ new[id] \in Ownerships
             /\ new[id].source = "agentstack-router" => C(id).kind = "router"
             /\ new[id].paths # {} => C(id).kind = "skill-pack"
             /\ id \in config \/ record[id].source # "none" => new[id].source # "none"
  <2>1. CASE id \in config /\ new[id] = configured
    BY <1>1, <2>1
  <2>2. CASE record[id].source # "none" /\ new[id] = [record[id] EXCEPT !.active = FALSE] /\ id \notin config
    BY <1>2, <2>2 DEF RecordKinds
  <2>3. CASE id \notin config /\ new[id] = record[id]
    BY <1>2, <2>3 DEF RecordKinds
  <2> QED BY <1>4, <2>1, <2>2, <2>3
<1>8. RecordKinds(new)
  BY <1>6, <1>7 DEF RecordKinds
<1> QED BY <1>5, <1>7, <1>8 DEF new

LEMMA InstallsRecorded ==
  ASSUME RecordKinds(ownership), NEW made, NEW machine \in Machines, CopiesSkills(machine)
  PROVE  /\ RecordKinds(RecordedInstalls(made, machine))
         /\ \A id \in Ids : IF id \in PlannedIds(made) /\ Acts(KindIn(made, id)) /\ id \notin machine.failed
                            THEN RecordedInstalls(made, machine)[id].source # "none"
                            ELSE RecordedInstalls(made, machine)[id] = ownership[id]
<1> DEFINE new == RecordedInstalls(made, machine)
           placed(id) == [source |-> "agentstack", active |-> TRUE, paths |-> ownership[id].paths \cup machine.added[id]]
<1>1. ASSUME NEW id \in Ids
      PROVE  /\ ownership[id] \in Ownerships /\ placed(id) \in Ownerships
             /\ placed(id).paths # {} => C(id).kind = "skill-pack"
  <2>1. ownership[id] \in Ownerships /\ ownership[id].paths \in SUBSET Directory
    BY DEF RecordKinds, Ownerships
  <2>2. machine.added[id] \in SUBSET Directory /\ (machine.added[id] # {} => C(id).kind = "skill-pack")
    BY MachineParts DEF CopiesSkills
  <2> QED BY <2>1, <2>2 DEF Ownerships, RecordKinds
<1>2. new = [id \in Ids |-> new[id]] /\ \A id \in Ids : new[id] =
         IF id \in PlannedIds(made) /\ Acts(KindIn(made, id)) /\ id \notin machine.failed THEN placed(id) ELSE ownership[id]
  BY DEF RecordedInstalls
<1>3. \A id \in Ids : placed(id).source = "agentstack"
  OBVIOUS
<1> HIDE DEF new, placed
<1>4. RecordKinds(new)
  BY <1>1, <1>2, <1>3 DEF RecordKinds
<1> QED BY <1>2, <1>3, <1>4 DEF new

LEMMA ConfiguredRouters ==
  ASSUME NEW made, PlannedIds(made) \subseteq Ids
  PROVE  \A id \in Configured(made) : id \in Ids /\ C(id).kind = "router"
  BY DEF Configured

\* The machine after an operation, in terms of the catalog before it.
MachineShape(v, s, configured, record) ==
    /\ v \in [Ids -> VersionText] /\ s \in [Ids -> SUBSET Directory] /\ configured \subseteq Ids
    /\ RecordKinds(record)

LEMMA MachineStep ==
  ASSUME SetupShape, OwnershipOfKinds, PlanFromCatalog, [Operate]_setupVars
  PROVE  MachineShape(version', skills', servers', ownership')
<1>1. /\ version \in [Ids -> VersionText] /\ skills \in [Ids -> SUBSET Directory] /\ servers \subseteq Ids
      /\ RecordKinds(ownership) /\ catalog \in CatalogRecord
  BY SetupParts DEF SetupShape, OwnershipOfKinds, RecordKinds
<1>2. CASE UNCHANGED <<version, skills, servers, ownership>>
  BY <1>1, <1>2 DEF MachineShape
<1>3. ASSUME NEW request, MCPInit(request) PROVE MachineShape(version', skills', servers', ownership')
  <2> DEFINE made == Build(catalog, Items, request)
  <2>1. servers' = Configured(made) /\ ownership' = RecordedRouters(Configured(made), ownership) /\ UNCHANGED <<version, skills>>
    BY <1>3 DEF MCPInit
  <2>2. Validate(catalog)
    BY <1>3 DEF MCPInit, Operates, SetupShape
  <2>3. PlannedIds(made) \subseteq Ids
    BY <1>1, <2>2, PlanKinds DEF Ids
  <2> HIDE DEF made
  <2>4. \A id \in Configured(made) : id \in Ids /\ C(id).kind = "router"
    BY <2>3, ConfiguredRouters
  <2>5. RecordKinds(ownership')
    BY <1>1, <2>1, <2>4, RoutersRecorded
  <2> QED BY <1>1, <2>1, <2>4, <2>5 DEF MachineShape
<1>4. ASSUME NEW broken, NEW left \in SUBSET Directory, ApplyPlanned(broken, left)
      PROVE  MachineShape(version', skills', servers', ownership')
  <2> DEFINE made == current.plan
             after == AfterActions(made, broken, left)
             config == Configured(made)
  <2>1. /\ version' = after.version /\ skills' = after.skills
        /\ \/ servers' = config /\ ownership' = RecordedRouters(config, RecordedInstalls(made, after))
           \/ servers' = servers /\ ownership' = RecordedInstalls(made, after)
    BY <1>4 DEF ApplyPlanned
  <2>2. setup.loaded = "yes"
    BY <1>4 DEF ApplyPlanned, Operates
  <2>3. Len(made.actions) \in Nat /\ PlannedIds(made) \subseteq Ids /\ \A i \in 1 .. Len(made.actions) : made.actions[i].id \in Ids
    BY <2>2, AppliedPlan
  <2> HIDE DEF made
  <2>4. after \in Machines /\ CopiesSkills(after)
    BY <1>1, <2>3, ActionsPerformed
  <2> HIDE DEF after
  <2>5. RecordKinds(RecordedInstalls(made, after))
    BY <1>1, <2>4, InstallsRecorded
  <2>6. \A id \in config : id \in Ids /\ C(id).kind = "router"
    BY <2>3, ConfiguredRouters
  <2> HIDE DEF config
  <2>7. RecordKinds(RecordedRouters(config, RecordedInstalls(made, after)))
    BY <2>5, <2>6, RoutersRecorded
  <2>8. after.version \in [Ids -> VersionText] /\ after.skills \in [Ids -> SUBSET Directory]
    BY <2>4, MachineParts
  <2> QED BY <1>1, <2>1, <2>5, <2>6, <2>7, <2>8 DEF MachineShape
<1>5. ASSUME NEW id \in Ids, DeactivateOwned(id) PROVE MachineShape(version', skills', servers', ownership')
  <2> DEFINE inactive == [ownership[id] EXCEPT !.active = FALSE]
  <2>1. servers' \subseteq Ids /\ UNCHANGED <<version, skills>>
    BY <1>1, <1>5 DEF DeactivateOwned
  <2>2. ownership' = [ownership EXCEPT ![id] = inactive]
    BY <1>5 DEF DeactivateOwned
  <2>3. inactive \in Ownerships /\ inactive.source = ownership[id].source /\ inactive.paths = ownership[id].paths
    BY <1>1 DEF RecordKinds, Ownerships
  <2> HIDE DEF inactive
  <2>4. RecordKinds(ownership')
    BY <1>1, <2>2, <2>3 DEF RecordKinds
  <2> QED BY <1>1, <2>1, <2>4 DEF MachineShape
<1>6. ASSUME NEW id \in Ids, RemoveOwned(id) PROVE MachineShape(version', skills', servers', ownership')
  <2>1. servers' \subseteq Ids
    BY <1>1, <1>6 DEF RemoveOwned
  <2>2. Absent \in VersionText
    BY DEF Absent, VersionText
  <2>3. version' \in [Ids -> VersionText]
    BY <1>1, <1>6, <2>2 DEF RemoveOwned
  <2>4. skills' \in [Ids -> SUBSET Directory]
    BY <1>1, <1>6 DEF RemoveOwned
  <2>5. NotOwned \in Ownerships /\ NotOwned.source = "none" /\ NotOwned.paths = {}
    BY DEF NotOwned, Ownerships
  <2>6. ownership' = [ownership EXCEPT ![id] = NotOwned]
    BY <1>6 DEF RemoveOwned
  <2>7. RecordKinds(ownership')
    BY <1>1, <2>5, <2>6 DEF RecordKinds
  <2> QED BY <2>1, <2>3, <2>4, <2>7 DEF MachineShape
<1>7. ASSUME NEW id \in Ids, OwnerChanges(id) PROVE MachineShape(version', skills', servers', ownership')
  <2>1. UNCHANGED <<servers, ownership>>
    BY <1>7 DEF OwnerChanges
  <2>2. \A v \in Offered \cup {Absent} : v \in VersionText
    <3>1. Absent \in VersionText
      BY DEF Absent, VersionText
    <3> QED BY <3>1, SetupAssumption
  <2>3. version' \in [Ids -> VersionText] /\ skills' \in [Ids -> SUBSET Directory]
    <3>1. CASE \E v \in (Offered \cup {Absent}) \ {version[id]} : version' = [version EXCEPT ![id] = v] /\ UNCHANGED skills
      BY <1>1, <2>2, <3>1
    <3>2. CASE \E d \in skills[id] : skills' = [skills EXCEPT ![id] = @ \ {d}] /\ UNCHANGED version
      BY <1>1, <3>2
    <3> QED BY <1>7, <3>1, <3>2 DEF OwnerChanges
  <2> QED BY <1>1, <2>1, <2>3 DEF MachineShape
<1>8. CASE Load \/ (\E request \in setup.requests : MakePlan(request)) \/ PlanDropped \/ UNCHANGED setupVars
  BY <1>2, <1>8 DEF Load, MakePlan, PlanDropped, setupVars
<1> QED BY <1>3, <1>4, <1>5, <1>6, <1>7, <1>8 DEF Operate

LEMMA SameCatalog ==
  ASSUME setup'.catalog = setup.catalog
  PROVE  catalog' = catalog /\ Ids' = Ids /\ \A id : C(id)' = C(id)
  BY DEF catalog, Ids, C

LEMMA ShapeStep ==
  ASSUME SetupShape, OwnershipOfKinds, PlanFromCatalog, [Operate]_setupVars
  PROVE  SetupShape' /\ OwnershipOfKinds'
<1>1. MachineShape(version', skills', servers', ownership')
  BY MachineStep
<1>2. setup' \in Setups /\ setup'.catalog = setup.catalog /\ (setup'.loaded = "yes" => Validate(catalog))
  BY SetupKept
<1>3. catalog' = catalog /\ Ids' = Ids /\ \A id : C(id)' = C(id)
  BY <1>2, SameCatalog
<1>4. SetupShape'
  BY <1>1, <1>2, <1>3 DEF SetupShape, MachineShape, RecordKinds
<1>5. OwnershipOfKinds'
  BY <1>1, <1>3 DEF OwnershipOfKinds, MachineShape, RecordKinds
<1> QED BY <1>4, <1>5

\* What the inventory says of a component whose health no directory and no router decides.
LEMMA ScannedItem ==
  ASSUME NEW id \in Ids, ownership[id].paths = {}, ownership[id].source # "agentstack-router"
  PROVE  Items[id] = Scanned(id)
  BY DEF Items, WithPathHealth, WithRouterHealth

LEMMA ItemsJudged ==
  ASSUME SetupShape, OwnershipOfKinds
  PROVE  JudgedItems(Digest)
<1> SUFFICES ASSUME NEW id \in Ids, C(id).kind \in Packages, version[id] # Absent
             PROVE  /\ version[id] \in VersionText
                    /\ Items[id].installed /\ ~Items[id].broken
                    /\ Items[id].incompatible = OutsidePolicy(id, version[id])
  <2>1. Digest[1] = Items /\ Digest[2] = version
    BY DEF Digest
  <2> QED BY <2>1 DEF JudgedItems
<1>1. ownership[id].paths = {} /\ ownership[id].source # "agentstack-router"
  BY DEF OwnershipOfKinds, Packages
<1>2. Items[id] = Scanned(id)
  BY <1>1, ScannedItem
<1>3. Detected(id, version[id])
  BY DEF Detected
<1>4. OutsidePolicy(id, version[id]) \in BOOLEAN
  BY DEF OutsidePolicy
<1>5. Scanned(id).installed /\ ~Scanned(id).broken /\ Scanned(id).incompatible = OutsidePolicy(id, version[id])
  BY <1>3, <1>4 DEF Scanned
<1> QED BY <1>2, <1>5 DEF SetupShape

\* A saved plan stays what it was made of.
LEMMA PlanStep ==
  ASSUME SetupShape, OwnershipOfKinds, PlanFromCatalog, [Operate]_setupVars
  PROVE  PlanFromCatalog'
<1>1. setup'.catalog = setup.catalog /\ (setup.loaded = "yes" => setup'.loaded = "yes")
  BY SetupKept
<1>2. catalog' = catalog /\ Ids' = Ids /\ \A id : C(id)' = C(id)
  BY <1>1, SameCatalog
<1>3. CASE current' = current
  <2>1. CASE current = NoSavedPlan
    BY <1>3, <2>1 DEF PlanFromCatalog
  <2>2. CASE current # NoSavedPlan
    <3>1. setup.loaded = "yes" /\ current.plan = Build(catalog, current.items[1], current.request) /\ JudgedItems(current.items)
      BY <2>2 DEF PlanFromCatalog
    <3>2. JudgedItems(current.items)'
      BY <1>2, <1>3, <3>1 DEF JudgedItems, OutsidePolicy
    <3> QED BY <1>1, <1>2, <1>3, <3>1, <3>2 DEF PlanFromCatalog
  <2> QED BY <2>1, <2>2
<1>4. CASE current' = NoSavedPlan
  BY <1>4 DEF PlanFromCatalog
<1>5. ASSUME NEW request, MakePlan(request) PROVE PlanFromCatalog'
  <2>1. setup.loaded = "yes"
    BY <1>5 DEF MakePlan, Operates
  <2>2. current' = [request |-> request, items |-> Digest, plan |-> Build(catalog, Items, request)]
    BY <1>5 DEF MakePlan
  <2>3. current'.items = Digest /\ current'.request = request /\ current'.plan = Build(catalog, Digest[1], request)
    BY <2>2 DEF Digest
  <2>4. JudgedItems(Digest)
    BY ItemsJudged
  <2>5. JudgedItems(current.items)'
    BY <1>2, <2>3, <2>4 DEF JudgedItems, OutsidePolicy
  <2> QED BY <1>1, <1>2, <2>1, <2>3, <2>5 DEF PlanFromCatalog
<1> QED BY <1>3, <1>4, <1>5 DEF Operate, Load, MCPInit, ApplyPlanned, PlanDropped, DeactivateOwned, RemoveOwned, OwnerChanges, setupVars

\* Only an operation on an accepted catalog reports.
LEMMA ReportStep ==
  ASSUME SetupShape, ReportOfOperation, [Operate]_setupVars
  PROVE  ReportOfOperation'
<1>1. setup.loaded = "yes" => setup'.loaded = "yes"
  BY SetupKept
<1> QED BY <1>1 DEF ReportOfOperation, Operate, Load, MakePlan, Operates, MCPInit, ApplyPlanned, PlanDropped, DeactivateOwned, RemoveOwned, OwnerChanges, setupVars

\* A component that is recorded is found or broken.
RecordsSeen == \A id \in Ids : ownership[id].source # "none" => Items[id].installed \/ Items[id].broken
LEMMA RecordedIsSeen == RecordsSeen
<1> SUFFICES ASSUME NEW id \in Ids, ownership[id].source # "none"
             PROVE  Items[id].installed \/ Items[id].broken
  BY DEF RecordsSeen
<1>1. Scanned(id).installed \/ Scanned(id).broken
  BY DEF Scanned
<1> DEFINE scanned == Scanned(id)
           healthy == WithPathHealth(id, scanned)
<1>2. DOMAIN scanned = {"installed", "incompatible", "broken"}
  BY DEF Scanned
<1> HIDE DEF scanned
<1>3. (healthy.installed \/ healthy.broken) /\ DOMAIN healthy = {"installed", "incompatible", "broken"}
  BY <1>1, <1>2 DEF WithPathHealth, scanned
<1>4. Items[id] = WithRouterHealth(id, healthy)
  BY DEF Items, scanned
<1> HIDE DEF healthy
<1>5. WithRouterHealth(id, healthy).installed \/ WithRouterHealth(id, healthy).broken
  BY <1>3 DEF WithRouterHealth
<1> QED BY <1>4, <1>5

\* What is found or broken is not put in place again.
LEMMA SeenIsKept ==
  ASSUME NEW component, NEW item, item.installed \/ item.broken, NEW request, NEW active
  PROVE  ActionKind(component, item, request, active) \notin {"install", "configure"}
  BY DEF ActionKind

\* Only routers that are missing are configured.
LEMMA ConfiguresRouters ==
  ASSUME NEW component, NEW item, NEW request, NEW active,
         ActionKind(component, item, request, active) = "configure"
  PROVE  component.kind = "router"
<1>1. ActionKind(component, item, request, active) = Missing(component)
  BY DEF ActionKind
<1> QED BY <1>1 DEF Missing

\* After a plan has been applied, and everything in it succeeded, nothing is missing.
LEMMA ConvergeApplied ==
  ASSUME SetupShape, OwnershipOfKinds, PlanFromCatalog,
         NEW broken, NEW left \in SUBSET Directory, ApplyPlanned(broken, left), [Operate]_setupVars
  PROVE  ApplyConverges'
<1> DEFINE made == current.plan
           after == AfterActions(made, broken, left)
           config == Configured(made)
           request == current.request
           selected == Selected(catalog, request)
           again == Build(catalog, Items', request)
<1>1. setup'.catalog = setup.catalog
  BY SetupKept
<1>2. catalog' = catalog /\ Ids' = Ids /\ \A id : C(id)' = C(id)
  BY <1>1, SameCatalog
<1>3. /\ version' = after.version /\ skills' = after.skills
      /\ IF after.failed = {} /\ config # {}
         THEN servers' = config /\ ownership' = RecordedRouters(config, RecordedInstalls(made, after))
         ELSE servers' = servers /\ ownership' = RecordedInstalls(made, after)
      /\ report'.request = request /\ report'.failed = after.failed
      /\ request # <<>> /\ made.error = "none" /\ SameInventory /\ setup.loaded = "yes"
  BY DEF ApplyPlanned, Operates
<1>4. /\ catalog \in CatalogRecord /\ Validate(catalog)
      /\ Len(made.actions) \in Nat /\ PlannedIds(made) \subseteq Ids
      /\ \A i \in 1 .. Len(made.actions) :
            /\ made.actions[i].id \in PlannedIds(made) /\ made.actions[i].id \in Ids
            /\ made.actions[i].kind = KindIn(made, made.actions[i].id)
  BY <1>3, AppliedPlan
<1>5. made = Build(catalog, Items, request)
  <2>1. current # NoSavedPlan
    BY <1>3 DEF NoSavedPlan
  <2>2. current.items = Digest
    BY <1>3 DEF SameInventory
  <2>3. current.items[1] = Items
    BY <2>2 DEF Digest
  <2> QED BY <2>1, <2>3 DEF PlanFromCatalog
<1>6. SUFFICES ASSUME after.failed = {}
               PROVE  again.error = "none" /\ \A id \in PlannedIds(again) : KindIn(again, id) \notin {"install", "configure"}
  BY <1>2, <1>3 DEF ApplyConverges
<1>7. again.error = "none"
  <2>1. Build(catalog, Items, request).error = "none"
    BY <1>3, <1>5
  <2> QED BY <1>4, <2>1, PlanAgain
<1>8. PlannedIds(again) = selected /\ \A id \in selected : KindIn(again, id) = KindPlanned(catalog, Items', request, selected, id)
  BY <1>4, <1>7, PlanKinds
<1>9. PlannedIds(made) = selected /\ \A id \in selected : KindIn(made, id) = KindPlanned(catalog, Items, request, selected, id)
  <2> HIDE DEF made, request
  <2> QED BY <1>3, <1>4, <1>5, PlanKinds
<1>10. RecordKinds(ownership) /\ version \in [Ids -> VersionText] /\ skills \in [Ids -> SUBSET Directory]
  BY DEF RecordKinds, SetupShape, OwnershipOfKinds
<1> HIDE DEF made
<1>11. /\ after \in Machines /\ CopiesSkills(after)
       /\ \A id \in Ids :
             (\A i \in 1 .. Len(made.actions) : made.actions[i].id = id => ~Acts(made.actions[i].kind))
                => after.version[id] = version[id] /\ after.skills[id] = skills[id]
  BY <1>4, <1>10, ActionsPerformed
<1> HIDE DEF after, config, request, selected, again
<1> DEFINE record == RecordedInstalls(made, after)
<1>12. /\ RecordKinds(record)
       /\ \A id \in Ids : IF id \in PlannedIds(made) /\ Acts(KindIn(made, id)) /\ id \notin after.failed
                          THEN record[id].source # "none"
                          ELSE record[id] = ownership[id]
  BY <1>10, <1>11, InstallsRecorded
<1> HIDE DEF record
<1>13. \A id \in config : id \in Ids /\ C(id).kind = "router"
  BY <1>4, ConfiguredRouters DEF config
<1>14. /\ \A id \in config : RecordedRouters(config, record)[id].source # "none"
       /\ \A id \in Ids : record[id].source # "none" => RecordedRouters(config, record)[id].source # "none"
       /\ \A id \in Ids \ config : record[id].source = "none" => RecordedRouters(config, record)[id] = record[id]
  BY <1>12, <1>13, RoutersRecorded
<1>15. /\ \A id \in config : ownership'[id].source # "none"
       /\ \A id \in Ids : record[id].source # "none" => ownership'[id].source # "none"
       /\ \A id \in Ids \ config : record[id].source = "none" => ownership'[id] = record[id]
  <2>1. CASE config # {}
    BY <1>3, <1>6, <1>14, <2>1 DEF record
  <2>2. CASE config = {}
    BY <1>3, <2>2 DEF record
  <2> QED BY <2>1, <2>2
<1>16. SUFFICES ASSUME NEW id \in selected, KindPlanned(catalog, Items', request, selected, id) \in {"install", "configure"}
                PROVE  FALSE
  BY <1>7, <1>8
<1>17. id \in Ids /\ id \in PlannedIds(made)
  BY <1>4, <1>9
<1> DEFINE active == Active(catalog, request, selected)
<1>18. ActionKind(C(id), Items'[id], request, active) \in {"install", "configure"}
  BY <1>16 DEF KindPlanned, C
<1>19. KindIn(made, id) = ActionKind(C(id), Items[id], request, active)
  BY <1>9 DEF KindPlanned, C
<1> HIDE DEF active
<1>20. ownership'[id].source = "none"
  <2>1. SUFFICES ASSUME ownership'[id].source # "none" PROVE FALSE
    OBVIOUS
  <2>2. RecordsSeen'
    BY RecordedIsSeen, PTL
  <2>3. Items'[id].installed \/ Items'[id].broken
    BY <1>2, <1>17, <2>1, <2>2 DEF RecordsSeen
  <2> QED BY <1>18, <2>3, SeenIsKept
<1>21. id \notin config /\ record[id].source = "none" /\ ownership'[id] = record[id]
  BY <1>15, <1>17, <1>20
<1>22. ~Acts(KindIn(made, id)) /\ record[id] = ownership[id]
  BY <1>6, <1>12, <1>17, <1>21
<1>23. version'[id] = version[id] /\ skills'[id] = skills[id]
  <2>1. \A i \in 1 .. Len(made.actions) : made.actions[i].id = id => ~Acts(made.actions[i].kind)
    BY <1>4, <1>22
  <2> QED BY <1>3, <1>11, <1>17, <2>1
<1>24. Items'[id] = Items[id]
  <2>1. ownership'[id] = ownership[id] /\ ownership[id].source = "none"
    BY <1>20, <1>21, <1>22
  <2>2. Items[id] = WithPathHealth(id, Scanned(id))
    BY <1>17, <2>1 DEF Items, WithRouterHealth
  <2>3. Items'[id] = WithPathHealth(id, Scanned(id))'
    BY <1>2, <1>17, <2>1 DEF Items, WithRouterHealth
  <2>4. Scanned(id)' = Scanned(id)
    BY <1>2, <1>23, <2>1 DEF Scanned, Detected, OutsidePolicy
  <2>5. WithPathHealth(id, Scanned(id))' = WithPathHealth(id, Scanned(id))
    BY <1>23, <2>1, <2>4 DEF WithPathHealth
  <2> QED BY <2>2, <2>3, <2>5
<1>25. KindIn(made, id) = "configure"
  BY <1>18, <1>19, <1>22, <1>24 DEF Acts
<1>26. C(id).kind = "router"
  BY <1>19, <1>25, ConfiguresRouters
<1>27. id \in config
  BY <1>17, <1>25, <1>26 DEF Configured, config
<1> QED BY <1>21, <1>27

LEMMA ConvergeStep ==
  ASSUME SetupInv, [Operate]_setupVars
  PROVE  ApplyConverges'
<1>1. CASE report' = NoReport
  BY <1>1 DEF ApplyConverges, NoReport
<1>2. CASE Load
  <2>1. report = NoReport
    BY <1>2 DEF Load, SetupInv, ReportOfOperation
  <2> QED BY <1>1, <1>2, <2>1 DEF Load
<1>3. ASSUME NEW broken, NEW left \in SUBSET Directory, ApplyPlanned(broken, left) PROVE ApplyConverges'
  BY <1>3, ConvergeApplied DEF SetupInv
<1>4. CASE UNCHANGED setupVars
  <2>1. ApplyConverges
    BY DEF SetupInv
  <2>2. Items' = Items /\ catalog' = catalog /\ report' = report
    BY <1>4 DEF setupVars, Items, catalog, Ids, C, Scanned, Detected, OutsidePolicy, WithPathHealth, WithRouterHealth
  <2> QED BY <2>1, <2>2 DEF ApplyConverges
<1> QED BY <1>1, <1>2, <1>3, <1>4 DEF Operate, MakePlan, MCPInit, PlanDropped, DeactivateOwned, RemoveOwned, OwnerChanges

LEMMA SetupInvStep ==
  ASSUME SetupInv, [Operate]_setupVars
  PROVE  SetupInv'
BY ShapeStep, PlanStep, ReportStep, ConvergeStep DEF SetupInv

-----------------------------------------------------------------------------
(* What the invariant says.                                                *)

LEMMA SetupTypes ==
  ASSUME SetupInv
  PROVE  SetupTypeOK
<1>1. SetupShape
  BY DEF SetupInv
<1>2. \A id \in Ids : ownership[id] \in Ownerships
  BY <1>1 DEF SetupShape
<1>3. \A id \in Ids : ownership[id].source \in {"none", "agentstack", "agentstack-router"} /\ ownership[id].paths \subseteq Directory
  BY <1>2 DEF Ownerships
<1>4. setup.loaded \in {"no", "yes", "refused"}
  BY <1>1, SetupParts DEF SetupShape
<1> QED BY <1>1, <1>3, <1>4 DEF SetupShape, SetupTypeOK

LEMMA SoundPlan ==
  ASSUME SetupInv
  PROVE  PlanSound
<1> SUFFICES ASSUME current.request # <<>>
             PROVE  Promises(catalog, current.plan, current.request)
  BY DEF PlanSound, Promises
<1>1. current # NoSavedPlan
  BY DEF NoSavedPlan
<1>2. setup.loaded = "yes" /\ current.plan = Build(catalog, current.items[1], current.request)
  BY <1>1 DEF SetupInv, PlanFromCatalog
<1>3. catalog \in CatalogRecord /\ Validate(catalog)
  BY <1>2, SetupParts DEF SetupInv, SetupShape
<1> QED BY <1>2, <1>3, BuildSound

LEMMA PinnedCatalog ==
  ASSUME SetupInv
  PROVE  AcceptedIsPinned
<1> SUFFICES ASSUME setup.loaded = "yes", NEW id \in Ids,
                    C(id).kind = "router", C(id).tier # NoId, NEW i \in 1 .. Len(C(id).router.lines),
                    NEW run, run = Unwrapped(C(id).router.lines[i]),
                    run.program \in {"npx", "uvx"}, Understood(run.args)
             PROVE  Fetched(run.args) # {} /\ Fetched(run.args) \subseteq {"exact", "flag=exact"}
  BY DEF AcceptedIsPinned
<1>1. catalog \in CatalogRecord /\ Validate(catalog)
  BY SetupParts DEF SetupInv, SetupShape
<1> QED BY <1>1, AcceptedPins DEF C, Ids

LEMMA JudgedVersions ==
  ASSUME SetupInv
  PROVE  VersionsJudged
<1> SUFFICES ASSUME current.plan.error = "none", NEW id \in PlannedIds(current.plan),
                    C(id).kind \in Packages, ~C(id).credential, C(id).capability = NoId,
                    C(id).policy # <<>>, current.items[2][id] # Absent
             PROVE  LET v == current.items[2][id]
                        inside == /\ \A bound \in Range(C(id).policy) \ {Unbounded} : Parsed(v) /\ Parsed(bound)
                                  /\ Within(v, C(id).policy[1], C(id).policy[2])
                    IN  KindIn(current.plan, id) =
                           (IF inside THEN "keep"
                            ELSE IF current.request.upgrades THEN "repair" ELSE "consent-required")
  BY DEF VersionsJudged
<1> DEFINE made == current.plan
           request == current.request
           v == current.items[2][id]
           item == current.items[1][id]
           policy == C(id).policy
           inside == /\ \A bound \in Range(policy) \ {Unbounded} : Parsed(v) /\ Parsed(bound)
                     /\ Within(v, policy[1], policy[2])
           active == Active(catalog, request, Selected(catalog, request))
<1>1. current # NoSavedPlan
  <2>1. PlannedIds(NoSavedPlan.plan) = {}
    BY DEF NoSavedPlan, Refused, PlannedIds
  <2> QED BY <2>1
<1>2. /\ setup.loaded = "yes" /\ made = Build(catalog, current.items[1], request)
      /\ JudgedItems(current.items)
  BY <1>1 DEF SetupInv, PlanFromCatalog
<1>3. catalog \in CatalogRecord /\ Validate(catalog)
  BY <1>2, SetupParts DEF SetupInv, SetupShape
<1>4. /\ PlannedIds(made) \subseteq Ids
      /\ KindIn(made, id) = KindPlanned(catalog, current.items[1], request, Selected(catalog, request), id)
  <2> HIDE DEF request
  <2> QED BY <1>2, <1>3, PlanKinds DEF Ids
<1>5. id \in Ids
  BY <1>4
<1>6. KindIn(made, id) = ActionKind(C(id), item, request, active)
  BY <1>4 DEF KindPlanned, C
<1>7. v \in VersionText /\ item.installed /\ ~item.broken /\ item.incompatible = OutsidePolicy(id, v)
  BY <1>2, <1>5 DEF JudgedItems
<1>8. policy \in VersionText \X VersionText
  <2>1. C(id) \in ComponentRecord
    BY <1>3, <1>5, ById DEF C, Ids
  <2>2. C(id).policy \in {<<>>} \cup (VersionText \X VersionText)
    BY <2>1 DEF ComponentRecord
  <2> QED BY <2>2
<1>9. Compatible(v, policy[1], policy[2]) <=> inside
  <2> HIDE DEF v, policy
  <2> QED BY <1>7, <1>8, CompatibleIsWithin
<1>10. OutsidePolicy(id, v) <=> ~inside
  BY <1>9 DEF OutsidePolicy
<1> HIDE DEF made, request, v, item, policy, inside, active
<1>11. KindIn(made, id) = IF item.incompatible THEN IF request.upgrades THEN "repair" ELSE "consent-required" ELSE "keep"
  BY <1>6, <1>7 DEF ActionKind
<1>12. KindIn(made, id) = IF inside THEN "keep" ELSE IF request.upgrades THEN "repair" ELSE "consent-required"
  BY <1>7, <1>10, <1>11
<1> QED BY <1>12 DEF made, request, v, item, policy, inside, active

-----------------------------------------------------------------------------
(* Theorems.                                                               *)

InstallationInv == ExecInv /\ SetupInv

LEMMA InstallationInvariant == InstallationSpec => []InstallationInv
<1>1. InstallationInit => InstallationInv
  BY ExecInvInit, SetupInvInit DEF InstallationInit, InstallationInv
<1>2. InstallationInv /\ [InstallationNext]_installationVars => InstallationInv'
  <2> SUFFICES ASSUME InstallationInv, [InstallationNext]_installationVars PROVE InstallationInv'
    OBVIOUS
  <2>1. [Next]_vars /\ [Operate]_setupVars
    BY DEF InstallationNext, installationVars
  <2>2. ExecInv'
    BY <2>1, ExecInvStep DEF InstallationInv
  <2>3. SetupInv'
    BY <2>1, SetupInvStep DEF InstallationInv
  <2> QED BY <2>2, <2>3 DEF InstallationInv
<1> QED BY <1>1, <1>2, PTL DEF InstallationSpec

\* The variables of both views have their types, for any operations and plans, and for any
\* catalogs, machines, requests and versions: whatever Build plans and Apply does is about
\* components of the catalog and directories of the machine.
THEOREM InstallationTypeCorrect == InstallationSpec => []ViewsTypeOK
<1>1. InstallationInv => ViewsTypeOK
  BY SetupTypes DEF InstallationInv, ExecInv, ViewsTypeOK
<1> QED BY <1>1, InstallationInvariant, PTL

\* Whatever catalog validate accepts, and whatever is found on the machine, the planner
\* resolves every request it does not refuse: needs come first, tiers and names decide
\* wherever needs leave the choice, a capability has one provider, and nothing excluded
\* is planned (planner.Build).
THEOREM SetupPlansSound == InstallationSpec => []PlanSound
<1>1. InstallationInv => PlanSound
  BY SoundPlan DEF InstallationInv
<1> QED BY <1>1, InstallationInvariant, PTL

\* However long the command lines of a router are, what npx or uvx downloads for an accepted
\* catalog is an exact version, behind cmd /c and to warm up too, unless there is an option
\* before the tool whose value the code takes for something else (validateRouterAcquisition).
THEOREM AcceptedCatalogsPinned == InstallationSpec => []AcceptedIsPinned
<1>1. InstallationInv => AcceptedIsPinned
  BY PinnedCatalog DEF InstallationInv
<1> QED BY <1>1, InstallationInvariant, PTL

\* For every version text and every policy, a package is kept exactly if SemVer's precedence
\* places its version inside the policy (version.Compatible, applyVersionPolicies, Build).
THEOREM VersionsJudgedBySemVer == InstallationSpec => []VersionsJudged
<1>1. InstallationInv => VersionsJudged
  BY JudgedVersions DEF InstallationInv
<1> QED BY <1>1, InstallationInvariant, PTL

\* Whatever the catalog, the machine and the request: once every action of a plan has
\* succeeded, planning again finds nothing to install or to configure (ApplyPlanned, Build).
THEOREM AppliedPlansConverge == InstallationSpec => []ApplyConverges
<1>1. InstallationInv => ApplyConverges
  BY DEF InstallationInv, SetupInv
<1> QED BY <1>1, InstallationInvariant, PTL
=============================================================================
