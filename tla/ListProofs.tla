------------------------------- MODULE ListProofs -------------------------------
(***************************************************************************)
(* What a filter keeps, for every sequence.  The induction is over a set   *)
(* of numbers, whose smallest missing one exists as < is well founded.     *)
(***************************************************************************)
EXTENDS Lists, SequenceTheorems, FiniteSetTheorems, WellFoundedInduction, TLAPS

\* A set with 0 and the successor of each of its numbers has them all.
LEMMA SetInduction ==
    ASSUME NEW S, 0 \in S, \A n \in Nat : n \in S => n + 1 \in S
    PROVE  \A n \in Nat : n \in S
<1> DEFINE R == {ss \in Nat \X Nat : ss[1] < ss[2]}
           T == Nat \ S
<1>1. IsWellFoundedOn(R, Nat)
  BY NatLessThanWellFounded DEF OpToRel
<1> SUFFICES ASSUME T # {} PROVE FALSE
  OBVIOUS
<1>2. PICK x \in T : \A y \in T : ~(<<y, x>> \in R)
  <2> HIDE DEF R
  <2>1. T \subseteq Nat
    OBVIOUS
  <2> HIDE DEF T
  <2> QED
    BY <1>1, <2>1, WFMin
<1>3. x \in Nat /\ x # 0
  OBVIOUS
<1>4. x - 1 \in Nat /\ x - 1 < x /\ (x - 1) + 1 = x
  BY <1>3
<1>5. x - 1 \in S
  BY <1>2, <1>3, <1>4
<1> QED
  BY <1>2, <1>4, <1>5

\* One element further.
Grown(kept, s, T, n) == IF s[n] \in T THEN Append(kept[n - 1], s[n]) ELSE kept[n - 1]

\* What is kept of the first n elements, for every n.
Growing(kept, s, S, T) ==
    /\ kept \in [0..Len(s) -> Seq(S)]
    /\ kept[0] = <<>>
    /\ \A n \in 1..Len(s) : kept[n] = Grown(kept, s, T, n)

\* The recursion of Kept has a solution, and Kept is where it ends.
LEMMA KeptIsReached ==
    ASSUME NEW S, NEW s \in Seq(S), NEW T
    PROVE  \E kept : Growing(kept, s, S, T) /\ Kept(s, T) = kept[Len(s)]
<1> DEFINE Solves(g, m) == /\ g \in [0..m -> Seq(S)] /\ g[0] = <<>>
                           /\ \A n \in 1..m : g[n] = Grown(g, s, T, n)
           Reached == {m \in Nat : m <= Len(s) => \E g : Solves(g, m)}
<1>1. Len(s) \in Nat
  OBVIOUS
<1>2. 0 \in Reached
  <2>1. Solves([n \in 0..0 |-> <<>>], 0)
    OBVIOUS
  <2> QED
    BY <2>1
<1>3. ASSUME NEW m \in Nat, m \in Reached PROVE m + 1 \in Reached
  <2> HIDE DEF Solves
  <2> SUFFICES ASSUME m + 1 <= Len(s) PROVE \E g : Solves(g, m + 1)
    OBVIOUS
  <2>1. PICK g : Solves(g, m)
    BY <1>1, <1>3
  <2> USE DEF Solves
  <2> DEFINE last == Grown(g, s, T, m + 1)
             h == [n \in 0..(m + 1) |-> IF n <= m THEN g[n] ELSE last]
  <2>2. g[m] \in Seq(S) /\ s[m + 1] \in S
    BY <1>1, <2>1
  <2>3. last \in Seq(S)
    BY <2>2 DEF Grown
  <2>4. h \in [0..(m + 1) -> Seq(S)]
    <3> HIDE DEF last
    <3> QED
      BY <2>1, <2>3
  <2>5. h[0] = <<>> /\ h[m + 1] = last /\ \A n \in 0..m : h[n] = g[n]
    BY <2>1
  <2>6. ASSUME NEW n \in 1..(m + 1) PROVE h[n] = Grown(h, s, T, n)
    <3>1. h[n - 1] = g[n - 1]
      BY <2>5
    <3>2. Grown(h, s, T, n) = Grown(g, s, T, n)
      BY <3>1 DEF Grown
    <3>3. CASE n = m + 1
      BY <2>5, <3>2, <3>3
    <3>4. CASE n # m + 1
      <4>1. n \in 1..m
        BY <3>4
      <4> QED
        BY <2>1, <2>5, <3>2, <4>1
    <3> QED
      BY <3>3, <3>4
  <2> QED
    BY <2>4, <2>5, <2>6
<1>4. PICK g : Solves(g, Len(s))
  <2> HIDE DEF Reached
  <2>1. \A m \in Nat : m \in Reached
    BY <1>2, <1>3, SetInduction
  <2>2. Len(s) \in Reached
    BY <1>1, <2>1
  <2>3. Len(s) \in Reached => (Len(s) <= Len(s) => \E g : Solves(g, Len(s)))
    <3> HIDE DEF Solves
    <3> QED
      BY DEF Reached
  <2> HIDE DEF Solves
  <2> QED
    BY <1>1, <2>2, <2>3
<1> DEFINE Rule(F) == [n \in 0..Len(s) |-> IF n = 0 THEN <<>> ELSE IF s[n] \in T THEN Append(F[n - 1], s[n]) ELSE F[n - 1]]
           kept == CHOOSE F : F = Rule(F)
<1>5. g = Rule(g)
  <2>1. ASSUME NEW n \in 0..Len(s) PROVE g[n] = Rule(g)[n]
    <3>1. Rule(g)[n] = IF n = 0 THEN <<>> ELSE IF s[n] \in T THEN Append(g[n - 1], s[n]) ELSE g[n - 1]
      OBVIOUS
    <3> HIDE DEF Rule
    <3>2. CASE n = 0
      BY <1>4, <3>1, <3>2
    <3>3. CASE n # 0
      <4>1. n \in 1..Len(s)
        BY <1>1, <3>3
      <4> QED
        BY <1>4, <3>1, <3>3, <4>1 DEF Grown
    <3> QED
      BY <3>2, <3>3
  <2> QED
    BY <1>4, <2>1
<1>6. kept = Rule(kept)
  <2> HIDE DEF Rule
  <2> QED
    BY <1>5
<1>7. Kept(s, T) = kept[Len(s)]
  BY DEF Kept
<1>8. \A n \in Nat : n <= Len(s) => kept[n] = g[n]
  <2> DEFINE Same == {n \in Nat : n <= Len(s) => kept[n] = g[n]}
  <2> HIDE DEF kept
  <2>1. 0 \in Same
    BY <1>1, <1>4, <1>6
  <2>2. ASSUME NEW n \in Nat, n \in Same PROVE n + 1 \in Same
    <3> SUFFICES ASSUME n + 1 <= Len(s) PROVE kept[n + 1] = g[n + 1]
      OBVIOUS
    <3>1. kept[n] = g[n] /\ n + 1 \in 1..Len(s) /\ (n + 1) - 1 = n
      BY <1>1, <2>2
    <3>2. kept[n + 1] = IF s[n + 1] \in T THEN Append(kept[n], s[n + 1]) ELSE kept[n]
      <4>1. Rule(kept)[n + 1] = IF s[n + 1] \in T THEN Append(kept[(n + 1) - 1], s[n + 1]) ELSE kept[(n + 1) - 1]
        BY <3>1
      <4> HIDE DEF Rule
      <4> QED
        BY <1>6, <3>1, <4>1
    <3> QED
      BY <1>4, <3>1, <3>2 DEF Grown
  <2>3. \A n \in Nat : n \in Same
    <3> HIDE DEF Same
    <3> QED
      BY <2>1, <2>2, SetInduction
  <2> QED
    BY <2>3
<1>9. Growing(g, s, S, T)
  BY <1>4 DEF Growing
<1> QED
  <2> HIDE DEF kept, Solves
  <2>1. kept[Len(s)] = g[Len(s)]
    BY <1>1, <1>8
  <2> QED
    BY <1>7, <1>9, <2>1

\* What is kept are elements of the list that pass.
LEMMA KeptPasses ==
    ASSUME NEW S, NEW s \in Seq(S), NEW T
    PROVE  Kept(s, T) \in Seq(S \cap T)
<1>1. Len(s) \in Nat
  OBVIOUS
<1>0. PICK kept : Growing(kept, s, S, T) /\ Kept(s, T) = kept[Len(s)]
  BY KeptIsReached
<1>2. /\ kept \in [0..Len(s) -> Seq(S)]
      /\ kept[0] = <<>>
      /\ \A n \in 1..Len(s) : kept[n] = Grown(kept, s, T, n)
      /\ Kept(s, T) = kept[Len(s)]
  BY <1>0 DEF Growing
<1> DEFINE Reached == {n \in Nat : n <= Len(s) => kept[n] \in Seq(S \cap T)}
<1>3. 0 \in Reached
  BY <1>2
<1>4. ASSUME NEW n \in Nat, n \in Reached PROVE n + 1 \in Reached
  <2> SUFFICES ASSUME n + 1 <= Len(s) PROVE kept[n + 1] \in Seq(S \cap T)
    OBVIOUS
  <2>1. kept[n] \in Seq(S \cap T) /\ n + 1 \in 1..Len(s) /\ (n + 1) - 1 = n
    BY <1>1, <1>4
  <2>2. kept[n + 1] = IF s[n + 1] \in T THEN Append(kept[n], s[n + 1]) ELSE kept[n]
    BY <1>2, <2>1 DEF Grown
  <2>3. s[n + 1] \in S
    BY <2>1
  <2> QED
    BY <2>1, <2>2, <2>3
<1>5. \A n \in Nat : n \in Reached
  <2> HIDE DEF Reached
  <2> QED
    BY <1>3, <1>4, SetInduction
<1> QED
  BY <1>1, <1>2, <1>5

\* Nothing is added, and where nothing is missing nothing has changed.
LEMMA KeptLength ==
    ASSUME NEW S, NEW s \in Seq(S), NEW T
    PROVE  /\ Len(Kept(s, T)) <= Len(s)
           /\ Len(Kept(s, T)) = Len(s) => Kept(s, T) = s
<1>1. Len(s) \in Nat
  OBVIOUS
<1>0. PICK kept : Growing(kept, s, S, T) /\ Kept(s, T) = kept[Len(s)]
  BY KeptIsReached
<1>2. /\ kept \in [0..Len(s) -> Seq(S)]
      /\ kept[0] = <<>>
      /\ \A n \in 1..Len(s) : kept[n] = Grown(kept, s, T, n)
      /\ Kept(s, T) = kept[Len(s)]
  BY <1>0 DEF Growing
<1> DEFINE Short(n) == /\ Len(kept[n]) <= n
                       /\ Len(kept[n]) = n => \A i \in 1..n : kept[n][i] = s[i]
           Reached == {n \in Nat : n <= Len(s) => Short(n)}
<1>3. 0 \in Reached
  BY <1>2
<1>4. ASSUME NEW n \in Nat, n \in Reached PROVE n + 1 \in Reached
  <2> SUFFICES ASSUME n + 1 <= Len(s) PROVE Short(n + 1)
    OBVIOUS
  <2>1. kept[n] \in Seq(S) /\ Short(n) /\ n + 1 \in 1..Len(s) /\ (n + 1) - 1 = n
    <3>1. kept[n] \in Seq(S) /\ n + 1 \in 1..Len(s) /\ (n + 1) - 1 = n
      BY <1>1, <1>2, <1>4
    <3>2. Short(n)
      BY <1>1, <1>4
    <3> HIDE DEF Short
    <3> QED
      BY <3>1, <3>2
  <2>2. kept[n + 1] = IF s[n + 1] \in T THEN Append(kept[n], s[n + 1]) ELSE kept[n]
    BY <1>2, <2>1 DEF Grown
  <2>3. s[n + 1] \in S
    BY <2>1
  <2>4. CASE s[n + 1] \in T
    <3>1. /\ Len(kept[n + 1]) = Len(kept[n]) + 1
          /\ \A i \in 1..Len(kept[n]) : kept[n + 1][i] = kept[n][i]
          /\ kept[n + 1][Len(kept[n]) + 1] = s[n + 1]
      BY <2>1, <2>2, <2>3, <2>4
    <3>2. Len(kept[n]) \in Nat /\ Len(kept[n]) <= n
      BY <2>1
    <3>3. Len(kept[n + 1]) <= n + 1
      BY <3>1, <3>2
    <3>4. ASSUME Len(kept[n + 1]) = n + 1, NEW i \in 1..(n + 1) PROVE kept[n + 1][i] = s[i]
      <4>1. Len(kept[n]) = n
        BY <3>1, <3>2, <3>4
      <4>2. CASE i = n + 1
        BY <3>1, <4>1, <4>2
      <4>3. CASE i # n + 1
        <5>1. i \in 1..n
          BY <4>3
        <5> QED
          BY <2>1, <3>1, <4>1, <5>1
      <4> QED
        BY <4>2, <4>3
    <3> QED
      BY <3>3, <3>4
  <2>5. CASE s[n + 1] \notin T
    BY <2>1, <2>2, <2>5
  <2> QED
    BY <2>4, <2>5
<1>5. \A n \in Nat : n \in Reached
  <2> HIDE DEF Reached
  <2> QED
    BY <1>3, <1>4, SetInduction
<1>6. Short(Len(s)) /\ Kept(s, T) \in Seq(S)
  BY <1>1, <1>2, <1>5
<1> QED
  BY <1>2, <1>6, SeqEqual

\* Where every element after one that passes does so too, what is kept is the end of the list.
LEMMA KeptIsTheEnd ==
    ASSUME NEW S, NEW s \in Seq(S), NEW T,
           \A i, j \in 1..Len(s) : i < j /\ s[i] \in T => s[j] \in T
    PROVE  \E from \in 0..Len(s) :
             /\ Len(Kept(s, T)) = Len(s) - from
             /\ \A i \in 1..(Len(s) - from) : Kept(s, T)[i] = s[from + i]
<1>1. Len(s) \in Nat
  OBVIOUS
<1>0. PICK kept : Growing(kept, s, S, T) /\ Kept(s, T) = kept[Len(s)]
  BY KeptIsReached
<1>2. /\ kept \in [0..Len(s) -> Seq(S)]
      /\ kept[0] = <<>>
      /\ \A n \in 1..Len(s) : kept[n] = Grown(kept, s, T, n)
      /\ Kept(s, T) = kept[Len(s)]
  BY <1>0 DEF Growing
<1> DEFINE From(from, n) == /\ Len(kept[n]) = n - from
                            /\ \A i \in 1..(n - from) : kept[n][i] = s[from + i]
                            /\ from < n => s[n] \in T
           Reached == {n \in Nat : n <= Len(s) => \E from \in 0..n : From(from, n)}
<1>3. 0 \in Reached
  <2>1. From(0, 0)
    BY <1>2
  <2> QED
    BY <2>1
<1>4. ASSUME NEW n \in Nat, n \in Reached PROVE n + 1 \in Reached
  <2> HIDE DEF From
  <2> SUFFICES ASSUME n + 1 <= Len(s) PROVE \E from \in 0..(n + 1) : From(from, n + 1)
    OBVIOUS
  <2>1. PICK from \in 0..n : From(from, n)
    BY <1>1, <1>4
  <2> USE DEF From
  <2>2. kept[n] \in Seq(S) /\ n + 1 \in 1..Len(s) /\ (n + 1) - 1 = n
    BY <1>1, <1>2, <1>4
  <2>3. kept[n + 1] = IF s[n + 1] \in T THEN Append(kept[n], s[n + 1]) ELSE kept[n]
    BY <1>2, <2>2 DEF Grown
  <2>4. s[n + 1] \in S
    BY <2>2
  <2>5. CASE s[n + 1] \in T
    <3>1. /\ Len(kept[n + 1]) = Len(kept[n]) + 1
          /\ \A i \in 1..Len(kept[n]) : kept[n + 1][i] = kept[n][i]
          /\ kept[n + 1][Len(kept[n]) + 1] = s[n + 1]
      BY <2>2, <2>3, <2>4, <2>5
    <3>2. From(from, n + 1)
      BY <2>1, <2>5, <3>1
    <3> HIDE DEF From
    <3> QED
      BY <2>1, <3>2
  <2>6. CASE s[n + 1] \notin T
    <3>1. from = n
      BY <2>1, <2>2, <2>6
    <3>2. From(n + 1, n + 1)
      BY <2>1, <2>2, <2>3, <2>6, <3>1
    <3> HIDE DEF From
    <3> QED
      BY <2>1, <3>2
  <2> QED
    BY <2>5, <2>6
<1>5. \A n \in Nat : n \in Reached
  <2> HIDE DEF Reached
  <2> QED
    BY <1>3, <1>4, SetInduction
<1>6. PICK from \in 0..Len(s) : From(from, Len(s))
  <2>1. Len(s) \in Reached
    BY <1>1, <1>5
  <2> HIDE DEF From
  <2> QED
    BY <1>1, <2>1
<1> QED
  BY <1>2, <1>6

\* Nothing that passes is left out.
LEMMA KeptKeeps ==
    ASSUME NEW S, NEW s \in Seq(S), NEW T, NEW i \in 1..Len(s), s[i] \in T
    PROVE  \E j \in 1..Len(Kept(s, T)) : Kept(s, T)[j] = s[i]
<1>1. Len(s) \in Nat
  OBVIOUS
<1>0. PICK kept : Growing(kept, s, S, T) /\ Kept(s, T) = kept[Len(s)]
  BY KeptIsReached
<1>2. /\ kept \in [0..Len(s) -> Seq(S)]
      /\ \A n \in 1..Len(s) : kept[n] = Grown(kept, s, T, n)
      /\ Kept(s, T) = kept[Len(s)]
  BY <1>0 DEF Growing
<1> DEFINE Has(n) == \E j \in 1..Len(kept[n]) : kept[n][j] = s[i]
           Reached == {n \in Nat : i <= n /\ n <= Len(s) => Has(n)}
<1>3. 0 \in Reached
  OBVIOUS
<1>4. ASSUME NEW n \in Nat, n \in Reached PROVE n + 1 \in Reached
  <2> SUFFICES ASSUME i <= n + 1, n + 1 <= Len(s) PROVE Has(n + 1)
    OBVIOUS
  <2>1. kept[n] \in Seq(S) /\ n + 1 \in 1..Len(s) /\ (n + 1) - 1 = n
    <3>1. n \in 0..Len(s) /\ n + 1 \in 1..Len(s) /\ (n + 1) - 1 = n
      BY <1>1, <1>4
    <3> HIDE DEF Reached
    <3> QED
      BY <1>2, <3>1
  <2>2. kept[n + 1] = IF s[n + 1] \in T THEN Append(kept[n], s[n + 1]) ELSE kept[n]
    BY <1>2, <2>1 DEF Grown
  <2>3. s[n + 1] \in S
    BY <2>1
  <2>4. /\ Len(Append(kept[n], s[n + 1])) = Len(kept[n]) + 1 /\ Len(kept[n]) \in Nat
        /\ \A j \in 1..Len(kept[n]) : Append(kept[n], s[n + 1])[j] = kept[n][j]
        /\ Append(kept[n], s[n + 1])[Len(kept[n]) + 1] = s[n + 1]
    BY <2>1, <2>3
  <2>5. CASE i = n + 1
    <3>1. kept[n + 1] = Append(kept[n], s[n + 1])
      BY <2>2, <2>5
    <3>2. Len(kept[n]) + 1 \in 1..Len(kept[n + 1]) /\ kept[n + 1][Len(kept[n]) + 1] = s[i]
      BY <2>4, <2>5, <3>1
    <3> QED
      BY <3>2
  <2>6. CASE i # n + 1
    <3>1. PICK j \in 1..Len(kept[n]) : kept[n][j] = s[i]
      BY <1>4, <2>1, <2>6
    <3>2. j \in 1..Len(kept[n + 1]) /\ kept[n + 1][j] = s[i]
      BY <2>2, <2>4, <3>1
    <3> QED
      BY <3>2
  <2> QED
    BY <2>5, <2>6
<1>5. \A n \in Nat : n \in Reached
  <2> HIDE DEF Reached
  <2> QED
    BY <1>3, <1>4, SetInduction
<1>6. Has(Len(s))
  BY <1>1, <1>5
<1> QED
  BY <1>2, <1>6

\* The places at, in order, are those of the first n elements of s that pass, and k is what they hold.
Placed(k, at, s, n, T) ==
    /\ at \in [1..Len(k) -> 1..n]
    /\ \A j \in 1..Len(k) : k[j] = s[at[j]] /\ s[at[j]] \in T
    /\ \A i, j \in 1..Len(k) : i < j => at[i] < at[j]
    /\ \A i \in 1..n : s[i] \in T => \E j \in 1..Len(k) : at[j] = i

\* One element more that passes takes the last place.
LEMMA PlacedGrows ==
    ASSUME NEW S, NEW s \in Seq(S), NEW n \in Nat, n + 1 <= Len(s), NEW T, NEW k \in Seq(S), NEW at,
           Placed(k, at, s, n, T)
    PROVE  /\ s[n + 1] \in T => \E into : Placed(Append(k, s[n + 1]), into, s, n + 1, T)
           /\ s[n + 1] \notin T => Placed(k, at, s, n + 1, T)
<1>1. Len(s) \in Nat /\ Len(k) \in Nat /\ s[n + 1] \in S
  OBVIOUS
<1>2. /\ at \in [1..Len(k) -> 1..n]
      /\ \A j \in 1..Len(k) : k[j] = s[at[j]] /\ s[at[j]] \in T
      /\ \A i, j \in 1..Len(k) : i < j => at[i] < at[j]
      /\ \A i \in 1..n : s[i] \in T => \E j \in 1..Len(k) : at[j] = i
  BY DEF Placed
<1>3. ASSUME s[n + 1] \in T PROVE \E into : Placed(Append(k, s[n + 1]), into, s, n + 1, T)
  <2>1. PICK m : m = Len(k)
    OBVIOUS
  <2>2. PICK into : into = [j \in 1..(m + 1) |-> IF j = m + 1 THEN n + 1 ELSE at[j]]
    OBVIOUS
  <2>3. PICK longer : longer = Append(k, s[n + 1])
    OBVIOUS
  <2>4. /\ Len(longer) = m + 1 /\ longer[m + 1] = s[n + 1]
        /\ \A j \in 1..m : longer[j] = k[j]
    BY <1>1, <2>1, <2>3
  <2>5. into[m + 1] = n + 1 /\ \A j \in 1..m : into[j] = at[j] /\ into[j] \in 1..n
    <3>1. m + 1 \in 1..(m + 1) /\ into[m + 1] = n + 1
      BY <1>1, <2>1, <2>2
    <3>2. ASSUME NEW j \in 1..m PROVE into[j] = at[j] /\ into[j] \in 1..n
      <4>1. j \in 1..(m + 1) /\ j # m + 1 /\ j \in 1..Len(k)
        BY <1>1, <2>1
      <4> QED
        BY <1>2, <2>2, <4>1
    <3> QED
      BY <3>1, <3>2
  <2>6. \A j \in 1..(m + 1) : j = m + 1 \/ j \in 1..m
    BY <1>1, <2>1
  <2>7. into \in [1..(m + 1) -> 1..(n + 1)]
    <3>1. \A j \in 1..(m + 1) : into[j] \in 1..(n + 1)
      BY <2>5, <2>6
    <3> QED
      BY <2>2, <3>1
  <2>8. \A j \in 1..(m + 1) : longer[j] = s[into[j]] /\ s[into[j]] \in T
    BY <1>2, <1>3, <2>1, <2>4, <2>5, <2>6
  <2>9. \A i, j \in 1..(m + 1) : i < j => into[i] < into[j]
    <3> SUFFICES ASSUME NEW i \in 1..(m + 1), NEW j \in 1..(m + 1), i < j PROVE into[i] < into[j]
      OBVIOUS
    <3>1. i \in 1..m
      BY <1>1, <2>1
    <3>2. CASE j = m + 1
      BY <2>5, <3>1, <3>2
    <3>3. CASE j \in 1..m
      BY <1>2, <2>1, <2>5, <3>1, <3>3
    <3> QED
      BY <2>6, <3>2, <3>3
  <2>10. \A i \in 1..(n + 1) : s[i] \in T => \E j \in 1..(m + 1) : into[j] = i
    <3> SUFFICES ASSUME NEW i \in 1..(n + 1), s[i] \in T PROVE \E j \in 1..(m + 1) : into[j] = i
      OBVIOUS
    <3>1. CASE i = n + 1
      <4>1. m + 1 \in 1..(m + 1)
        BY <1>1, <2>1
      <4> QED
        BY <2>5, <3>1, <4>1
    <3>2. CASE i \in 1..n
      <4>1. PICK j \in 1..m : at[j] = i
        BY <1>2, <2>1, <3>2
      <4>2. j \in 1..(m + 1) /\ into[j] = i
        BY <1>1, <2>1, <2>5, <4>1
      <4> QED
        BY <4>2
    <3> QED
      BY <3>1, <3>2
  <2>11. Placed(longer, into, s, n + 1, T)
    BY <2>4, <2>7, <2>8, <2>9, <2>10 DEF Placed
  <2> QED
    BY <2>3, <2>11
<1>4. ASSUME s[n + 1] \notin T PROVE Placed(k, at, s, n + 1, T)
  <2>1. at \in [1..Len(k) -> 1..(n + 1)]
    BY <1>1, <1>2
  <2>2. \A i \in 1..(n + 1) : s[i] \in T => i \in 1..n
    BY <1>4
  <2> QED
    BY <1>2, <2>1, <2>2 DEF Placed
<1> QED
  BY <1>3, <1>4

\* What is kept are the elements that pass, each once and in their order.
LEMMA KeptInPlace ==
    ASSUME NEW S, NEW s \in Seq(S), NEW T
    PROVE  \E at : Placed(Kept(s, T), at, s, Len(s), T)
<1>1. Len(s) \in Nat
  OBVIOUS
<1>0. PICK kept : Growing(kept, s, S, T) /\ Kept(s, T) = kept[Len(s)]
  BY KeptIsReached
<1>2. /\ kept \in [0..Len(s) -> Seq(S)]
      /\ kept[0] = <<>>
      /\ \A n \in 1..Len(s) : kept[n] = Grown(kept, s, T, n)
      /\ Kept(s, T) = kept[Len(s)]
  BY <1>0 DEF Growing
<1> DEFINE Reached == {n \in Nat : n <= Len(s) => \E at : Placed(kept[n], at, s, n, T)}
<1>3. 0 \in Reached
  <2>1. Placed(<<>>, <<>>, s, 0, T)
    BY DEF Placed
  <2> QED
    BY <1>2, <2>1
<1>4. ASSUME NEW n \in Nat, n \in Reached PROVE n + 1 \in Reached
  <2> SUFFICES ASSUME n + 1 <= Len(s) PROVE \E at : Placed(kept[n + 1], at, s, n + 1, T)
    OBVIOUS
  <2>1. PICK at : Placed(kept[n], at, s, n, T)
    BY <1>1, <1>4
  <2>2. n \in 0..Len(s) /\ n + 1 \in 1..Len(s) /\ (n + 1) - 1 = n
    BY <1>1
  <2>3. kept[n] \in Seq(S)
    BY <1>2, <2>2
  <2>4. kept[n + 1] = IF s[n + 1] \in T THEN Append(kept[n], s[n + 1]) ELSE kept[n]
    BY <1>2, <2>2 DEF Grown
  <2>5. /\ s[n + 1] \in T => \E into : Placed(Append(kept[n], s[n + 1]), into, s, n + 1, T)
        /\ s[n + 1] \notin T => Placed(kept[n], at, s, n + 1, T)
    BY <2>1, <2>3, PlacedGrows
  <2> QED
    BY <2>4, <2>5
<1>5. \A n \in Nat : n \in Reached
  <2> HIDE DEF Reached
  <2> QED
    BY <1>3, <1>4, SetInduction
<1>6. \E at : Placed(kept[Len(s)], at, s, Len(s), T)
  BY <1>1, <1>5
<1> QED
  BY <1>2, <1>6

\* As a set, what is kept is what passes.
LEMMA KeptIsFiltered ==
    ASSUME NEW S, NEW s \in Seq(S), NEW T
    PROVE  /\ Kept(s, T) \in Seq(S) /\ Kept(s, T) \in Seq(T)
           /\ Range(Kept(s, T)) = Range(s) \cap T
<1>1. PICK k : k = Kept(s, T)
  OBVIOUS
<1>2. k \in Seq(S) /\ k \in Seq(T)
  <2>1. k \in Seq(S \cap T)
    BY <1>1, KeptPasses
  <2>2. Len(k) \in Nat /\ k = [j \in 1..Len(k) |-> k[j]] /\ \A j \in 1..Len(k) : k[j] \in S /\ k[j] \in T
    BY <2>1
  <2> QED
    BY <2>2
<1>3. PICK at : Placed(k, at, s, Len(s), T)
  BY <1>1, KeptInPlace
<1>4. DOMAIN k = 1..Len(k) /\ DOMAIN s = 1..Len(s)
  BY <1>2
<1>5. ASSUME NEW j \in DOMAIN k PROVE k[j] \in T /\ \E i \in DOMAIN s : s[i] = k[j]
  BY <1>3, <1>4, <1>5 DEF Placed
<1>6. ASSUME NEW i \in DOMAIN s, s[i] \in T PROVE \E j \in DOMAIN k : k[j] = s[i]
  <2>1. PICK j \in 1..Len(k) : at[j] = i
    BY <1>3, <1>4, <1>6 DEF Placed
  <2>2. k[j] = s[i]
    BY <1>3, <2>1 DEF Placed
  <2> QED
    BY <1>4, <2>2
<1>7. Range(k) = Range(s) \cap T
  BY <1>5, <1>6 DEF Range
<1> QED
  BY <1>1, <1>2, <1>7

\* There are as many of them as there are places that hold one.
LEMMA KeptCount ==
    ASSUME NEW S, NEW s \in Seq(S), NEW T
    PROVE  Len(Kept(s, T)) = Cardinality({i \in 1..Len(s) : s[i] \in T})
<1>1. PICK k : k = Kept(s, T)
  OBVIOUS
<1>2. k \in Seq(S) /\ Len(k) \in Nat /\ Len(s) \in Nat
  <2>1. k \in Seq(S)
    BY <1>1, KeptIsFiltered
  <2> QED
    BY <2>1
<1>3. PICK at : Placed(k, at, s, Len(s), T)
  BY <1>1, KeptInPlace
<1> DEFINE P == {i \in 1..Len(s) : s[i] \in T}
<1>4. at \in [1..Len(k) -> P]
  BY <1>3 DEF Placed
<1>5. ASSUME NEW i \in 1..Len(k), NEW j \in 1..Len(k), at[i] = at[j] PROVE i = j
  <2>1. \A a, b \in 1..Len(k) : a < b => at[a] < at[b]
    BY <1>3 DEF Placed
  <2>2. at[i] \in Int /\ at[j] \in Int
    BY <1>4
  <2> QED
    BY <1>2, <1>5, <2>1, <2>2
<1>6. ASSUME NEW i \in P PROVE \E j \in 1..Len(k) : at[j] = i
  BY <1>3, <1>6 DEF Placed
<1>7. at \in Bijection(1..Len(k), P)
  <2> HIDE DEF P
  <2>1. at \in Injection(1..Len(k), P)
    BY <1>4, <1>5 DEF Injection, IsInjective
  <2>2. at \in Surjection(1..Len(k), P)
    BY <1>4, <1>6 DEF Surjection
  <2> QED
    BY <2>1, <2>2 DEF Bijection
<1>8. ExistsBijection(1..Len(k), P)
  BY <1>7 DEF ExistsBijection
<1>9. Cardinality(P) = Len(k)
  <2> HIDE DEF P
  <2> QED
    BY <1>2, <1>8, FS_CountingElements
<1> QED
  BY <1>1, <1>9

\* A set of numbers has a least one.
LEMMA LeastNumber ==
    ASSUME NEW S, S \subseteq Nat, S # {}
    PROVE  \E i \in S : \A j \in S : i <= j
<1> DEFINE R == {ss \in Nat \X Nat : ss[1] < ss[2]}
<1>1. IsWellFoundedOn(R, Nat)
  BY NatLessThanWellFounded DEF OpToRel
<1>2. PICK i \in S : \A j \in S : ~(<<j, i>> \in R)
  <2> HIDE DEF R
  <2> QED
    BY <1>1, WFMin
<1>3. \A j \in S : j \in Nat /\ i \in Nat /\ ~(j < i)
  BY <1>2
<1>4. \A j \in S : i <= j
  BY <1>3
<1> QED
  BY <1>4

\* The places that have a key, and every key with as many numbers as it has places.
PlacesOf(key, id) == {i \in DOMAIN key : key[i] = id}
Tallied(key) == UNION {{id} \X (1..Cardinality(PlacesOf(key, id))) : id \in Range(key)}

\* Counted by their key the places of a list come to all of them.
LEMMA TallyIsComplete ==
    ASSUME NEW n \in Nat, NEW key, DOMAIN key = 1..n
    PROVE  Cardinality(Tallied(key)) = n
<1> DEFINE Fits(f, id) ==
              /\ f \in [1..Cardinality(PlacesOf(key, id)) -> PlacesOf(key, id)]
              /\ \A a, b \in 1..Cardinality(PlacesOf(key, id)) : f[a] = f[b] => a = b
              /\ \A i \in PlacesOf(key, id) : \E a \in 1..Cardinality(PlacesOf(key, id)) : f[a] = i
           at == [id \in Range(key) |-> CHOOSE f : Fits(f, id)]
           place == [q \in Tallied(key) |-> at[q[1]][q[2]]]
<1>1. IsFiniteSet(1..n) /\ Cardinality(1..n) = n
  BY FS_Interval
<1>2. ASSUME NEW id \in Range(key) PROVE Fits(at[id], id)
  <2>1. PICK P : P = PlacesOf(key, id)
    OBVIOUS
  <2>2. P \subseteq 1..n
    BY <2>1 DEF PlacesOf
  <2>3. IsFiniteSet(P)
    BY <1>1, <2>2, FS_Subset
  <2>4. PICK c : c = Cardinality(P)
    OBVIOUS
  <2>5. c \in Nat /\ ExistsBijection(1..c, P)
    <3>1. PICK m \in Nat : ExistsBijection(1..m, P)
      BY <2>3, FS_NatBijection
    <3>2. m = c
      BY <2>4, <3>1, FS_CountingElements
    <3> QED
      BY <3>1, <3>2
  <2>6. PICK f \in Bijection(1..c, P) : TRUE
    BY <2>5 DEF ExistsBijection
  <2>7. f \in [1..c -> P] /\ (\A a, b \in 1..c : f[a] = f[b] => a = b) /\ \A i \in P : \E a \in 1..c : f[a] = i
    BY <2>6 DEF Bijection, Injection, IsInjective, Surjection
  <2>8. Fits(f, id)
    BY <2>1, <2>4, <2>7
  <2> HIDE DEF Fits
  <2>9. Fits(CHOOSE h : Fits(h, id), id)
    BY <2>8
  <2> QED
    BY <2>9
<1> HIDE DEF at
<1>3. ASSUME NEW q \in Tallied(key)
      PROVE  /\ q[1] \in Range(key) /\ q[2] \in 1..Cardinality(PlacesOf(key, q[1])) /\ q = <<q[1], q[2]>>
             /\ place[q] = at[q[1]][q[2]]
             /\ place[q] \in 1..n /\ key[place[q]] = q[1]
  <2>1. PICK id \in Range(key) : q \in {id} \X (1..Cardinality(PlacesOf(key, id)))
    BY <1>3 DEF Tallied
  <2>2. q[1] = id /\ q[2] \in 1..Cardinality(PlacesOf(key, id)) /\ q = <<q[1], q[2]>>
    BY <2>1
  <2>3. place[q] = at[id][q[2]]
    BY <2>2
  <2>4. at[id] \in [1..Cardinality(PlacesOf(key, id)) -> PlacesOf(key, id)]
    BY <1>2
  <2>5. place[q] \in PlacesOf(key, id)
    BY <2>2, <2>3, <2>4
  <2>6. place[q] \in 1..n /\ key[place[q]] = id
    BY <2>5 DEF PlacesOf
  <2> QED
    BY <2>2, <2>3, <2>6
<1>4. DOMAIN place = Tallied(key) /\ place = [q \in Tallied(key) |-> place[q]]
  OBVIOUS
<1> HIDE DEF place
<1>5. ASSUME NEW q \in Tallied(key), NEW r \in Tallied(key), place[q] = place[r] PROVE q = r
  <2>1. q[1] = r[1]
    BY <1>3, <1>5
  <2>2. at[q[1]][q[2]] = at[q[1]][r[2]]
    BY <1>3, <1>5, <2>1
  <2>3. q[2] = r[2]
    BY <1>2, <1>3, <2>1, <2>2
  <2> QED
    BY <1>3, <2>1, <2>3
<1>6. ASSUME NEW i \in 1..n PROVE \E q \in Tallied(key) : place[q] = i
  <2>1. PICK id : id = key[i]
    OBVIOUS
  <2>2. id \in Range(key) /\ i \in PlacesOf(key, id)
    BY <2>1 DEF Range, PlacesOf
  <2>3. PICK a \in 1..Cardinality(PlacesOf(key, id)) : at[id][a] = i
    BY <1>2, <2>2
  <2>4. PICK q : q = <<id, a>>
    OBVIOUS
  <2>5. q \in {id} \X (1..Cardinality(PlacesOf(key, id)))
    BY <2>4
  <2>6. q \in Tallied(key)
    BY <2>2, <2>5 DEF Tallied
  <2>7. place[q] = i
    BY <1>3, <2>3, <2>4, <2>6
  <2> QED
    BY <2>6, <2>7
<1>7. place \in Injection(Tallied(key), 1..n) /\ place \in Surjection(Tallied(key), 1..n)
  <2>1. place \in [Tallied(key) -> 1..n]
    BY <1>3, <1>4
  <2>2. place \in Injection(Tallied(key), 1..n)
    BY <1>5, <2>1 DEF Injection, IsInjective
  <2>3. place \in Surjection(Tallied(key), 1..n)
    BY <1>6, <2>1 DEF Surjection
  <2> QED
    BY <2>2, <2>3
<1> QED
  BY <1>1, <1>7, FS_Injection

\* One of the places of a list has the greatest number, and is the first that has it.
LEMMA GreatestNumber ==
    ASSUME NEW n \in Nat, NEW f \in [1..(n + 1) -> Int]
    PROVE  \E i \in 1..(n + 1) : \A j \in 1..(n + 1) : f[j] < f[i] \/ (f[j] = f[i] /\ i <= j)
<1> DEFINE Leads(i, m) == \A j \in 1..(m + 1) : f[j] < f[i] \/ (f[j] = f[i] /\ i <= j)
           Reached == {m \in Nat : m <= n => \E i \in 1..(m + 1) : Leads(i, m)}
<1>1. 0 \in Reached
  <2>1. 1 \in 1..(0 + 1) /\ Leads(1, 0)
    OBVIOUS
  <2> HIDE DEF Leads
  <2> QED
    BY <2>1
<1>2. ASSUME NEW m \in Nat, m \in Reached PROVE m + 1 \in Reached
  <2> SUFFICES ASSUME m + 1 <= n PROVE \E i \in 1..((m + 1) + 1) : Leads(i, m + 1)
    OBVIOUS
  <2>1. PICK i \in 1..(m + 1) : Leads(i, m)
    <3> HIDE DEF Leads
    <3> QED
      BY <1>2
  <2>2. PICK next : next = (m + 1) + 1
    OBVIOUS
  <2>3. next \in 1..(n + 1) /\ i \in 1..(n + 1) /\ \A j \in 1..next : j = next \/ j \in 1..(m + 1)
    BY <2>2
  <2>4. f[next] \in Int /\ f[i] \in Int /\ \A j \in 1..(m + 1) : f[j] \in Int
    BY <2>3
  <2>5. CASE f[next] > f[i]
    <3>1. \A j \in 1..(m + 1) : f[j] < f[next]
      BY <2>1, <2>4, <2>5
    <3>2. Leads(next, m + 1)
      BY <2>2, <2>3, <3>1
    <3> QED
      BY <2>2, <2>3, <3>2
  <2>6. CASE ~(f[next] > f[i])
    <3>1. f[next] < f[i] \/ (f[next] = f[i] /\ i <= next)
      BY <2>2, <2>4, <2>6
    <3>2. Leads(i, m + 1)
      BY <2>1, <2>2, <2>3, <3>1
    <3>3. i \in 1..((m + 1) + 1)
      OBVIOUS
    <3> HIDE DEF Leads
    <3> QED
      BY <3>2, <3>3
  <2> QED
    BY <2>5, <2>6
<1>3. \A m \in Nat : m \in Reached
  <2> HIDE DEF Reached
  <2> QED
    BY <1>1, <1>2, SetInduction
<1>4. n \in Reached
  BY <1>3
<1>5. n <= n
  OBVIOUS
<1>6. PICK i \in 1..(n + 1) : Leads(i, n)
  <2> HIDE DEF Leads
  <2> QED
    BY <1>4, <1>5
<1> QED
  BY <1>6
===============================================================================
