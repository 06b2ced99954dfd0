----------------------------- MODULE MergeProofs -----------------------------
(***************************************************************************)
(* Theorems about a build's merge, for any mods, scripts, files and        *)
(* settings.  See README.md for the argument.                              *)
(***************************************************************************)
EXTENDS Merge, FiniteSetTheorems, SequenceTheorems, WellFoundedInduction, TLAPS

(***************************************************************************)
(* Recursion over 1..N.  A recursive function is a CHOOSE: it is what its  *)
(* definition says once some function is.                                  *)
(***************************************************************************)

(* A set of naturals with a member has a least one.                        *)
LEMMA LeastNatural ==
  ASSUME NEW S \in SUBSET Nat, S # {}
  PROVE  \E n \in S : \A m \in S : n <= m
<1> DEFINE R == OpToRel(<,Nat)
<1>1. IsWellFoundedOn(R, Nat)
  BY NatLessThanWellFounded
<1>2. R = {pair \in Nat \X Nat : pair[1] < pair[2]}
  BY DEF OpToRel
<1> HIDE DEF R
<1>3. PICK n \in S : \A m \in S : <<m, n>> \notin R
  BY <1>1, WFMin
<1>4. ASSUME NEW m \in S PROVE n <= m
  <2>1. m \in Nat /\ n \in Nat /\ (<<m, n>> \in R <=> m < n)
    BY <1>2
  <2> QED BY <1>3, <2>1
<1> QED BY <1>4

LEMMA InductionUpTo ==
  ASSUME NEW N \in Nat, NEW S, 0 \in S, \A n \in 0..(N - 1) : n \in S => n + 1 \in S
  PROVE  0..N \subseteq S
<1> SUFFICES ASSUME (0..N) \ S # {} PROVE FALSE
  OBVIOUS
<1>1. (0..N) \ S \in SUBSET Nat
  OBVIOUS
<1>2. PICK n \in (0..N) \ S : \A m \in (0..N) \ S : n <= m
  BY <1>1, LeastNatural, Zenon
<1>3. n # 0 /\ n - 1 \in 0..(N - 1) /\ (n - 1) + 1 = n /\ n - 1 \in 0..N /\ ~(n <= n - 1)
  BY <1>2
<1> QED BY <1>2, <1>3

(* A recursion over 1..N within a set U, whose steps are in G.             *)
Recurs(f, N, b, G) == f[0] = b /\ \A i \in 1..N : f[i] = G[<<i, f[i - 1]>>]
LEMMA Recursion ==
  ASSUME NEW N \in Nat, NEW U, NEW b \in U, NEW G \in [(1..N) \X U -> U]
  PROVE  \E f \in [0..N -> U] : Recurs(f, N, b, G)
<1> DEFINE Upto(n) == {f \in [0..n -> U] : f[0] = b /\ \A i \in 1..n : f[i] = G[<<i, f[i - 1]>>]}
    Has == {n \in 0..N : Upto(n) # {}}
<1>1. 0 \in Has
  <2> DEFINE g == [i \in 0..0 |-> b]
  <2>1. g \in [0..0 -> U] /\ g[0] = b /\ 1..0 = {}
    OBVIOUS
  <2> HIDE DEF g
  <2>2. g \in Upto(0)
    BY <2>1
  <2> HIDE DEF Upto
  <2> QED BY <2>2
<1>2. ASSUME NEW n \in 0..(N - 1), n \in Has PROVE n + 1 \in Has
  <2>1. PICK f \in [0..n -> U] : f[0] = b /\ \A i \in 1..n : f[i] = G[<<i, f[i - 1]>>]
    BY <1>2
  <2> DEFINE g == [i \in 0..(n + 1) |-> IF i = n + 1 THEN G[<<n + 1, f[n]>>] ELSE f[i]]
  <2>2. n \in Nat /\ n + 1 \in 1..N /\ n \in 0..n /\ n + 1 \notin 0..n /\ n + 1 # 0
        /\ (n + 1) - 1 = n /\ n + 1 \in 0..N /\ \A i \in 1..(n + 1) : i \in 1..n \/ i = n + 1
    OBVIOUS
  <2>3. G[<<n + 1, f[n]>>] \in U
    BY <2>1, <2>2
  <2>4. g \in [0..(n + 1) -> U]
    BY <2>1, <2>2, <2>3
  <2>5. \A i \in 0..n : g[i] = f[i]
    BY <2>2
  <2>6. g[n + 1] = G[<<n + 1, f[n]>>]
    BY <2>2
  <2> HIDE DEF g
  <2>7. g[0] = b
    BY <2>1, <2>2, <2>5
  <2>8. ASSUME NEW i \in 1..(n + 1) PROVE g[i] = G[<<i, g[i - 1]>>]
    <3>1. CASE i = n + 1
      BY <2>2, <2>5, <2>6, <3>1
    <3>2. CASE i \in 1..n
      <4>1. i \in 0..n /\ i - 1 \in 0..n
        BY <3>2
      <4> QED BY <2>1, <2>5, <3>2, <4>1
    <3> QED BY <2>2, <3>1, <3>2
  <2>9. g \in Upto(n + 1)
    BY <2>4, <2>7, <2>8
  <2> HIDE DEF Upto
  <2> QED BY <2>2, <2>9
<1>3. N \in Has
  <2> HIDE DEF Has
  <2>1. 0..N \subseteq Has
    BY <1>1, <1>2, InductionUpTo
  <2> QED BY <2>1
<1> QED BY <1>3 DEF Recurs

Chosen(f, s, S) ==
  f = [i \in 0..Len(s) |-> IF i = 0 THEN << >> ELSE IF s[i] \in S THEN Append(f[i - 1], s[i]) ELSE f[i - 1]]

(* Those, element by element.                                              *)
Selects(f, s, S) ==
  /\ f[0] = << >>
  /\ \A i \in 1..Len(s) : f[i] = IF s[i] \in S THEN Append(f[i - 1], s[i]) ELSE f[i - 1]
  /\ Those(s, S) = f[Len(s)]
LEMMA ThoseSteps ==
  ASSUME NEW T, NEW s \in Seq(T), NEW S
  PROVE  \E f \in [0..Len(s) -> Seq(T)] : Selects(f, s, S)
<1> DEFINE N == Len(s)
    G == [p \in (1..N) \X Seq(T) |-> IF s[p[1]] \in S THEN Append(p[2], s[p[1]]) ELSE p[2]]
<1>1. N \in Nat /\ \A i \in 1..N : s[i] \in T
  OBVIOUS
<1>2. G \in [(1..N) \X Seq(T) -> Seq(T)]
  BY <1>1
<1>3. \A i \in 1..N, r \in Seq(T) : G[<<i, r>>] = IF s[i] \in S THEN Append(r, s[i]) ELSE r
  OBVIOUS
<1>4. << >> \in Seq(T)
  OBVIOUS
<1> HIDE DEF G
<1>a. PICK f \in [0..N -> Seq(T)] : Recurs(f, N, << >>, G)
  BY <1>1, <1>2, <1>4, Recursion, Zenon
<1>5. f[0] = << >> /\ \A i \in 1..N : f[i] = G[<<i, f[i - 1]>>]
  BY <1>a DEF Recurs
<1>6. \A i \in 1..N : i \in 0..N /\ i - 1 \in 0..N /\ i # 0
  BY <1>1
<1>7. \A i \in 1..N : f[i] = IF s[i] \in S THEN Append(f[i - 1], s[i]) ELSE f[i - 1]
  BY <1>3, <1>5, <1>6
<1> DEFINE H == CHOOSE h : Chosen(h, s, S)
<1>8. Those(s, S) = H[N]
  BY DEF Those, Chosen
<1>9. Chosen(f, s, S)
  <2> DEFINE F == [i \in 0..N |-> IF i = 0 THEN << >> ELSE IF s[i] \in S THEN Append(f[i - 1], s[i]) ELSE f[i - 1]]
  <2>1. \A i \in 0..N : F[i] = f[i]
    <3>1. \A i \in 0..N : i = 0 \/ i \in 1..N
      BY <1>1
    <3> QED BY <1>5, <1>7, <3>1
  <2>2. f = F
    BY <1>5, <2>1
  <2> QED BY <2>2 DEF Chosen
<1>10. Chosen(H, s, S)
  BY <1>9, Zenon
<1> HIDE DEF H
<1>11. H[0] = << >> /\ \A i \in 1..N : H[i] = IF s[i] \in S THEN Append(H[i - 1], s[i]) ELSE H[i - 1]
  <2> DEFINE F == [i \in 0..N |-> IF i = 0 THEN << >> ELSE IF s[i] \in S THEN Append(H[i - 1], s[i]) ELSE H[i - 1]]
  <2>1. H = F
    BY <1>10 DEF Chosen
  <2>2. \A i \in 0..N : F[i] = IF i = 0 THEN << >> ELSE IF s[i] \in S THEN Append(H[i - 1], s[i]) ELSE H[i - 1]
    OBVIOUS
  <2> HIDE DEF F
  <2>3. 0 \in 0..N
    BY <1>1
  <2> QED BY <1>6, <2>1, <2>2, <2>3
<1> DEFINE Same == {i \in 0..N : H[i] = f[i]}
<1>12. 0..N \subseteq Same
  <2>1. 0 \in Same
    BY <1>1, <1>5, <1>11
  <2>2. ASSUME NEW n \in 0..(N - 1), n \in Same PROVE n + 1 \in Same
    <3>1. n + 1 \in 1..N /\ (n + 1) - 1 = n /\ H[n] = f[n]
      BY <1>1, <2>2
    <3> QED BY <1>6, <1>7, <1>11, <3>1
  <2> HIDE DEF Same
  <2> QED BY <1>1, <2>1, <2>2, InductionUpTo
<1>13. Those(s, S) = f[N]
  BY <1>1, <1>8, <1>12
<1> QED BY <1>5, <1>7, <1>13 DEF Selects

(***************************************************************************)
(* Sequences, by what is in them.                                          *)
(***************************************************************************)
LEMMA EmptySequence == IsSequence(<< >>) /\ Range(<< >>) = {}
<1>1. << >> \in Seq(Range(<< >>)) /\ DOMAIN << >> = {}
  OBVIOUS
<1> QED BY <1>1 DEF IsSequence, Range

LEMMA SequenceOfMembers ==
  ASSUME NEW T, NEW s \in Seq(T)
  PROVE  IsSequence(s) /\ Range(s) \subseteq T
<1>1. DOMAIN s = 1..Len(s) /\ Len(s) \in Nat /\ \A i \in 1..Len(s) : s[i] \in T
  OBVIOUS
<1>2. \A i \in 1..Len(s) : s[i] \in Range(s)
  BY <1>1 DEF Range
<1> DEFINE R == Range(s)
<1>3. s \in Seq(R)
  <2>1. \A i \in 1..Len(s) : s[i] \in R
    BY <1>2
  <2> HIDE DEF R
  <2>2. s \in [1..Len(s) -> T]
    BY LenProperties
  <2>3. s \in [1..Len(s) -> R]
    BY <2>1, <2>2
  <2> QED BY <1>1, <2>3, SeqDef
<1> QED BY <1>1, <1>3 DEF IsSequence, Range

LEMMA SequenceIs ==
  ASSUME NEW s, IsSequence(s)
  PROVE  /\ Len(s) \in Nat /\ DOMAIN s = 1..Len(s)
         /\ Range(s) = {s[i] : i \in 1..Len(s)}
<1> DEFINE R == Range(s)
<1>1. s \in Seq(R)
  BY DEF IsSequence
<1> HIDE DEF R
<1>2. Len(s) \in Nat /\ DOMAIN s = 1..Len(s)
  BY <1>1
<1> QED BY <1>2 DEF Range

LEMMA MembersOfAppend ==
  ASSUME NEW s, IsSequence(s), NEW e
  PROVE  /\ IsSequence(Append(s, e)) /\ Range(Append(s, e)) = Range(s) \cup {e}
         /\ Append(s, e) # << >>
<1> DEFINE R == Range(s)
    T == R \cup {e}
    t == Append(s, e)
<1>1. s \in Seq(R) /\ s \in Seq(T) /\ e \in T
  <2>1. s \in Seq(R)
    BY DEF IsSequence
  <2> HIDE DEF R
  <2> QED BY <2>1
<1>2. /\ Len(s) \in Nat /\ t \in Seq(T) /\ DOMAIN t = 1..(Len(s) + 1) /\ t[Len(s) + 1] = e /\ t # << >>
      /\ \A i \in 1..Len(s) : t[i] = s[i]
  <2> HIDE DEF T
  <2>2. Len(s) \in Nat /\ t \in Seq(T) /\ DOMAIN t = 1..(Len(s) + 1) /\ t[Len(s) + 1] = e
        /\ \A i \in 1..Len(s) : t[i] = s[i]
    BY <1>1
  <2>3. Len(t) = Len(s) + 1 /\ Len(<< >>) = 0
    BY <1>1
  <2> QED BY <2>2, <2>3
<1>3. Range(s) = {s[i] : i \in 1..Len(s)}
  BY SequenceIs
<1>4. IsSequence(t)
  <2> HIDE DEF T, t
  <2> QED BY <1>2, SequenceOfMembers
<1> HIDE DEF t
<1>5. Range(t) = {t[i] : i \in 1..(Len(s) + 1)}
  BY <1>2 DEF Range
<1>6. 1..(Len(s) + 1) = (1..Len(s)) \cup {Len(s) + 1}
  BY <1>2
<1>7. Range(t) = Range(s) \cup {e}
  BY <1>2, <1>3, <1>5, <1>6
<1> QED BY <1>2, <1>4, <1>7 DEF t

LEMMA MembersOfConcat ==
  ASSUME NEW s, IsSequence(s), NEW t, IsSequence(t)
  PROVE  IsSequence(s \o t) /\ Range(s \o t) = Range(s) \cup Range(t)
<1> DEFINE R == Range(s)
    Q == Range(t)
    T == R \cup Q
    u == s \o t
    n == Len(s)
    m == Len(t)
<1>1. s \in Seq(T) /\ t \in Seq(T)
  <2>1. s \in Seq(R) /\ t \in Seq(Q)
    BY DEF IsSequence
  <2> HIDE DEF R, Q
  <2> QED BY <2>1
<1>2. /\ n \in Nat /\ m \in Nat /\ u \in Seq(T) /\ DOMAIN u = 1..(n + m)
      /\ \A i \in 1..n : u[i] = s[i]
      /\ \A i \in (n + 1)..(n + m) : u[i] = t[i - n]
  <2> HIDE DEF T
  <2> QED BY <1>1
<1>3. Range(s) = {s[i] : i \in 1..n} /\ Range(t) = {t[i] : i \in 1..m}
  BY SequenceIs
<1>4. IsSequence(u)
  <2> HIDE DEF T, u
  <2> QED BY <1>2, SequenceOfMembers
<1> HIDE DEF u, n, m
<1>5. Range(u) = {u[i] : i \in 1..(n + m)}
  BY <1>2 DEF Range
<1>6. Range(u) \subseteq Range(s) \cup Range(t)
  <2>1. ASSUME NEW i \in 1..(n + m) PROVE u[i] \in Range(s) \cup Range(t)
    <3>1. CASE i \in 1..n
      BY <1>2, <1>3, <3>1
    <3>2. CASE i \in (n + 1)..(n + m)
      <4>1. i - n \in 1..m
        BY <1>2, <3>2
      <4> QED BY <1>2, <1>3, <3>2, <4>1
    <3> QED BY <1>2, <2>1, <3>1, <3>2
  <2> QED BY <1>5, <2>1
<1>7. Range(s) \cup Range(t) \subseteq Range(u)
  <2>1. ASSUME NEW i \in 1..n PROVE s[i] \in Range(u)
    <3>1. i \in 1..(n + m)
      BY <1>2
    <3> QED BY <1>2, <1>5, <3>1
  <2>2. ASSUME NEW i \in 1..m PROVE t[i] \in Range(u)
    <3>1. i + n \in 1..(n + m) /\ i + n \in (n + 1)..(n + m) /\ (i + n) - n = i
      BY <1>2
    <3> QED BY <1>2, <1>5, <3>1
  <2> QED BY <1>3, <2>1, <2>2
<1> QED BY <1>4, <1>6, <1>7 DEF u

(***************************************************************************)
(* The engine's passes, step by step.                                      *)
(***************************************************************************)

(* The value changes of a scope.                                           *)
Changing(f, n, lines, blk, mod, scope) ==
  f = [i \in 0..n |-> IF i = 0 THEN [lines |-> lines, events |-> << >>, capped |-> 0]
                      ELSE OneChange(f[i - 1], blk, mod, scope, blk.changes[i])]

Changed(f, n, lines, blk, mod, scope) ==
  /\ f[0] = [lines |-> lines, events |-> << >>, capped |-> 0]
  /\ \A i \in 1..n : f[i] = OneChange(f[i - 1], blk, mod, scope, blk.changes[i])

LEMMA ChangingSteps ==
  ASSUME NEW lines, NEW blk, NEW mod, NEW scope, NEW n \in Nat, NEW f, Changing(f, n, lines, blk, mod, scope)
  PROVE  Changed(f, n, lines, blk, mod, scope)
<1> DEFINE Step(i) == IF i = 0 THEN [lines |-> lines, events |-> << >>, capped |-> 0]
                      ELSE OneChange(f[i - 1], blk, mod, scope, blk.changes[i])
    F == [i \in 0..n |-> Step(i)]
<1>1. f = F
  BY DEF Changing
<1> HIDE DEF Step
<1>2. \A i \in 0..n : F[i] = Step(i)
  OBVIOUS
<1> HIDE DEF F
<1>3. 0 \in 0..n /\ \A i \in 1..n : i \in 0..n /\ i # 0
  OBVIOUS
<1>4. /\ f[0] = [lines |-> lines, events |-> << >>, capped |-> 0]
      /\ \A i \in 1..n : f[i] = OneChange(f[i - 1], blk, mod, scope, blk.changes[i])
  BY <1>1, <1>2, <1>3 DEF Step
<1> QED BY <1>4 DEF Changed

LEMMA ChangingExists ==
  ASSUME NEW lines, NEW blk, NEW mod, NEW scope, NEW N \in Nat
  PROVE  \E f : Changing(f, N, lines, blk, mod, scope)
<1> DEFINE Has == {n \in 0..N : \E f : Changing(f, n, lines, blk, mod, scope)}
    Base == [lines |-> lines, events |-> << >>, capped |-> 0]
    Step(s, i) == OneChange(s, blk, mod, scope, blk.changes[i])
<1> HIDE DEF Base, Step
<1>1. ASSUME NEW n \in Nat, NEW f PROVE
        Changing(f, n, lines, blk, mod, scope) <=> f = [i \in 0..n |-> IF i = 0 THEN Base ELSE Step(f[i - 1], i)]
  BY Zenon DEF Changing, Base, Step
<1>2. 0 \in Has
  <2> DEFINE g == [i \in 0..0 |-> Base]
  <2>1. \A i \in 0..0 : i = 0
    OBVIOUS
  <2>2. g = [i \in 0..0 |-> IF i = 0 THEN Base ELSE Step(g[i - 1], i)]
    BY <2>1
  <2> HIDE DEF g
  <2>3. Changing(g, 0, lines, blk, mod, scope)
    BY <1>1, <2>2
  <2> QED BY <2>3
<1>3. ASSUME NEW n \in 0..(N - 1), n \in Has PROVE n + 1 \in Has
  <2>0. n \in Nat /\ n + 1 \in 0..N /\ n + 1 \notin 0..n /\ n + 1 # 0 /\ (n + 1) - 1 = n /\ n \in 0..n
        /\ \A i \in 0..(n + 1) : i # n + 1 => i \in 0..n /\ (i # 0 => i - 1 \in 0..n)
    OBVIOUS
  <2>1. PICK f : Changing(f, n, lines, blk, mod, scope)
    BY <1>3
  <2>2. f = [i \in 0..n |-> IF i = 0 THEN Base ELSE Step(f[i - 1], i)]
    BY <1>1, <2>0, <2>1
  <2>3. \A i \in 0..n : f[i] = IF i = 0 THEN Base ELSE Step(f[i - 1], i)
    BY <2>2
  <2> DEFINE g == [i \in 0..(n + 1) |-> IF i = n + 1 THEN Step(f[n], n + 1) ELSE f[i]]
      h == [i \in 0..(n + 1) |-> IF i = 0 THEN Base ELSE Step(g[i - 1], i)]
  <2>4. g[n + 1] = Step(f[n], n + 1) /\ \A i \in 0..n : g[i] = f[i]
    BY <2>0
  <2>5. DOMAIN g = 0..(n + 1) /\ g = [i \in 0..(n + 1) |-> g[i]]
    OBVIOUS
  <2> HIDE DEF g
  <2>6. \A i \in 0..(n + 1) : g[i] = h[i]
    <3>1. ASSUME NEW i \in 0..(n + 1) PROVE g[i] = IF i = 0 THEN Base ELSE Step(g[i - 1], i)
      <4>1. CASE i = n + 1
        BY <2>0, <2>4, <4>1
      <4>2. CASE i # n + 1
        BY <2>0, <2>3, <2>4, <4>2
      <4> QED BY <4>1, <4>2
    <3> QED BY <3>1
  <2>7. g = h
    BY <2>5, <2>6
  <2>8. Changing(g, n + 1, lines, blk, mod, scope)
    BY <1>1, <2>0, <2>7
  <2> QED BY <2>0, <2>8
<1>4. N \in Has
  <2> HIDE DEF Has
  <2>1. 0..N \subseteq Has
    BY <1>2, <1>3, InductionUpTo
  <2> QED BY <2>1
<1> QED BY <1>4

LEMMA ValueChangesSteps ==
  ASSUME NEW lines, NEW blk, NEW mod, NEW scope, IsSequence(blk.changes)
  PROVE  \E f : /\ Changing(f, Len(blk.changes), lines, blk, mod, scope)
                /\ ValueChanges(lines, blk, mod, scope) = f[Len(blk.changes)]
<1> DEFINE H == CHOOSE f : Changing(f, Len(blk.changes), lines, blk, mod, scope)
<1>1. Len(blk.changes) \in Nat
  BY SequenceIs
<1>2. Changing(H, Len(blk.changes), lines, blk, mod, scope)
  BY <1>1, ChangingExists, Zenon
<1>3. ValueChanges(lines, blk, mod, scope) = H[Len(blk.changes)]
  BY DEF ValueChanges, Changing
<1> HIDE DEF H
<1> QED BY <1>2, <1>3, Zenon

(* The sections of a FOREACH.                                              *)
Grouping(f, n, lines, blk, mod, groups, start) ==
  f = [i \in 0..n |-> IF i = 0 THEN [over |-> FALSE, lines |-> lines, events |-> << >>]
                      ELSE OneGroup(f[i - 1], blk, mod, groups[i], start, Len(lines) + 1)]

Grouped(f, n, lines, blk, mod, groups, start) ==
  /\ f[0] = [over |-> FALSE, lines |-> lines, events |-> << >>]
  /\ \A i \in 1..n : f[i] = OneGroup(f[i - 1], blk, mod, groups[i], start, Len(lines) + 1)

LEMMA GroupingSteps ==
  ASSUME NEW lines, NEW blk, NEW mod, NEW groups, NEW start, NEW n \in Nat, NEW f, Grouping(f, n, lines, blk, mod, groups, start)
  PROVE  Grouped(f, n, lines, blk, mod, groups, start)
<1> DEFINE Step(i) == IF i = 0 THEN [over |-> FALSE, lines |-> lines, events |-> << >>]
                      ELSE OneGroup(f[i - 1], blk, mod, groups[i], start, Len(lines) + 1)
    F == [i \in 0..n |-> Step(i)]
<1>1. f = F
  BY DEF Grouping
<1> HIDE DEF Step
<1>2. \A i \in 0..n : F[i] = Step(i)
  OBVIOUS
<1> HIDE DEF F
<1>3. 0 \in 0..n /\ \A i \in 1..n : i \in 0..n /\ i # 0
  OBVIOUS
<1> QED BY <1>1, <1>2, <1>3 DEF Step, Grouped

LEMMA GroupingExists ==
  ASSUME NEW lines, NEW blk, NEW mod, NEW groups, NEW start, NEW N \in Nat
  PROVE  \E f : Grouping(f, N, lines, blk, mod, groups, start)
<1> DEFINE Has == {n \in 0..N : \E f : Grouping(f, n, lines, blk, mod, groups, start)}
    Base == [over |-> FALSE, lines |-> lines, events |-> << >>]
    Step(s, i) == OneGroup(s, blk, mod, groups[i], start, Len(lines) + 1)
<1> HIDE DEF Base, Step
<1>1. ASSUME NEW n \in Nat, NEW f
      PROVE  Grouping(f, n, lines, blk, mod, groups, start) <=>
               f = [i \in 0..n |-> IF i = 0 THEN Base ELSE Step(f[i - 1], i)]
  BY Zenon DEF Grouping, Base, Step
<1>2. 0 \in Has
  <2> DEFINE g == [i \in 0..0 |-> Base]
  <2>1. \A i \in 0..0 : i = 0
    OBVIOUS
  <2>2. g = [i \in 0..0 |-> IF i = 0 THEN Base ELSE Step(g[i - 1], i)]
    BY <2>1
  <2> HIDE DEF g
  <2>3. Grouping(g, 0, lines, blk, mod, groups, start)
    BY <1>1, <2>2
  <2> QED BY <2>3
<1>3. ASSUME NEW n \in 0..(N - 1), n \in Has PROVE n + 1 \in Has
  <2>0. n \in Nat /\ n + 1 \in 0..N /\ n + 1 \notin 0..n /\ n + 1 # 0 /\ (n + 1) - 1 = n /\ n \in 0..n
        /\ \A i \in 0..(n + 1) : i # n + 1 => i \in 0..n /\ (i # 0 => i - 1 \in 0..n)
    OBVIOUS
  <2>1. PICK f : Grouping(f, n, lines, blk, mod, groups, start)
    BY <1>3
  <2>2. f = [i \in 0..n |-> IF i = 0 THEN Base ELSE Step(f[i - 1], i)]
    BY <1>1, <2>0, <2>1
  <2>3. \A i \in 0..n : f[i] = IF i = 0 THEN Base ELSE Step(f[i - 1], i)
    BY <2>2
  <2> DEFINE g == [i \in 0..(n + 1) |-> IF i = n + 1 THEN Step(f[n], n + 1) ELSE f[i]]
      h == [i \in 0..(n + 1) |-> IF i = 0 THEN Base ELSE Step(g[i - 1], i)]
  <2>4. g[n + 1] = Step(f[n], n + 1) /\ \A i \in 0..n : g[i] = f[i]
    BY <2>0
  <2>5. DOMAIN g = 0..(n + 1) /\ g = [i \in 0..(n + 1) |-> g[i]]
    OBVIOUS
  <2> HIDE DEF g
  <2>6. \A i \in 0..(n + 1) : g[i] = h[i]
    <3>1. ASSUME NEW i \in 0..(n + 1) PROVE g[i] = IF i = 0 THEN Base ELSE Step(g[i - 1], i)
      <4>1. CASE i = n + 1
        BY <2>0, <2>4, <4>1
      <4>2. CASE i # n + 1
        BY <2>0, <2>3, <2>4, <4>2
      <4> QED BY <4>1, <4>2
    <3> QED BY <3>1
  <2>7. g = h
    BY <2>5, <2>6
  <2>8. Grouping(g, n + 1, lines, blk, mod, groups, start)
    BY <1>1, <2>0, <2>7
  <2> QED BY <2>0, <2>8
<1>4. N \in Has
  <2> HIDE DEF Has
  <2>1. 0..N \subseteq Has
    BY <1>2, <1>3, InductionUpTo
  <2> QED BY <2>1
<1> QED BY <1>4

LEMMA GroupsSteps ==
  ASSUME NEW lines, NEW blk, NEW mod, NEW groups, NEW start, IsSequence(groups)
  PROVE  \E f : /\ Grouping(f, Len(groups), lines, blk, mod, groups, start)
                /\ Groups(lines, blk, mod, groups, start) =
                     [lines |-> f[Len(groups)].lines, events |-> f[Len(groups)].events]
<1> DEFINE H == CHOOSE f : Grouping(f, Len(groups), lines, blk, mod, groups, start)
<1>1. Len(groups) \in Nat
  BY SequenceIs
<1>2. Grouping(H, Len(groups), lines, blk, mod, groups, start)
  BY <1>1, GroupingExists, Zenon
<1>3. Groups(lines, blk, mod, groups, start) = [lines |-> H[Len(groups)].lines, events |-> H[Len(groups)].events]
  BY DEF Groups, Grouping
<1> HIDE DEF H
<1> QED BY <1>2, <1>3, Zenon

Applying(f, n, lines, items) ==
  f = [i \in 0..n |-> IF i = 0 THEN lines ELSE Apply(f[i - 1], items[i].block, items[i].mod).lines]

LEMMA ApplyingSteps ==
  ASSUME NEW lines, NEW items, NEW n \in Nat, NEW f, Applying(f, n, lines, items)
  PROVE  /\ f[0] = lines
         /\ \A i \in 1..n : f[i] = Apply(f[i - 1], items[i].block, items[i].mod).lines
<1> DEFINE Step(i) == IF i = 0 THEN lines
                      ELSE Apply(f[i - 1], items[i].block, items[i].mod).lines
    F == [i \in 0..n |-> Step(i)]
<1>1. f = F
  BY DEF Applying
<1> HIDE DEF Step
<1>2. \A i \in 0..n : F[i] = Step(i)
  OBVIOUS
<1> HIDE DEF F
<1>3. 0 \in 0..n /\ \A i \in 1..n : i \in 0..n /\ i # 0
  OBVIOUS
<1> QED BY <1>1, <1>2, <1>3 DEF Step

LEMMA ApplyingExists ==
  ASSUME NEW lines, NEW items, NEW N \in Nat
  PROVE  \E f : Applying(f, N, lines, items)
<1> DEFINE Has == {n \in 0..N : \E f : Applying(f, n, lines, items)}
    Base == lines
    Step(s, i) == Apply(s, items[i].block, items[i].mod).lines
<1> HIDE DEF Base, Step
<1>1. ASSUME NEW n \in Nat, NEW f
      PROVE  Applying(f, n, lines, items) <=>
               f = [i \in 0..n |-> IF i = 0 THEN Base ELSE Step(f[i - 1], i)]
  BY Zenon DEF Applying, Base, Step
<1>2. 0 \in Has
  <2> DEFINE g == [i \in 0..0 |-> Base]
  <2>1. \A i \in 0..0 : i = 0
    OBVIOUS
  <2>2. g = [i \in 0..0 |-> IF i = 0 THEN Base ELSE Step(g[i - 1], i)]
    BY <2>1
  <2> HIDE DEF g
  <2>3. Applying(g, 0, lines, items)
    BY <1>1, <2>2
  <2> QED BY <2>3
<1>3. ASSUME NEW n \in 0..(N - 1), n \in Has PROVE n + 1 \in Has
  <2>0. n \in Nat /\ n + 1 \in 0..N /\ n + 1 \notin 0..n /\ n + 1 # 0 /\ (n + 1) - 1 = n /\ n \in 0..n
        /\ \A i \in 0..(n + 1) : i # n + 1 => i \in 0..n /\ (i # 0 => i - 1 \in 0..n)
    OBVIOUS
  <2>1. PICK f : Applying(f, n, lines, items)
    BY <1>3
  <2>2. f = [i \in 0..n |-> IF i = 0 THEN Base ELSE Step(f[i - 1], i)]
    BY <1>1, <2>0, <2>1
  <2>3. \A i \in 0..n : f[i] = IF i = 0 THEN Base ELSE Step(f[i - 1], i)
    BY <2>2
  <2> DEFINE g == [i \in 0..(n + 1) |-> IF i = n + 1 THEN Step(f[n], n + 1) ELSE f[i]]
      h == [i \in 0..(n + 1) |-> IF i = 0 THEN Base ELSE Step(g[i - 1], i)]
  <2>4. g[n + 1] = Step(f[n], n + 1) /\ \A i \in 0..n : g[i] = f[i]
    BY <2>0
  <2>5. DOMAIN g = 0..(n + 1) /\ g = [i \in 0..(n + 1) |-> g[i]]
    OBVIOUS
  <2> HIDE DEF g
  <2>6. \A i \in 0..(n + 1) : g[i] = h[i]
    <3>1. ASSUME NEW i \in 0..(n + 1) PROVE g[i] = IF i = 0 THEN Base ELSE Step(g[i - 1], i)
      <4>1. CASE i = n + 1
        BY <2>0, <2>4, <4>1
      <4>2. CASE i # n + 1
        BY <2>0, <2>3, <2>4, <4>2
      <4> QED BY <4>1, <4>2
    <3> QED BY <3>1
  <2>7. g = h
    BY <2>5, <2>6
  <2>8. Applying(g, n + 1, lines, items)
    BY <1>1, <2>0, <2>7
  <2> QED BY <2>0, <2>8
<1>4. N \in Has
  <2> HIDE DEF Has
  <2>1. 0..N \subseteq Has
    BY <1>2, <1>3, InductionUpTo
  <2> QED BY <2>1
<1> QED BY <1>4

MergeStep(lines, items, i) ==
  MergeUpTo(lines, items, i) = Apply(MergeUpTo(lines, items, i - 1), items[i].block, items[i].mod).lines

(* A merge, edit by edit.                                                  *)
LEMMA MergeSteps ==
  ASSUME NEW lines, NEW items, IsSequence(items)
  PROVE  /\ MergeUpTo(lines, items, 0) = lines
         /\ \A i \in 1..Len(items) : MergeStep(lines, items, i)
<1> DEFINE H == CHOOSE f : Applying(f, Len(items), lines, items)
<1>1. Len(items) \in Nat
  BY SequenceIs
<1>2. Applying(H, Len(items), lines, items)
  BY <1>1, ApplyingExists, Zenon
<1>3. \A n : MergeUpTo(lines, items, n) = H[n]
  BY DEF MergeUpTo, Applying
<1> HIDE DEF H
<1>4. /\ H[0] = lines
      /\ \A i \in 1..Len(items) : H[i] = Apply(H[i - 1], items[i].block, items[i].mod).lines
  BY <1>1, <1>2, ApplyingSteps
<1> QED BY <1>3, <1>4 DEF MergeStep

(***************************************************************************)
(* Flattening.                                                             *)
(***************************************************************************)

Flattens(f, seqs) == f = [i \in 1..Len(seqs) |-> IF i = 1 THEN seqs[i] ELSE f[i - 1] \o seqs[i]]

LEMMA FlattenExists ==
  ASSUME NEW seqs, IsSequence(seqs), \A s \in Range(seqs) : IsSequence(s)
  PROVE  \E f : Flattens(f, seqs)
<1> DEFINE N == Len(seqs)
    T == UNION {Range(s) : s \in Range(seqs)}
    U == Seq(T)
    G == [p \in (1..N) \X U |-> p[2] \o seqs[p[1]]]
<1>1. N \in Nat /\ Range(seqs) = {seqs[i] : i \in 1..N}
  BY SequenceIs
<1>2. ASSUME NEW i \in 1..N PROVE seqs[i] \in U
  <2> DEFINE s == seqs[i]
  <2>1. s \in Range(seqs)
    BY <1>1
  <2>2. s \in Seq(Range(s)) /\ Range(s) \subseteq T
    BY <2>1 DEF IsSequence
  <2> HIDE DEF s, T
  <2>3. s \in Seq(T)
    BY <2>2, SeqMonotonic
  <2> QED BY <2>3 DEF s
<1> HIDE DEF T
<1>3. /\ << >> \in U /\ \A r \in U, i \in 1..N : r \o seqs[i] \in U
      /\ \A i \in 1..N : << >> \o seqs[i] = seqs[i]
  BY <1>2, ConcatEmptySeq
<1> HIDE DEF U, N
<1>4. G \in [(1..N) \X U -> U] /\ \A i \in 1..N, r \in U : G[<<i, r>>] = r \o seqs[i]
  BY <1>3
<1> HIDE DEF G
<1>5. PICK g \in [0..N -> U] : Recurs(g, N, << >>, G)
  BY <1>1, <1>3, <1>4, Recursion, Zenon
<1>6. g[0] = << >> /\ \A i \in 1..N : g[i] = G[<<i, g[i - 1]>>]
  BY <1>5 DEF Recurs
<1>7. \A i \in 1..N : g[i - 1] \in U
  <2>1. \A i \in 1..N : i - 1 \in 0..N
    BY <1>1
  <2> QED BY <1>5, <2>1
<1>8. \A i \in 1..N : g[i] = IF i = 1 THEN seqs[i] ELSE g[i - 1] \o seqs[i]
  <2>1. \A i \in 1..N : g[i] = g[i - 1] \o seqs[i]
    BY <1>4, <1>6, <1>7
  <2>2. 1 - 1 = 0
    OBVIOUS
  <2>3. ASSUME NEW i \in 1..N, i = 1 PROVE g[i] = seqs[i]
    <3>1. g[i - 1] = << >>
      BY <1>6, <2>2, <2>3
    <3> QED BY <1>3, <2>1, <3>1
  <2> QED BY <2>1, <2>3
<1> DEFINE f == [i \in 1..N |-> g[i]]
    h == [i \in 1..N |-> IF i = 1 THEN seqs[i] ELSE f[i - 1] \o seqs[i]]
<1>9. \A i \in 1..N : f[i] = g[i]
  OBVIOUS
<1>10. \A i \in 1..N : i # 1 => i - 1 \in 1..N
  BY <1>1
<1>11. DOMAIN f = 1..N /\ f = [i \in 1..N |-> f[i]]
  OBVIOUS
<1> HIDE DEF f
<1>12. \A i \in 1..N : f[i] = h[i]
  <2>1. ASSUME NEW i \in 1..N PROVE f[i] = IF i = 1 THEN seqs[i] ELSE f[i - 1] \o seqs[i]
    <3>1. CASE i = 1
      BY <1>8, <1>9, <3>1
    <3>2. CASE i # 1
      BY <1>8, <1>9, <1>10, <3>2
    <3> QED BY <3>1, <3>2
  <2> QED BY <2>1
<1>13. f = h
  BY <1>11, <1>12
<1>14. Flattens(f, seqs)
  BY <1>13 DEF Flattens, N
<1> QED BY <1>14

(* A flattened sequence has the elements of its sequences.                 *)
LEMMA Flattened ==
  ASSUME NEW seqs, IsSequence(seqs), \A s \in Range(seqs) : IsSequence(s)
  PROVE  /\ IsSequence(FlattenSeq(seqs))
         /\ Range(FlattenSeq(seqs)) = UNION {Range(s) : s \in Range(seqs)}
<1> DEFINE N == Len(seqs)
    H == CHOOSE f : Flattens(f, seqs)
    All(i) == UNION {Range(seqs[j]) : j \in 1..i}
<1>1. N \in Nat /\ DOMAIN seqs = 1..N /\ Range(seqs) = {seqs[i] : i \in 1..N}
  BY SequenceIs
<1>2. CASE N = 0
  <2>1. FlattenSeq(seqs) = seqs
    BY <1>2 DEF FlattenSeq
  <2>2. Range(seqs) = {}
    BY <1>1, <1>2
  <2> QED BY <2>1, <2>2
<1>3. CASE N # 0
  <2>1. Flattens(H, seqs)
    BY FlattenExists, Zenon
  <2>2. FlattenSeq(seqs) = H[N]
    BY <1>3 DEF FlattenSeq, Flattens
  <2> HIDE DEF H
  <2>3. \A i \in 1..N : H[i] = IF i = 1 THEN seqs[i] ELSE H[i - 1] \o seqs[i]
    <3> DEFINE h == [i \in 1..N |-> IF i = 1 THEN seqs[i] ELSE H[i - 1] \o seqs[i]]
    <3>1. H = h
      BY <2>1 DEF Flattens
    <3>2. \A i \in 1..N : h[i] = IF i = 1 THEN seqs[i] ELSE H[i - 1] \o seqs[i]
      OBVIOUS
    <3> HIDE DEF h
    <3> QED BY <3>1, <3>2
  <2> HIDE DEF N
  <2>4. \A i \in 1..N : IsSequence(seqs[i])
    BY <1>1
  <2> DEFINE Good == {n \in 0..N : n # 0 => IsSequence(H[n]) /\ Range(H[n]) = All(n)}
  <2>5. 0 \in Good
    BY <1>1
  <2>6. ASSUME NEW n \in 0..(N - 1), n \in Good PROVE n + 1 \in Good
    <3>1. n + 1 \in 1..N /\ n + 1 \in 0..N /\ (n + 1) - 1 = n /\ 1..(n + 1) = (1..n) \cup {n + 1}
      BY <1>1
    <3>2. CASE n = 0
      <4>1. H[n + 1] = seqs[n + 1] /\ All(n + 1) = Range(seqs[n + 1])
        <5>1. 1..n = {} /\ n + 1 = 1
          BY <3>2
        <5> QED BY <2>3, <3>1, <5>1
      <4> HIDE DEF All
      <4> QED BY <2>4, <3>1, <4>1
    <3>3. CASE n # 0
      <4>1. H[n + 1] = H[n] \o seqs[n + 1]
        <5>1. n + 1 # 1
          BY <3>3
        <5>2. H[n + 1] = H[(n + 1) - 1] \o seqs[n + 1]
          BY <2>3, <3>1, <5>1
        <5> QED BY <3>1, <5>2
      <4>2. All(n + 1) = All(n) \cup Range(seqs[n + 1])
        BY <3>1
      <4>3. IsSequence(H[n]) /\ Range(H[n]) = All(n)
        BY <2>6, <3>3
      <4> HIDE DEF All
      <4>4. IsSequence(H[n] \o seqs[n + 1]) /\ Range(H[n] \o seqs[n + 1]) = Range(H[n]) \cup Range(seqs[n + 1])
        BY <2>4, <3>1, <4>3, MembersOfConcat
      <4> QED BY <3>1, <4>1, <4>2, <4>3, <4>4
    <3> QED BY <3>2, <3>3
  <2>7. 0..N \subseteq Good
    <3> HIDE DEF Good
    <3> QED BY <1>1, <2>5, <2>6, InductionUpTo
  <2>8. IsSequence(H[N]) /\ Range(H[N]) = All(N)
    BY <1>1, <1>3, <2>7 DEF N
  <2>9. All(N) = UNION {Range(s) : s \in Range(seqs)}
    BY <1>1
  <2> QED BY <2>2, <2>8, <2>9
<1> QED BY <1>2, <1>3

(***************************************************************************)
(* The engine says what it does.                                           *)
(***************************************************************************)
Tells(events, m, kind) == \E e \in Range(events) : e.mod = m /\ e.kind = kind

(* What a step of an operation leaves: the lines as they were, or an event *)
(* that tells of the edit.                                                 *)
Honest(r, lines, mod) == IsSequence(r.events) /\ (r.lines = lines \/ Tells(r.events, mod, "ok"))

LEMMA OneEvent ==
  ASSUME NEW e
  PROVE  IsSequence(<<e>>) /\ Range(<<e>>) = {e}
<1>1. <<e>> = Append(<< >>, e)
  <2>1. << >> \in Seq({e}) /\ e \in {e}
    OBVIOUS
  <2> QED BY <2>1
<1>2. Range(Append(<< >>, e)) = Range(<< >>) \cup {e} /\ IsSequence(Append(<< >>, e))
  BY EmptySequence, MembersOfAppend, Zenon
<1>3. Range(<<e>>) = {e}
  BY <1>1, <1>2, EmptySequence
<1> QED BY <1>1, <1>2, <1>3, Zenon

LEMMA DoneHonest ==
  ASSUME NEW lines, NEW old, NEW mod, NEW capped
  PROVE  Honest(Done(lines, mod, capped), old, mod)
<1> DEFINE e == Event("ok", mod, capped, "")
<1>1. e.mod = mod /\ e.kind = "ok"
  BY DEF Event
<1>2. Done(lines, mod, capped).events = <<e>>
  BY DEF Done
<1> HIDE DEF e
<1> QED BY <1>1, <1>2, OneEvent DEF Honest, Tells

LEMMA WarnedHonest ==
  ASSUME NEW lines, NEW mod
  PROVE  Honest(Warned(lines, mod), lines, mod)
<1> DEFINE e == Event("warn", mod, 0, "")
<1>1. Warned(lines, mod).events = <<e>> /\ Warned(lines, mod).lines = lines
  BY DEF Warned
<1> HIDE DEF e
<1> QED BY <1>1, OneEvent DEF Honest

LEMMA AppendTells ==
  ASSUME NEW events, IsSequence(events), NEW e
  PROVE  /\ IsSequence(Append(events, e))
         /\ \A m, kind : Tells(events, m, kind) => Tells(Append(events, e), m, kind)
         /\ Tells(Append(events, e), e.mod, e.kind)
BY MembersOfAppend DEF Tells

LEMMA ConcatTells ==
  ASSUME NEW events, IsSequence(events), NEW more, IsSequence(more)
  PROVE  /\ IsSequence(events \o more)
         /\ \A m, kind : Tells(events \o more, m, kind) <=> Tells(events, m, kind) \/ Tells(more, m, kind)
BY MembersOfConcat DEF Tells

ChangeState(s) == DOMAIN s = {"lines", "events", "capped"}
GroupState(s)  == DOMAIN s = {"over", "lines", "events"}

LEMMA OneChangeHonest ==
  ASSUME NEW s, ChangeState(s), NEW lines, NEW mod, Honest(s, lines, mod), NEW blk, NEW scope, NEW ch
  PROVE  LET t == OneChange(s, blk, mod, scope, ch) IN ChangeState(t) /\ Honest(t, lines, mod)
<1> DEFINE found == FindProps(s.lines, ch.key, scope.from, scope.end)
    hits == IF blk.all \/ found = {} THEN found ELSE {Min(found)}
    c == Change([s EXCEPT !.capped = 0], blk, hits, ch)
    no == Event("warn", mod, 0, ch.key)
    yes == Event("ok", mod, c.capped, "")
<1>1. OneChange(s, blk, mod, scope, ch) =
        IF hits = {} THEN [s EXCEPT !.events = Append(s.events, no)]
        ELSE [c EXCEPT !.events = Append(c.events, yes)]
  BY DEF OneChange
<1>2. DOMAIN c = {"lines", "events", "capped"} /\ c.events = s.events
  <2> HIDE DEF hits
  <2> QED BY DEF Change, PutAll, ChangeState
<1>3. yes.mod = mod /\ yes.kind = "ok"
  BY DEF Event
<1> HIDE DEF hits, c, no, yes
<1>4. IsSequence(Append(s.events, no)) /\ IsSequence(Append(c.events, yes))
      /\ (Tells(s.events, mod, "ok") => Tells(Append(s.events, no), mod, "ok"))
      /\ Tells(Append(c.events, yes), mod, "ok")
  BY <1>2, <1>3, AppendTells DEF Honest
<1>5. CASE hits = {}
  <2> DEFINE more == Append(s.events, no)
      t == [s EXCEPT !.events = more]
  <2>1. OneChange(s, blk, mod, scope, ch) = t
    BY <1>1, <1>5
  <2> HIDE DEF more
  <2>2. DOMAIN t = {"lines", "events", "capped"} /\ t.lines = s.lines /\ t.events = more
    BY DEF ChangeState
  <2> QED BY <1>4, <2>1, <2>2 DEF Honest, ChangeState, more
<1>6. CASE hits # {}
  <2> DEFINE more == Append(c.events, yes)
      t == [c EXCEPT !.events = more]
  <2>1. OneChange(s, blk, mod, scope, ch) = t
    BY <1>1, <1>6
  <2> HIDE DEF more
  <2>2. DOMAIN t = {"lines", "events", "capped"} /\ t.events = more
    BY <1>2
  <2> QED BY <1>4, <2>1, <2>2 DEF Honest, ChangeState, more
<1> QED BY <1>5, <1>6

LEMMA ValueChangesHonest ==
  ASSUME NEW lines, NEW blk, NEW mod, NEW scope, IsSequence(blk.changes)
  PROVE  Honest(ValueChanges(lines, blk, mod, scope), lines, mod)
<1> DEFINE N == Len(blk.changes)
<1>1. N \in Nat
  BY SequenceIs
<1>2. PICK f : Changing(f, N, lines, blk, mod, scope) /\ ValueChanges(lines, blk, mod, scope) = f[N]
  BY ValueChangesSteps, Zenon
<1> HIDE DEF N
<1>3. /\ f[0] = [lines |-> lines, events |-> << >>, capped |-> 0]
      /\ \A i \in 1..N : f[i] = OneChange(f[i - 1], blk, mod, scope, blk.changes[i])
  <2>1. Changed(f, N, lines, blk, mod, scope)
    BY <1>1, <1>2, ChangingSteps, Zenon
  <2> QED BY <2>1 DEF Changed
<1> DEFINE Good == {i \in 0..N : ChangeState(f[i]) /\ Honest(f[i], lines, mod)}
<1>4. 0 \in Good
  <2>1. DOMAIN f[0] = {"lines", "events", "capped"} /\ f[0].events = << >> /\ f[0].lines = lines
    BY <1>3
  <2> QED BY <1>1, <2>1, EmptySequence DEF ChangeState, Honest
<1>5. ASSUME NEW n \in 0..(N - 1), n \in Good PROVE n + 1 \in Good
  <2>1. n + 1 \in 1..N /\ (n + 1) - 1 = n /\ n + 1 \in 0..N
    BY <1>1
  <2>2. f[n + 1] = OneChange(f[n], blk, mod, scope, blk.changes[n + 1])
    BY <1>3, <2>1
  <2>3. ChangeState(f[n]) /\ Honest(f[n], lines, mod)
    BY <1>5
  <2>4. ChangeState(f[n + 1]) /\ Honest(f[n + 1], lines, mod)
    BY <2>2, <2>3, OneChangeHonest, Zenon
  <2> QED BY <2>1, <2>4
<1>6. 0..N \subseteq Good
  <2> HIDE DEF Good
  <2> QED BY <1>1, <1>4, <1>5, InductionUpTo
<1> QED BY <1>1, <1>2, <1>6

LEMMA InScopeHonest ==
  ASSUME NEW s, GroupState(s), NEW lines, NEW mod, Honest(s, lines, mod), NEW blk, NEW from, NEW last,
         IsSequence(blk.changes)
  PROVE  LET t == InScope(s, blk, mod, from, last) IN GroupState(t) /\ Honest(t, lines, mod)
<1> DEFINE yes == Event("ok", mod, 0, "")
    more == Append(s.events, yes)
    vct == ValueChanges(s.lines, blk, mod, [from |-> from, end |-> last + 1])
    both == s.events \o vct.events
    t == InScope(s, blk, mod, from, last)
<1>1. yes.mod = mod /\ yes.kind = "ok"
  BY DEF Event
<1>2. Honest(vct, s.lines, mod)
  BY ValueChangesHonest
<1>3. \/ DOMAIN t = {"over", "lines", "events"} /\ t.events = more
      \/ t = [s EXCEPT !.lines = vct.lines, !.events = both]
  <2> HIDE DEF vct, more
  <2>1. CASE blk.remove
    BY <2>1 DEF InScope, more
  <2>2. CASE ~blk.remove /\ blk.add # << >>
    BY <2>2 DEF InScope, more
  <2>3. CASE ~blk.remove /\ blk.add = << >>
    BY <2>3 DEF InScope, vct
  <2> QED BY <2>1, <2>2, <2>3
<1> HIDE DEF yes, vct, t
<1>4. IsSequence(more) /\ Tells(more, mod, "ok")
  BY <1>1, AppendTells DEF Honest
<1>5. IsSequence(both) /\ \A m, kind : Tells(both, m, kind) <=> Tells(s.events, m, kind) \/ Tells(vct.events, m, kind)
  BY <1>2, ConcatTells DEF Honest
<1> HIDE DEF more, both
<1>6. ASSUME DOMAIN t = {"over", "lines", "events"} /\ t.events = more
      PROVE  GroupState(t) /\ Honest(t, lines, mod)
  BY <1>4, <1>6 DEF GroupState, Honest
<1>7. ASSUME t = [s EXCEPT !.lines = vct.lines, !.events = both]
      PROVE  GroupState(t) /\ Honest(t, lines, mod)
  <2>1. DOMAIN t = {"over", "lines", "events"} /\ t.events = both /\ t.lines = vct.lines
    BY <1>7 DEF GroupState
  <2> QED BY <1>2, <1>5, <2>1 DEF GroupState, Honest
<1>8. GroupState(t) /\ Honest(t, lines, mod)
  BY <1>3, <1>6, <1>7
<1> QED BY <1>8 DEF t

LEMMA OneGroupHonest ==
  ASSUME NEW s, GroupState(s), NEW lines, NEW mod, Honest(s, lines, mod), NEW blk, NEW kws, NEW start, NEW end,
         IsSequence(blk.changes)
  PROVE  LET t == OneGroup(s, blk, mod, kws, start, end) IN GroupState(t) /\ Honest(t, lines, mod)
<1> DEFINE scope == GroupScope(s.lines, blk, kws, start, end)
    no == Event("warn", mod, 0, "")
    more == Append(s.events, no)
    last == Min({scope.end - 1, Len(s.lines)})
    t == OneGroup(s, blk, mod, kws, start, end)
<1>1. t = IF s.over THEN s
          ELSE IF scope.from = 0 THEN [s EXCEPT !.events = more]
          ELSE InScope(s, blk, mod, scope.from, last)
  BY DEF OneGroup
<1> HIDE DEF scope, no, last, t
<1>2. IsSequence(more) /\ (Tells(s.events, mod, "ok") => Tells(more, mod, "ok"))
  BY AppendTells DEF Honest
<1> HIDE DEF more
<1>3. CASE s.over
  BY <1>1, <1>3 DEF t
<1>4. CASE ~s.over /\ scope.from = 0
  <2>1. t = [s EXCEPT !.events = more]
    BY <1>1, <1>4
  <2>2. DOMAIN t = {"over", "lines", "events"} /\ t.events = more /\ t.lines = s.lines
    BY <2>1 DEF GroupState
  <2>3. GroupState(t) /\ Honest(t, lines, mod)
    BY <1>2, <2>2 DEF GroupState, Honest
  <2> QED BY <2>3 DEF t
<1>5. CASE ~s.over /\ scope.from # 0
  <2>1. t = InScope(s, blk, mod, scope.from, last)
    BY <1>1, <1>5
  <2>2. GroupState(t) /\ Honest(t, lines, mod)
    BY <2>1, InScopeHonest, Zenon
  <2> QED BY <2>2 DEF t
<1> QED BY <1>3, <1>4, <1>5

LEMMA GroupsHonest ==
  ASSUME NEW lines, NEW blk, NEW mod, NEW groups, NEW start, IsSequence(groups), IsSequence(blk.changes)
  PROVE  Honest(Groups(lines, blk, mod, groups, start), lines, mod)
<1> DEFINE N == Len(groups)
<1>1. N \in Nat
  BY SequenceIs
<1>2. PICK f : /\ Grouping(f, N, lines, blk, mod, groups, start)
               /\ Groups(lines, blk, mod, groups, start) = [lines |-> f[N].lines, events |-> f[N].events]
  BY GroupsSteps, Zenon
<1> HIDE DEF N
<1>a. Grouping(f, N, lines, blk, mod, groups, start)
  BY <1>2
<1>3. /\ f[0] = [over |-> FALSE, lines |-> lines, events |-> << >>]
      /\ \A i \in 1..N : f[i] = OneGroup(f[i - 1], blk, mod, groups[i], start, Len(lines) + 1)
  <2>1. Grouped(f, N, lines, blk, mod, groups, start)
    BY <1>1, <1>a, GroupingSteps, Zenon
  <2> QED BY <2>1 DEF Grouped
<1> DEFINE Good == {i \in 0..N : GroupState(f[i]) /\ Honest(f[i], lines, mod)}
<1>4. 0 \in Good
  <2>1. DOMAIN f[0] = {"over", "lines", "events"} /\ f[0].events = << >> /\ f[0].lines = lines
    BY <1>3
  <2> QED BY <1>1, <2>1, EmptySequence DEF GroupState, Honest
<1>5. ASSUME NEW n \in 0..(N - 1), n \in Good PROVE n + 1 \in Good
  <2>1. n + 1 \in 1..N /\ (n + 1) - 1 = n /\ n + 1 \in 0..N
    BY <1>1
  <2>2. f[n + 1] = OneGroup(f[n], blk, mod, groups[n + 1], start, Len(lines) + 1)
    BY <1>3, <2>1
  <2>3. GroupState(f[n]) /\ Honest(f[n], lines, mod)
    BY <1>5
  <2>4. GroupState(f[n + 1]) /\ Honest(f[n + 1], lines, mod)
    BY <2>2, <2>3, OneGroupHonest, Zenon
  <2> QED BY <2>1, <2>4
<1>6. 0..N \subseteq Good
  <2> HIDE DEF Good
  <2> QED BY <1>1, <1>4, <1>5, InductionUpTo
<1>7. Honest(f[N], lines, mod)
  BY <1>1, <1>6
<1> QED BY <1>2, <1>7 DEF Honest

(* A block that changes a line of the file tells of it.                    *)
LEMMA ApplyHonest ==
  ASSUME NEW lines, NEW blk, IsBlock(blk), NEW mod
  PROVE  Honest(Apply(lines, blk, mod), lines, mod)
<1> DEFINE start == Preceding(lines, blk)
    groups == IF blk.foreach # << >> THEN blk.foreach ELSE <<blk.skw>>
    sections == blk.all /\ blk.skw # << >> /\ blk.foreach = << >> /\ blk.changes # << >>
                /\ blk.add = << >> /\ ~blk.remove
<1>1. Honest(CurrencyMult(lines, blk, mod), lines, mod)
  BY DoneHonest, WarnedHonest DEF CurrencyMult
<1>2. Honest(WrapperMult(lines, blk, mod), lines, mod)
  BY DoneHonest, WarnedHonest DEF WrapperMult
<1>3. Honest(AllSections(lines, blk, mod, start), lines, mod)
  BY DoneHonest, WarnedHonest DEF AllSections
<1>4. Honest(Groups(lines, blk, mod, groups, start), lines, mod)
  <2>1. IsSequence(groups) /\ IsSequence(blk.changes)
    BY OneEvent DEF IsBlock
  <2> HIDE DEF groups, start
  <2> QED BY <2>1, GroupsHonest
<1>5. \/ Apply(lines, blk, mod) = CurrencyMult(lines, blk, mod)
      \/ Apply(lines, blk, mod) = WrapperMult(lines, blk, mod)
      \/ Apply(lines, blk, mod) = AllSections(lines, blk, mod, start)
      \/ Apply(lines, blk, mod) = Groups(lines, blk, mod, groups, start)
  BY DEF Apply
<1> QED BY <1>1, <1>2, <1>3, <1>4, <1>5

LEMMA FunctionSequence ==
  ASSUME NEW N \in Nat, NEW f, DOMAIN f = 1..N, f = [i \in 1..N |-> f[i]]
  PROVE  IsSequence(f) /\ Range(f) = {f[i] : i \in 1..N} /\ Len(f) = N
<1> DEFINE R == Range(f)
<1>1. R = {f[i] : i \in 1..N}
  BY DEF Range
<1>2. f \in [1..N -> R]
  <2>1. \A i \in 1..N : f[i] \in R
    BY <1>1
  <2> HIDE DEF R
  <2> QED BY <2>1
<1> HIDE DEF R
<1>3. f \in Seq(R)
  BY <1>2, SeqDef
<1>4. Len(f) = N
  <2>1. Len(f) \in Nat /\ DOMAIN f = 1..Len(f)
    BY <1>3
  <2>2. 1..Len(f) = 1..N
    BY <2>1
  <2> QED BY <2>1, <2>2
<1> QED BY <1>1, <1>3, <1>4 DEF IsSequence, R

(* Functions on 0..n, begun and extended.                                  *)
Begins(g, b) == g = [i \in 0..0 |-> g[i]] /\ g[0] = b
LEMMA Beginning == ASSUME NEW b PROVE \E g : Begins(g, b)
<1> DEFINE g == [i \in 0..0 |-> b]
<1>1. g = [i \in 0..0 |-> g[i]] /\ g[0] = b
  OBVIOUS
<1> HIDE DEF g
<1> QED BY <1>1 DEF Begins

Extends(g, f, n, v) == g = [i \in 0..(n + 1) |-> g[i]] /\ g[n + 1] = v /\ \A i \in 0..n : g[i] = f[i]
LEMMA Extension == ASSUME NEW f, NEW n \in Nat, NEW v PROVE \E g : Extends(g, f, n, v)
<1> DEFINE g == [i \in 0..(n + 1) |-> IF i = n + 1 THEN v ELSE f[i]]
<1>1. g = [i \in 0..(n + 1) |-> g[i]] /\ g[n + 1] = v /\ \A i \in 0..n : g[i] = f[i]
  OBVIOUS
<1> HIDE DEF g
<1> QED BY <1>1 DEF Extends

(***************************************************************************)
(* The tree that the indentation draws.                                    *)
(***************************************************************************)
Count(lines, kind, i, j) == Cardinality({k \in i..j : lines[k].kind = kind})
One(b) == IF b THEN 1 ELSE 0

LEMMA Counts ==
  ASSUME NEW lines, NEW kind, NEW i \in Nat, NEW j \in Nat, i <= j + 1
  PROVE  /\ Count(lines, kind, i, j) \in Nat
         /\ Count(lines, kind, i, j + 1) = Count(lines, kind, i, j) + One(lines[j + 1].kind = kind)
<1> DEFINE S == {k \in i..j : lines[k].kind = kind}
    T == {k \in i..(j + 1) : lines[k].kind = kind}
<1>a. Count(lines, kind, i, j) = Cardinality(S) /\ Count(lines, kind, i, j + 1) = Cardinality(T)
  BY DEF Count
<1>1. IsFiniteSet(S)
  <2>1. IsFiniteSet(i..j) /\ S \subseteq i..j
    BY FS_Interval
  <2> QED BY <2>1, FS_Subset
<1>2. Cardinality(S) \in Nat
  BY <1>1, FS_CardinalityType
<1>3. CASE lines[j + 1].kind = kind
  <2>1. T = S \cup {j + 1} /\ j + 1 \notin S
    BY <1>3
  <2>2. Cardinality(T) = Cardinality(S) + 1
    BY <1>1, <2>1, FS_AddElement
  <2> HIDE DEF S, T
  <2> QED BY <1>a, <1>2, <1>3, <2>2 DEF One
<1>4. CASE lines[j + 1].kind # kind
  <2>1. T = S
    BY <1>4
  <2> HIDE DEF S, T
  <2> QED BY <1>a, <1>2, <1>4, <2>1 DEF One
<1> QED BY <1>3, <1>4

(* What is open at a line, counted from an opening one, is how much deeper *)
(* the line after it is.                                                   *)
LEMMA Depths ==
  ASSUME NEW lines, AreLines(lines), Indented(lines), NEW i \in 1..Len(lines), lines[i].kind = "open"
  PROVE  \A j \in i..Len(lines) :
           Count(lines, "open", i, j) - Count(lines, "close", i, j)
             = lines[j].tabs - lines[i].tabs + One(lines[j].kind = "open")
<1> DEFINE N == Len(lines)
    P(j) == Count(lines, "open", i, j) - Count(lines, "close", i, j)
              = lines[j].tabs - lines[i].tabs + One(lines[j].kind = "open")
    Good == {n \in 0..(N - i) : P(i + n)}
<1>1. N \in Nat /\ \A j \in 1..N : lines[j].tabs \in Nat /\ lines[j].kind \in {"open", "self", "close"}
  BY SequenceIs DEF AreLines, IsLine
<1>2. 0 \in Good
  <2>1. i - 1 \in Nat /\ (i - 1) + 1 = i /\ i..(i - 1) = {} /\ i + 0 = i /\ 0 \in 0..(N - i)
    BY <1>1
  <2>2. ASSUME NEW kind PROVE Count(lines, kind, i, i - 1) = 0
    <3>1. {k \in i..(i - 1) : lines[k].kind = kind} = {}
      BY <2>1
    <3> QED BY <3>1, FS_EmptySet DEF Count
  <2>3. Count(lines, "open", i, i) = 1 /\ Count(lines, "close", i, i) = 0
    <3>1. ASSUME NEW kind, NEW m \in Nat, m = i - 1
          PROVE  Count(lines, kind, i, i) = 0 + One(lines[i].kind = kind)
      <4>1. m + 1 = i /\ i <= m + 1
        BY <2>1, <3>1
      <4>2. Count(lines, kind, i, m + 1) = Count(lines, kind, i, m) + One(lines[m + 1].kind = kind)
        BY <4>1, Counts
      <4> QED BY <2>2, <3>1, <4>1, <4>2
    <3> QED BY <2>1, <3>1 DEF One
  <2>4. lines[i].tabs \in Nat /\ One(lines[i].kind = "open") = 1
    BY <1>1 DEF One
  <2>5. P(i)
    BY <2>3, <2>4
  <2> HIDE DEF P
  <2> QED BY <2>1, <2>5
<1>3. ASSUME NEW n \in 0..((N - i) - 1), n \in Good PROVE n + 1 \in Good
  <2> DEFINE j == i + n
  <2>1. j \in 1..(N - 1) /\ j + 1 \in 1..N /\ i <= j + 1 /\ i + (n + 1) = j + 1 /\ n + 1 \in 0..(N - i) /\ j \in Nat
    BY <1>1
  <2>2. lines[j + 1].tabs = lines[j].tabs + One(lines[j].kind = "open") - One(lines[j + 1].kind = "close")
    BY <2>1 DEF Indented, One
  <2>3. \A kind : /\ Count(lines, kind, i, j) \in Nat
                  /\ Count(lines, kind, i, j + 1) = Count(lines, kind, i, j) + One(lines[j + 1].kind = kind)
    BY <2>1, Counts
  <2>4. P(j)
    BY <1>3
  <2> HIDE DEF j
  <2>5. \A k \in 1..N : lines[k].tabs \in Nat
    BY <1>1
  <2>6. P(j + 1)
    <3>1. lines[j].tabs \in Nat /\ lines[j + 1].tabs \in Nat /\ lines[i].tabs \in Nat
      BY <2>1, <2>5
    <3>2. \A b \in BOOLEAN : One(b) \in {0, 1}
      BY DEF One
    <3>3. One(lines[j].kind = "open") \in {0, 1} /\ One(lines[j + 1].kind = "open") \in {0, 1}
          /\ One(lines[j + 1].kind = "close") \in {0, 1}
      BY DEF One
    <3>4. /\ Count(lines, "open", i, j) \in Nat /\ Count(lines, "close", i, j) \in Nat
          /\ Count(lines, "open", i, j + 1) = Count(lines, "open", i, j) + One(lines[j + 1].kind = "open")
          /\ Count(lines, "close", i, j + 1) = Count(lines, "close", i, j) + One(lines[j + 1].kind = "close")
      BY <2>3
    <3>5. One(lines[j].kind = "open") \in Int /\ One(lines[j + 1].kind = "open") \in Int
          /\ One(lines[j + 1].kind = "close") \in Int
      BY <3>3
    <3> DEFINE a == Count(lines, "open", i, j)
        c == Count(lines, "close", i, j)
        ti == lines[i].tabs
        tj == lines[j].tabs
        x == One(lines[j].kind = "open")
        y == One(lines[j + 1].kind = "open")
        z == One(lines[j + 1].kind = "close")
    <3>6. a - c = tj - ti + x
      BY <2>4
    <3>7. a \in Nat /\ c \in Nat /\ ti \in Nat /\ tj \in Nat /\ x \in Int /\ y \in Int /\ z \in Int
      BY <3>1, <3>4, <3>5
    <3>8. Count(lines, "open", i, j + 1) = a + y /\ Count(lines, "close", i, j + 1) = c + z
          /\ lines[j + 1].tabs = tj + x - z /\ One(lines[j + 1].kind = "open") = y
      BY <2>2, <3>4
    <3> HIDE DEF a, c, ti, tj, x, y, z, P, Good, N, j
    <3>9. (a + y) - (c + z) = (tj + x - z) - ti + y
      BY <3>6, <3>7
    <3> QED BY <3>8, <3>9 DEF ti, P
  <2> HIDE DEF P
  <2> QED BY <2>1, <2>6
<1>4. 0..(N - i) \subseteq Good
  <2> HIDE DEF Good
  <2>1. N - i \in Nat
    BY <1>1
  <2> QED BY <1>2, <1>3, <2>1, InductionUpTo
<1>5. \A j \in i..N : j - i \in 0..(N - i) /\ i + (j - i) = j
  BY <1>1
<1> QED BY <1>4, <1>5

Closing(lines, i) == {j \in i..Len(lines) : lines[j].kind = "close" /\ lines[j].tabs = lines[i].tabs}
LEMMA CloseIndexIs ==
  ASSUME NEW lines, AreLines(lines), Indented(lines), NEW i \in 1..Len(lines), lines[i].kind = "open"
  PROVE  CloseIndex(lines, i) = IF Closing(lines, i) = {} THEN Len(lines) ELSE Min(Closing(lines, i))
<1> DEFINE S == {j \in i..Len(lines) : lines[j].kind = "close"
                   /\ Count(lines, "open", i, j) = Count(lines, "close", i, j)}
<1>1. CloseIndex(lines, i) = IF S = {} THEN Len(lines) ELSE Min(S)
  BY DEF CloseIndex, Count
<1>2. ASSUME NEW j \in i..Len(lines), lines[j].kind = "close"
      PROVE  Count(lines, "open", i, j) = Count(lines, "close", i, j) <=> lines[j].tabs = lines[i].tabs
  <2>1. Count(lines, "open", i, j) - Count(lines, "close", i, j) = lines[j].tabs - lines[i].tabs + 0
    BY <1>2, Depths DEF One
  <2>2. Len(lines) \in Nat /\ j \in 1..Len(lines) /\ j \in Nat /\ i \in Nat /\ i <= j + 1
    BY SequenceIs DEF AreLines
  <2>3. Count(lines, "open", i, j) \in Nat /\ Count(lines, "close", i, j) \in Nat
    BY <2>2, Counts
  <2>4. lines[j].tabs \in Nat /\ lines[i].tabs \in Nat
    BY <2>2 DEF AreLines, IsLine
  <2> QED BY <2>1, <2>3, <2>4
<1>3. S = Closing(lines, i)
  BY <1>2 DEF Closing
<1> QED BY <1>1, <1>3

(* A block is what is inside its opening line, and its closing one.        *)
LEMMA BlockIs ==
  ASSUME NEW lines, AreLines(lines), Indented(lines), NEW i \in 1..Len(lines), lines[i].kind = "open"
  PROVE  LET last == CloseIndex(lines, i)
         IN  /\ last \in i..Len(lines)
             /\ \A j \in 1..Len(lines) : Within(lines, i, j) => j \in (i + 1)..last
             /\ \A j \in (i + 1)..last : Within(lines, i, j) \/ lines[j].kind = "close"
<1> DEFINE N == Len(lines)
    C == Closing(lines, i)
    last == CloseIndex(lines, i)
    deep(j) == lines[j].tabs > lines[i].tabs
<1>1. N \in Nat /\ \A j \in 1..N : lines[j].tabs \in Nat /\ lines[j].kind \in {"open", "self", "close"}
  BY SequenceIs DEF AreLines, IsLine
<1>2. last = IF C = {} THEN N ELSE Min(C)
  BY CloseIndexIs
<1>3. C \subseteq (i + 1)..N /\ \A j \in C : lines[j].tabs = lines[i].tabs
  <2>1. \A j \in C : j \in i..N /\ j # i
    BY DEF Closing
  <2> QED BY <1>1, <2>1 DEF Closing
<1>4. /\ last \in i..N
      /\ \A j \in C : last <= j
      /\ last # N => last \in C
  <2>1. CASE C = {}
    BY <1>1, <1>2, <2>1
  <2>2. CASE C # {}
    <3>1. C \subseteq Nat
      BY <1>1, <1>3
    <3>2. Min(C) \in C /\ \A j \in C : Min(C) <= j
      <4>1. \E n \in C : \A m \in C : n <= m
        BY <2>2, <3>1, LeastNatural
      <4> QED BY <4>1, Zenon DEF Min
    <3> QED BY <1>1, <1>2, <1>3, <2>2, <3>2
  <2> QED BY <2>1, <2>2
<1> HIDE DEF last, C
<1>5. \A j \in 1..N : Within(lines, i, j) => j \in (i + 1)..last
  <2> SUFFICES ASSUME NEW j \in 1..N, Within(lines, i, j), j > last PROVE FALSE
    BY <1>1, <1>4 DEF Within
  <2>1. last \in C /\ last \in (i + 1)..j
    BY <1>1, <1>3, <1>4
  <2>2. lines[last].tabs > lines[i].tabs
    BY <2>1 DEF Within
  <2> QED BY <1>1, <1>3, <1>4, <2>1, <2>2
<1>6. \A j \in (i + 1)..last : j \notin C => \A k \in (i + 1)..j : deep(k)
  <2> SUFFICES ASSUME NEW j \in (i + 1)..last, j \notin C PROVE \A k \in (i + 1)..j : deep(k)
    OBVIOUS
  <2> DEFINE Good == {n \in 0..(j - i) : n # 0 => deep(i + n)}
  <2>1. j \in Nat /\ i \in Nat /\ last \in Nat /\ i < j /\ j <= last /\ j - i \in Nat /\ j \in 1..N
    BY <1>1, <1>4
  <2>2. 0 \in Good
    BY <2>1
  <2>3. ASSUME NEW n \in 0..((j - i) - 1), n \in Good PROVE n + 1 \in Good
    <3> DEFINE k == i + n
    <3>1. k \in 1..(N - 1) /\ k + 1 \in 1..N /\ k + 1 <= j /\ n + 1 \in 0..(j - i) /\ i + (n + 1) = k + 1 /\ k + 1 \in i..N
      BY <1>1, <2>1
    <3>2. lines[k + 1].tabs = lines[k].tabs + (IF lines[k].kind = "open" THEN 1 ELSE 0)
                                            - (IF lines[k + 1].kind = "close" THEN 1 ELSE 0)
      BY <3>1 DEF Indented
    <3>3. k + 1 \notin C
      BY <1>4, <2>1, <3>1
    <3>4. lines[k + 1].kind = "close" => lines[k + 1].tabs # lines[i].tabs
      BY <3>1, <3>3 DEF C, Closing
    <3>5. n # 0 => deep(k)
      BY <2>3
    <3>6. n = 0 => k = i
      BY <2>1
    <3> HIDE DEF k
    <3>7. lines[k].tabs \in Nat /\ lines[k + 1].tabs \in Nat /\ lines[i].tabs \in Nat
      BY <1>1, <3>1
    <3>8. deep(k + 1)
      BY <3>2, <3>4, <3>5, <3>6, <3>7
    <3> QED BY <3>1, <3>8
  <2>4. 0..(j - i) \subseteq Good
    <3> HIDE DEF Good
    <3> QED BY <2>1, <2>2, <2>3, InductionUpTo
  <2>5. \A k \in (i + 1)..j : k - i \in 0..(j - i) /\ k - i # 0 /\ i + (k - i) = k
    BY <2>1
  <2> QED BY <2>4, <2>5
<1>7. ASSUME NEW j \in (i + 1)..last PROVE Within(lines, i, j) \/ lines[j].kind = "close"
  <2>1. j \in C => lines[j].kind = "close"
    BY DEF C, Closing
  <2>2. i < j
    BY <1>1, <1>4
  <2> QED BY <1>6, <2>1, <2>2 DEF Within
<1> QED BY <1>4, <1>5, <1>7 DEF last

(* The walk over the blocks of a scope.                                    *)
Walking(f, n, lines, scope, how) ==
  /\ f = [i \in 0..n |-> f[i]]
  /\ f[0] = [lines |-> lines, next |-> scope.from, count |-> 0, capped |-> 0]
  /\ \A i \in 1..n : f[i] = VisitBlock(f[i - 1], how, scope.from + i - 1)
LEMMA WalkingIs ==
  ASSUME NEW lines, NEW scope, NEW how, scope.end - scope.from \in Nat
  PROVE  \E f : Walking(f, (scope.end - scope.from), lines, scope, how)
                /\ ScaleBlocks(lines, scope, how) = f[(scope.end - scope.from)]
<1> DEFINE N == (scope.end - scope.from)
    Base == [lines |-> lines, next |-> scope.from, count |-> 0, capped |-> 0]
    Step(s, i) == VisitBlock(s, how, scope.from + i - 1)
    Recursive(f) == f = [i \in 0..N |-> IF i = 0 THEN Base ELSE Step(f[i - 1], i)]
    Steps(f, n) == f = [i \in 0..n |-> f[i]] /\ f[0] = Base /\ \A i \in 1..n : f[i] = Step(f[i - 1], i)
    Has == {n \in 0..N : \E f : Steps(f, n)}
    H == CHOOSE f : Recursive(f)
<1>1. N \in Nat
  OBVIOUS
<1>2. ScaleBlocks(lines, scope, how) = H[N]
  BY Zenon DEF ScaleBlocks
<1>3. \A f : Steps(f, N) <=> Walking(f, N, lines, scope, how)
  BY Zenon DEF Walking
<1> HIDE DEF Base, Step, N
<1>4. 0 \in Has
  <2>1. PICK g : Begins(g, Base)
    BY Beginning
  <2> QED BY <1>1, <2>1 DEF Begins
<1>5. ASSUME NEW n \in 0..(N - 1), n \in Has PROVE n + 1 \in Has
  <2>1. /\ n \in Nat /\ n + 1 \in 0..N /\ n \in 0..n /\ 0 \in 0..n /\ (n + 1) - 1 = n
        /\ \A i \in 1..(n + 1) : i # n + 1 => i \in 1..n /\ i \in 0..n /\ i - 1 \in 0..n
    BY <1>1
  <2>2. PICK f : Steps(f, n)
    BY <1>5
  <2>3. PICK g : Extends(g, f, n, Step(f[n], n + 1))
    BY <2>1, Extension
  <2>4. /\ g = [i \in 0..(n + 1) |-> g[i]] /\ g[n + 1] = Step(f[n], n + 1)
        /\ \A i \in 0..n : g[i] = f[i]
    BY <2>3 DEF Extends
  <2>5. ASSUME NEW i \in 1..(n + 1) PROVE g[i] = Step(g[i - 1], i)
    <3>1. CASE i = n + 1
      BY <2>1, <2>4, <3>1
    <3>2. CASE i # n + 1
      <4>1. f[i] = Step(f[i - 1], i)
        BY <2>1, <2>2, <3>2
      <4> QED BY <2>1, <2>4, <3>2, <4>1
    <3> QED BY <3>1, <3>2
  <2>6. Steps(g, n + 1)
    BY <2>1, <2>2, <2>4, <2>5
  <2> HIDE DEF Steps
  <2> QED BY <2>1, <2>6
<1>6. \E f : Steps(f, N)
  <2> HIDE DEF Has
  <2>1. N \in Has
    BY <1>1, <1>4, <1>5, InductionUpTo
  <2> QED BY <2>1 DEF Has
<1>7. ASSUME NEW f PROVE Recursive(f) <=> Steps(f, N)
  <2> DEFINE F == [i \in 0..N |-> IF i = 0 THEN Base ELSE Step(f[i - 1], i)]
  <2>1. /\ \A i \in 0..N : F[i] = IF i = 0 THEN Base ELSE Step(f[i - 1], i)
        /\ F = [i \in 0..N |-> F[i]] /\ (Recursive(f) <=> f = F)
    OBVIOUS
  <2> HIDE DEF F, Recursive
  <2>2. 0 \in 0..N /\ \A i \in 0..N : i = 0 \/ i \in 1..N
    BY <1>1
  <2>3. \A i \in 1..N : i \in 0..N /\ i # 0
    OBVIOUS
  <2> QED BY <2>1, <2>2, <2>3
<1>8. Recursive(H)
  <2> HIDE DEF Recursive, Steps
  <2> QED BY <1>6, <1>7, Zenon DEF H
<1> HIDE DEF H, Recursive, Steps
<1> QED BY <1>2, <1>3, <1>7, <1>8, Zenon DEF N

(* One line scaled, and the lines of a block.                              *)
Takes(line, how) == line.kind \in {"open", "self"} /\ line.name \in how.keys /\ line.val.is = "number"
ScaledLine(line, how) ==
  IF Takes(line, how)
  THEN [line EXCEPT !.val = FormatNum(Clamp(Times(line.val.q, how.mult), how.cap).q, line.val, "off")]
  ELSE line

WalkState(s) == DOMAIN s = {"lines", "next", "count", "capped"}

LEMMA PutAllIs ==
  ASSUME NEW s, {"lines", "capped"} \subseteq DOMAIN s, NEW put, NEW t, t = PutAll(s, put)
  PROVE  /\ DOMAIN t = DOMAIN s
         /\ \A x \in DOMAIN s \ {"lines", "capped"} : t[x] = s[x]
         /\ t.lines = [j \in 1..Len(s.lines) |-> IF j \in DOMAIN put THEN Put(s.lines[j], put[j].val) ELSE s.lines[j]]
  BY DEF PutAll

LEMMA ScaledByIs ==
  ASSUME NEW s, WalkState(s), NEW block, NEW how,
         NEW t, t = PutAll(s, ScaledBy(s.lines, block, how.keys, how.mult, how.cap))
  PROVE  /\ WalkState(t) /\ t.next = s.next
         /\ t.lines = [j \in 1..Len(s.lines) |-> IF j \in block THEN ScaledLine(s.lines[j], how) ELSE s.lines[j]]
<1> DEFINE hits == {j \in block : Takes(s.lines[j], how)}
    New(j) == LET r == Clamp(Times(s.lines[j].val.q, how.mult), how.cap)
              IN  [val |-> FormatNum(r.q, s.lines[j].val, "off"), bit |-> r.bit]
    put == [j \in hits |-> New(j)]
<1>1. ScaledBy(s.lines, block, how.keys, how.mult, how.cap) = put
  BY DEF ScaledBy, Takes
<1>2. \A j \in hits : put[j].val = FormatNum(Clamp(Times(s.lines[j].val.q, how.mult), how.cap).q, s.lines[j].val, "off")
  OBVIOUS
<1>3. DOMAIN put = hits
  OBVIOUS
<1>b. t = PutAll(s, put)
  BY <1>1
<1> HIDE DEF put
<1>4. /\ DOMAIN t = DOMAIN s /\ t.next = s.next
      /\ t.lines = [j \in 1..Len(s.lines) |-> IF j \in hits THEN Put(s.lines[j], put[j].val) ELSE s.lines[j]]
  <2>1. {"lines", "capped"} \subseteq DOMAIN s /\ "next" \in DOMAIN s \ {"lines", "capped"}
    BY DEF WalkState
  <2> QED BY <1>3, <1>b, <2>1, PutAllIs
<1>5. ASSUME NEW j \in 1..Len(s.lines)
      PROVE  (IF j \in hits THEN Put(s.lines[j], put[j].val) ELSE s.lines[j])
               = IF j \in block THEN ScaledLine(s.lines[j], how) ELSE s.lines[j]
  <2>1. CASE j \in hits
    <3>1. j \in block /\ Takes(s.lines[j], how) /\ s.lines[j].val.is # "absent"
      BY <2>1 DEF Takes
    <3> QED BY <1>2, <2>1, <3>1 DEF Put, ScaledLine
  <2>2. CASE j \notin hits
    BY <2>2 DEF ScaledLine
  <2> QED BY <2>1, <2>2
<1> HIDE DEF hits
<1>6. t.lines = [j \in 1..Len(s.lines) |-> IF j \in block THEN ScaledLine(s.lines[j], how) ELSE s.lines[j]]
  BY <1>4, <1>5
<1> QED BY <1>4, <1>6 DEF WalkState

(* What the walk does not look at: where a block ends is a matter of kinds. *)
LEMMA SameClose ==
  ASSUME NEW a, NEW b, Len(a) = Len(b), Len(a) \in Nat, \A j \in 1..Len(a) : a[j].kind = b[j].kind,
         NEW i \in 1..Len(a)
  PROVE  CloseIndex(a, i) = CloseIndex(b, i)
<1>1. ASSUME NEW kind, NEW j \in i..Len(a) PROVE Count(a, kind, i, j) = Count(b, kind, i, j)
  <2>1. \A k \in i..j : a[k].kind = b[k].kind
    OBVIOUS
  <2>2. {k \in i..j : a[k].kind = kind} = {k \in i..j : b[k].kind = kind}
    BY <2>1
  <2> QED BY <2>2 DEF Count
<1> DEFINE A == {j \in i..Len(a) : a[j].kind = "close" /\ Count(a, "open", i, j) = Count(a, "close", i, j)}
    B == {j \in i..Len(b) : b[j].kind = "close" /\ Count(b, "open", i, j) = Count(b, "close", i, j)}
<1>2. A = B
  <2>1. \A j \in i..Len(a) : a[j].kind = b[j].kind
    OBVIOUS
  <2> QED BY <1>1, <2>1
<1>3. CloseIndex(a, i) = IF A = {} THEN Len(a) ELSE Min(A)
  BY DEF CloseIndex, Count
<1>4. CloseIndex(b, i) = IF B = {} THEN Len(b) ELSE Min(B)
  BY DEF CloseIndex, Count
<1> HIDE DEF A, B
<1> QED BY <1>2, <1>3, <1>4

LEMMA WithinIs ==
  ASSUME NEW lines, \A k \in 1..Len(lines) : lines[k].tabs \in Nat, Len(lines) \in Nat
  PROVE  /\ \A i, j, k \in 1..Len(lines) : Within(lines, i, j) /\ Within(lines, j, k) => Within(lines, i, k)
         /\ \A i, j, k \in 1..Len(lines) : Within(lines, i, k) /\ i < j /\ j <= k => Within(lines, i, j)
<1>1. ASSUME NEW i \in 1..Len(lines), NEW j \in 1..Len(lines), NEW k \in 1..Len(lines),
             Within(lines, i, j), Within(lines, j, k)
      PROVE  Within(lines, i, k)
  <2>1. i < j /\ j < k /\ j \in (i + 1)..j
    BY <1>1 DEF Within
  <2>2. ASSUME NEW m \in (i + 1)..k PROVE lines[m].tabs > lines[i].tabs
    <3>1. CASE m <= j
      <4>1. m \in (i + 1)..j
        BY <2>1, <3>1
      <4> QED BY <1>1, <4>1 DEF Within
    <3>2. CASE m > j
      <4>1. m \in (j + 1)..k /\ m \in 1..Len(lines)
        BY <2>1, <3>2
      <4>2. lines[m].tabs > lines[j].tabs /\ lines[j].tabs > lines[i].tabs
        BY <1>1, <2>1, <4>1 DEF Within
      <4>3. lines[m].tabs \in Nat /\ lines[j].tabs \in Nat /\ lines[i].tabs \in Nat
        BY <4>1
      <4> QED BY <4>2, <4>3
    <3> QED BY <2>1, <3>1, <3>2
  <2> QED BY <2>1, <2>2 DEF Within
<1>2. ASSUME NEW i \in 1..Len(lines), NEW j \in 1..Len(lines), NEW k \in 1..Len(lines),
             Within(lines, i, k), i < j, j <= k
      PROVE  Within(lines, i, j)
  <2>1. \A m \in (i + 1)..j : m \in (i + 1)..k
    BY <1>2
  <2> QED BY <1>2, <2>1 DEF Within
<1> QED BY <1>1, <1>2

(* The blocks of a scope that the walk visits: the outermost ones.         *)
InBlocks(lines, scope, how) == {i \in scope.from..(scope.end - 1) : OpensBlock(lines[i], how.opener)}
Outermost(lines, scope, how) ==
  {i \in InBlocks(lines, scope, how) : \A k \in InBlocks(lines, scope, how) : ~Within(lines, k, i)}
Holds(lines, how, i) ==
  how.word = Absent \/ \E j \in 1..Len(lines) : Within(lines, i, j) /\ lines[j].val = how.word

(* The lines once the walk has come to line n.                             *)
WalkedTo(lines, scope, how, n) ==
  [j \in 1..Len(lines) |->
     IF \E i \in Outermost(lines, scope, how) : i < n /\ Holds(lines, how, i) /\ Within(lines, i, j)
     THEN ScaledLine(lines[j], how) ELSE lines[j]]

WalkOK(s, n, lines, scope, how) ==
  /\ WalkState(s) /\ s.next \in Nat
  /\ s.lines = WalkedTo(lines, scope, how, n)
  /\ \A x \in InBlocks(lines, scope, how) :
        n <= x /\ x < s.next => \E k \in InBlocks(lines, scope, how) : Within(lines, k, x)
  /\ \A k \in InBlocks(lines, scope, how), x \in 1..Len(lines) :
        k < n /\ n <= x /\ Within(lines, k, x) => x < s.next

LEMMA ScaledLineIs ==
  ASSUME NEW line, IsLine(line), NEW how
  PROVE  /\ ScaledLine(line, how).kind = line.kind
         /\ \A name : OpensBlock(ScaledLine(line, how), name) <=> OpensBlock(line, name)
         /\ ScaledLine(line, how).tabs = line.tabs
         /\ line.kind = "close" \/ line.val = Absent => ScaledLine(line, how) = line
<1>1. Absent.is # "number"
  BY DEF Absent
<1>a. {"tabs", "kind", "name", "id", "val"} \subseteq DOMAIN line
  BY DEF IsLine
<1>2. CASE ~Takes(line, how)
  BY <1>2 DEF ScaledLine
<1>3. CASE Takes(line, how)
  <2> DEFINE val == FormatNum(Clamp(Times(line.val.q, how.mult), how.cap).q, line.val, "off")
      new == [line EXCEPT !.val = val]
  <2>1. val.is = "number"
    BY DEF FormatNum, Number
  <2> HIDE DEF val
  <2>2. new.tabs = line.tabs /\ new.kind = line.kind /\ new.val = val /\ new.name = line.name /\ new.id = line.id
    BY <1>a
  <2>3. ScaledLine(line, how) = new
    BY <1>3 DEF ScaledLine, val
  <2>4. line.val # Absent /\ val # Absent /\ line.kind # "close"
    BY <1>1, <1>3, <2>1 DEF Takes
  <2> HIDE DEF new
  <2> QED BY <2>2, <2>3, <2>4, <1>3 DEF OpensBlock
<1> QED BY <1>2, <1>3

LEMMA WalkedToIs ==
  ASSUME NEW lines, AreLines(lines), NEW scope, NEW how, NEW n, NEW t, t = WalkedTo(lines, scope, how, n)
  PROVE  /\ IsSequence(t) /\ Len(t) = Len(lines) /\ Len(lines) \in Nat
         /\ \A j \in 1..Len(lines) : t[j] = ScaledLine(lines[j], how) \/ t[j] = lines[j]
         /\ \A j \in 1..Len(lines) : t[j].kind = lines[j].kind
         /\ \A j \in 1..Len(lines) : \A name : OpensBlock(t[j], name) <=> OpensBlock(lines[j], name)
<1>1. Len(lines) \in Nat /\ \A j \in 1..Len(lines) : IsLine(lines[j])
  BY SequenceIs DEF AreLines
<1>2. DOMAIN t = 1..Len(lines) /\ t = [j \in 1..Len(lines) |-> t[j]]
  BY DEF WalkedTo
<1>3. \A j \in 1..Len(lines) : t[j] = ScaledLine(lines[j], how) \/ t[j] = lines[j]
  BY DEF WalkedTo
<1>4. IsSequence(t) /\ Len(t) = Len(lines)
  BY <1>1, <1>2, FunctionSequence
<1>5. \A j \in 1..Len(lines) : /\ t[j].kind = lines[j].kind
                               /\ \A name : OpensBlock(t[j], name) <=> OpensBlock(lines[j], name)
  BY <1>1, <1>3, ScaledLineIs
<1> QED BY <1>1, <1>3, <1>4, <1>5

IsScope(scope, lines) == scope.from \in 1..Len(lines) + 1 /\ scope.end \in scope.from..Len(lines) + 1
IsHow(how) == how.from \in {0, 1} /\ (how.word = Absent \/ how.word.is = "word")

LEMMA WalkStarts ==
  ASSUME NEW lines, AreLines(lines), NEW scope, IsScope(scope, lines), NEW how
  PROVE  WalkOK([lines |-> lines, next |-> scope.from, count |-> 0, capped |-> 0], scope.from, lines, scope, how)
<1> DEFINE s == [lines |-> lines, next |-> scope.from, count |-> 0, capped |-> 0]
    t == WalkedTo(lines, scope, how, scope.from)
<1>1. Len(lines) \in Nat /\ scope.from \in Nat /\ scope.from \in Int
  BY SequenceIs DEF AreLines, IsScope
<1>2. \A i \in InBlocks(lines, scope, how) : ~(i < scope.from)
  BY <1>1 DEF InBlocks, IsScope
<1>3. t = [j \in 1..Len(lines) |-> lines[j]]
  <2>1. \A j \in 1..Len(lines) :
           ~\E i \in Outermost(lines, scope, how) : i < scope.from /\ Holds(lines, how, i) /\ Within(lines, i, j)
    BY <1>2 DEF Outermost
  <2> QED BY <2>1 DEF WalkedTo
<1>4. lines = [j \in 1..Len(lines) |-> lines[j]]
  <2> DEFINE R == Range(lines)
  <2>1. lines \in Seq(R)
    BY DEF AreLines, IsSequence
  <2> HIDE DEF R
  <2> QED BY <2>1
<1>5. s.lines = lines /\ s.next = scope.from /\ WalkState(s)
  BY DEF WalkState
<1>6. \A x \in InBlocks(lines, scope, how) : ~(scope.from <= x /\ x < scope.from)
  BY <1>1 DEF InBlocks
<1> HIDE DEF s, t
<1>7. WalkOK(s, scope.from, lines, scope, how)
  BY <1>1, <1>2, <1>3, <1>4, <1>5, <1>6 DEF WalkOK, t
<1> QED BY <1>7 DEF s

LEMMA WalkGoesOn ==
  ASSUME NEW lines, AreLines(lines), Indented(lines), NEW scope, IsScope(scope, lines), NEW how, IsHow(how),
         NEW i \in scope.from..(scope.end - 1), NEW s, WalkOK(s, i, lines, scope, how)
  PROVE  WalkOK(VisitBlock(s, how, i), i + 1, lines, scope, how)
<1> DEFINE N == Len(lines)
    B == InBlocks(lines, scope, how)
    O == Outermost(lines, scope, how)
    W(j, k) == Within(lines, j, k)
    last == CloseIndex(lines, i)
    past == [s EXCEPT !.next = PastBlock(s.lines, i)]
    t == VisitBlock(s, how, i)
    now == WalkedTo(lines, scope, how, i)
    then == WalkedTo(lines, scope, how, i + 1)
<1>1. /\ N \in Nat /\ i \in 1..N /\ i \in Nat /\ i + 1 \in Nat
      /\ \A j \in 1..N : IsLine(lines[j]) /\ lines[j].tabs \in Nat /\ lines[j].kind \in {"open", "self", "close"}
  BY SequenceIs DEF AreLines, IsScope, IsLine
<1>2. B \subseteq 1..N /\ O \subseteq B /\ (i \in B <=> OpensBlock(lines[i], how.opener))
  BY <1>1 DEF InBlocks, Outermost, IsScope
<1>3. /\ \A j, k, m \in 1..N : W(j, k) /\ W(k, m) => W(j, m)
      /\ \A j, k, m \in 1..N : W(j, m) /\ j < k /\ k <= m => W(j, k)
      /\ \A j, k \in 1..N : W(j, k) => j < k
  BY <1>1, WithinIs DEF Within
<1>4. /\ WalkState(s) /\ s.next \in Nat /\ s.lines = now
      /\ \A x \in B : i <= x /\ x < s.next => \E k \in B : W(k, x)
      /\ \A k \in B, x \in 1..N : k < i /\ i <= x /\ W(k, x) => x < s.next
  BY DEF WalkOK
<1>5. /\ IsSequence(s.lines) /\ Len(s.lines) = N
      /\ \A j \in 1..N : s.lines[j].kind = lines[j].kind
      /\ \A j \in 1..N : \A name : OpensBlock(s.lines[j], name) <=> OpensBlock(lines[j], name)
  <2>1. s.lines = WalkedTo(lines, scope, how, i)
    BY <1>4
  <2> DEFINE u == s.lines
  <2>2. u = WalkedTo(lines, scope, how, i)
    BY <2>1
  <2> HIDE DEF u
  <2>3. /\ IsSequence(u) /\ Len(u) = N
        /\ \A j \in 1..N : u[j].kind = lines[j].kind
    BY <2>2, WalkedToIs
  <2>4. \A j \in 1..N : \A name : OpensBlock(u[j], name) <=> OpensBlock(lines[j], name)
    BY <2>2, WalkedToIs
  <2> QED BY <2>3, <2>4 DEF u
<1>6. ASSUME i \notin O \/ ~Holds(lines, how, i) PROVE then = now
  <2>1. \A k \in O : k \in Nat
    BY <1>1, <1>2
  <2>2. \A k \in O : Holds(lines, how, k) => (k < i + 1 <=> k < i)
    BY <1>1, <1>6, <2>1
  <2> QED BY <2>2 DEF WalkedTo
<1>7. CASE i < s.next \/ ~OpensBlock(s.lines[i], how.opener)
  <2>1. t = s
    BY <1>7 DEF VisitBlock
  <2>2. i \in B => i < s.next
    BY <1>1, <1>2, <1>5, <1>7
  <2>3. i \in B => \E k \in B : W(k, i)
    BY <1>1, <1>4, <2>2
  <2>4. i \notin O
    BY <2>3 DEF Outermost
  <2>5. \A x \in B : i + 1 <= x /\ x < s.next => \E k \in B : W(k, x)
    BY <1>1, <1>2, <1>4
  <2>6. ASSUME NEW k \in B, NEW x \in 1..N, k < i + 1, i + 1 <= x, W(k, x) PROVE x < s.next
    <3>1. k \in 1..N /\ i <= x
      BY <1>1, <1>2, <2>6
    <3>2. CASE k < i
      BY <1>4, <2>6, <3>1, <3>2
    <3>3. CASE k = i
      <4>1. PICK h \in B : W(h, i)
        BY <2>3, <2>6, <3>3
      <4>2. h \in 1..N /\ h < i /\ W(h, x)
        BY <1>1, <1>2, <1>3, <2>6, <3>3, <4>1
      <4> QED BY <1>4, <3>1, <4>2
    <3> QED BY <1>1, <2>6, <3>1, <3>2, <3>3
  <2>7. s.lines = then
    BY <1>4, <1>6, <2>4
  <2> HIDE DEF t, B, W, then, now
  <2>8. WalkOK(s, i + 1, lines, scope, how)
    BY <1>4, <2>5, <2>6, <2>7 DEF WalkOK, B, W, then
  <2> QED BY <2>1, <2>8 DEF t
<1>8. CASE ~(i < s.next) /\ OpensBlock(s.lines[i], how.opener)
  <2>1. OpensBlock(lines[i], how.opener) /\ i \in B /\ lines[i].kind = "open" /\ lines[i].val = Absent
    BY <1>1, <1>2, <1>5, <1>8 DEF OpensBlock
  <2>2. ASSUME NEW k \in B, NEW x \in 1..N, i <= x, W(k, x) PROVE ~(k < i)
    BY <1>4, <1>1, <1>2, <1>3, <1>8, <2>2
  <2>3. i \in O
    BY <1>1, <1>2, <1>3, <2>1, <2>2 DEF Outermost
  <2>4. /\ last \in i..N
        /\ \A j \in 1..N : W(i, j) => j \in (i + 1)..last
        /\ \A j \in (i + 1)..last : W(i, j) \/ lines[j].kind = "close"
    BY <1>1, <2>1, BlockIs
  <2>5. CloseIndex(s.lines, i) = last /\ PastBlock(s.lines, i) = last + 1
    BY <1>1, <1>5, SameClose DEF PastBlock
  <2>6. \A j \in i..N : s.lines[j] = lines[j]
    <3>1. ASSUME NEW j \in i..N, NEW k \in O, k < i PROVE ~W(k, j)
      BY <1>1, <1>2, <2>2, <3>1
    <3>2. \A j \in i..N : j \in 1..N /\ now[j] = lines[j]
      BY <1>1, <3>1 DEF WalkedTo
    <3> QED BY <1>4, <3>2
  <2> DEFINE matched == how.word = Absent \/ \E j \in i..last : s.lines[j].val = how.word
      block == (i + how.from)..last
      put == PutAll([past EXCEPT !.count = @ + 1], ScaledBy(s.lines, block, how.keys, how.mult, how.cap))
  <2>7. t = IF ~matched THEN past ELSE put
    <3>1. VisitBlock(s, how, i) = IF i < s.next \/ ~OpensBlock(s.lines[i], how.opener) THEN s
                                  ELSE IF ~matched THEN past ELSE put
      BY <2>5 DEF VisitBlock
    <3> QED BY <1>8, <3>1
  <2>8. matched <=> Holds(lines, how, i)
    <3>1. how.word # Absent => how.word.is = "word" /\ \A j \in 1..N : lines[j].kind = "close" => lines[j].val # how.word
      BY <1>1 DEF IsHow, IsLine
    <3>2. \A j \in i..last : j \in 1..N /\ j \in i..N /\ (j = i \/ j \in (i + 1)..last)
      BY <1>1, <2>4
    <3>3. \A j \in 1..N : W(i, j) => j \in i..last
      BY <1>1, <2>4
    <3>4. ASSUME how.word # Absent, NEW j \in i..last, s.lines[j].val = how.word
          PROVE  \E k \in 1..N : W(i, k) /\ lines[k].val = how.word
      <4>1. lines[j].val = how.word /\ j # i /\ j \in (i + 1)..last /\ j \in 1..N
        BY <2>1, <2>6, <3>2, <3>4
      <4>2. lines[j].kind # "close"
        BY <3>1, <3>4, <4>1
      <4> QED BY <2>4, <4>1, <4>2
    <3>5. ASSUME NEW k \in 1..N, W(i, k), lines[k].val = how.word PROVE \E j \in i..last : s.lines[j].val = how.word
      BY <2>6, <3>2, <3>3, <3>5
    <3> QED BY <3>4, <3>5 DEF Holds
  <2>9. WalkState(past) /\ past.next = last + 1 /\ past.lines = s.lines
    BY <1>4, <2>5 DEF WalkState
  <2>10. /\ WalkState(t) /\ t.next = last + 1
         /\ t.lines = IF ~matched THEN s.lines
                      ELSE [j \in 1..N |-> IF j \in block THEN ScaledLine(s.lines[j], how) ELSE s.lines[j]]
    <3> DEFINE one == [past EXCEPT !.count = @ + 1]
    <3>1. WalkState(one) /\ one.next = last + 1 /\ one.lines = s.lines
      BY <2>9 DEF WalkState
    <3> HIDE DEF one, past, block, matched, t
    <3>2. /\ WalkState(put) /\ put.next = last + 1
          /\ put.lines = [j \in 1..N |-> IF j \in block THEN ScaledLine(s.lines[j], how) ELSE s.lines[j]]
      <4>1. put = PutAll(one, ScaledBy(one.lines, block, how.keys, how.mult, how.cap))
        BY <3>1 DEF one
      <4> HIDE DEF put
      <4>2. /\ WalkState(put) /\ put.next = one.next
            /\ put.lines = [j \in 1..Len(one.lines) |-> IF j \in block THEN ScaledLine(one.lines[j], how) ELSE one.lines[j]]
        <5>1. WalkState(one)
          BY <3>1
        <5> HIDE DEF one
        <5> QED BY <4>1, <5>1, ScaledByIs
      <4> QED BY <1>5, <3>1, <4>2
    <3> HIDE DEF put
    <3> QED BY <2>7, <2>9, <3>2
  <2>11. t.lines = then
    <3>1. CASE ~matched
      BY <1>4, <1>6, <2>8, <2>10, <3>1
    <3>2. CASE matched
      <4>1. ASSUME NEW j \in 1..N
            PROVE  (IF j \in block THEN ScaledLine(s.lines[j], how) ELSE s.lines[j]) = then[j]
        <5>0. then[j] = IF \E k \in O : k < i + 1 /\ Holds(lines, how, k) /\ W(k, j) THEN ScaledLine(lines[j], how) ELSE lines[j]
          BY DEF WalkedTo
        <5>1. CASE W(i, j)
          <6>1. j \in block /\ s.lines[j] = lines[j]
            BY <1>1, <2>4, <2>6, <5>1 DEF IsHow
          <6>2. then[j] = ScaledLine(lines[j], how)
            BY <1>1, <2>3, <2>8, <3>2, <5>0, <5>1
          <6> QED BY <6>1, <6>2
        <5>2. CASE ~W(i, j) /\ j \in i..last
          <6>1. lines[j].kind = "close" \/ lines[j].val = Absent
            BY <1>1, <2>1, <2>4, <5>2
          <6>2. ScaledLine(lines[j], how) = lines[j] /\ s.lines[j] = lines[j]
            BY <1>1, <2>4, <2>6, <5>2, <6>1, ScaledLineIs
          <6> QED BY <5>0, <6>2
        <5>3. CASE j \notin i..last
          <6>1. j \notin block
            BY <1>1, <2>4, <5>3 DEF IsHow
          <6>2. ~W(i, j)
            BY <1>1, <2>4, <5>3
          <6>3. \A k \in O : (k < i + 1 /\ W(k, j)) <=> (k < i /\ W(k, j))
            BY <1>1, <1>2, <6>2
          <6>4. then[j] = now[j]
            BY <5>0, <6>3 DEF WalkedTo
          <6> QED BY <1>4, <6>1, <6>4
        <5> QED BY <5>1, <5>2, <5>3
      <4>2. then = [j \in 1..N |-> then[j]]
        BY DEF WalkedTo
      <4> HIDE DEF then, block, matched, t
      <4>3. t.lines = [j \in 1..N |-> IF j \in block THEN ScaledLine(s.lines[j], how) ELSE s.lines[j]]
        BY <2>10, <3>2
      <4> QED BY <4>1, <4>2, <4>3
    <3> QED BY <3>1, <3>2
  <2>12. \A x \in B : i + 1 <= x /\ x < t.next => \E k \in B : W(k, x)
    <3>1. ASSUME NEW x \in B, i + 1 <= x, x < last + 1 PROVE W(i, x)
      <4>1. x \in 1..N /\ lines[x].kind = "open"
        BY <1>2 DEF InBlocks, OpensBlock
      <4>2. x \in (i + 1)..last
        BY <1>1, <2>4, <3>1, <4>1
      <4> QED BY <2>4, <4>1, <4>2
    <3> QED BY <2>1, <2>10, <3>1
  <2>13. ASSUME NEW k \in B, NEW x \in 1..N, k < i + 1, i + 1 <= x, W(k, x) PROVE x < t.next
    <3>1. k = i
      BY <1>1, <1>2, <2>2, <2>13
    <3> QED BY <1>1, <2>4, <2>10, <2>13, <3>1
  <2>14. t.next \in Nat
    BY <1>1, <2>4, <2>10
  <2> HIDE DEF t, B, W, then, now
  <2>15. WalkOK(t, i + 1, lines, scope, how)
    BY <2>10, <2>11, <2>12, <2>13, <2>14 DEF WalkOK, B, W, then
  <2> QED BY <2>15 DEF t
<1> QED BY <1>7, <1>8

(* The walk over a scope scales what is inside its outermost blocks, once. *)
LEMMA WalkEnds ==
  ASSUME NEW lines, AreLines(lines), Indented(lines), NEW scope, IsScope(scope, lines), NEW how, IsHow(how)
  PROVE  ScaleBlocks(lines, scope, how).lines = WalkedTo(lines, scope, how, scope.end)
<1> DEFINE N == scope.end - scope.from
<1>1. N \in Nat /\ scope.from \in Nat /\ scope.from + N = scope.end
  BY SequenceIs DEF AreLines, IsScope
<1>2. PICK f : Walking(f, N, lines, scope, how) /\ ScaleBlocks(lines, scope, how) = f[N]
  BY <1>1, WalkingIs, Zenon
<1>3. /\ f[0] = [lines |-> lines, next |-> scope.from, count |-> 0, capped |-> 0]
      /\ \A i \in 1..N : f[i] = VisitBlock(f[i - 1], how, scope.from + i - 1)
  BY <1>2 DEF Walking
<1> DEFINE Good == {n \in 0..N : WalkOK(f[n], scope.from + n, lines, scope, how)}
<1>4. 0 \in Good
  <2>1. scope.from + 0 = scope.from /\ 0 \in 0..N
    BY <1>1
  <2> QED BY <1>3, <2>1, WalkStarts
<1>5. ASSUME NEW n \in 0..(N - 1), n \in Good PROVE n + 1 \in Good
  <2> DEFINE i == scope.from + n
  <2>1. /\ n + 1 \in 1..N /\ n + 1 \in 0..N /\ (n + 1) - 1 = n /\ scope.from + (n + 1) - 1 = i
        /\ i \in scope.from..(scope.end - 1) /\ scope.from + (n + 1) = i + 1
    BY <1>1 DEF IsScope
  <2>2. f[n + 1] = VisitBlock(f[n], how, i)
    BY <1>3, <2>1
  <2>3. WalkOK(f[n], i, lines, scope, how)
    BY <1>5
  <2> HIDE DEF i
  <2>4. WalkOK(f[n + 1], i + 1, lines, scope, how)
    BY <2>1, <2>2, <2>3, WalkGoesOn
  <2> QED BY <2>1, <2>4
<1> HIDE DEF Good
<1>6. N \in Good
  BY <1>1, <1>4, <1>5, InductionUpTo
<1> HIDE DEF N
<1>7. WalkOK(f[N], scope.end, lines, scope, how)
  BY <1>1, <1>6 DEF Good
<1> QED BY <1>2, <1>7 DEF WalkOK, N

LEMMA OnlyOne == ASSUME NEW e \in Int PROVE Min({e}) = e
  BY DEF Min

(* The scope of an entry is the entry's block.                             *)
InEntry(lines, entry, i) ==
  \/ entry = "" \/ lines[i].id = entry
  \/ \E e \in 1..Len(lines) : lines[e].id = entry /\ Within(lines, e, i)

LEMMA EntryIs ==
  ASSUME NEW lines, AreLines(lines), Indented(lines), NEW entry, Stamps(lines, entry),
         NEW scope, scope = EntryScope(lines, entry)
  PROVE  /\ IsScope(scope, lines) /\ scope.from # 0
         /\ \A how : InBlocks(lines, scope, how)
                       = {i \in 1..Len(lines) : OpensBlock(lines[i], how.opener) /\ InEntry(lines, entry, i)}
<1> DEFINE N == Len(lines)
<1>1. N \in Nat
  BY SequenceIs DEF AreLines
<1>2. CASE entry = ""
  <2>1. scope = [from |-> 1, end |-> N + 1]
    BY <1>2 DEF EntryScope
  <2>2. IsScope(scope, lines) /\ scope.from # 0 /\ scope.from..(scope.end - 1) = 1..N
    BY <1>1, <2>1 DEF IsScope
  <2> QED BY <1>2, <2>2 DEF InBlocks, InEntry
<1>3. CASE entry # ""
  <2>1. PICK e \in 1..N : lines[e].kind = "open" /\ \A j \in 1..N : lines[j].id = entry <=> j = e
    BY <1>3 DEF Stamps
  <2> DEFINE stamped == {j \in 1..N : lines[j].id = entry}
      last == CloseIndex(lines, e)
  <2>2. stamped = {e}
    BY <2>1
  <2>3. Min(stamped) = e
    BY <2>2, OnlyOne
  <2>4. scope = [from |-> e, end |-> last + 1]
    <3> HIDE DEF last
    <3>1. e # 0
      BY <1>1
    <3> QED BY <1>3, <2>2, <2>3, <3>1 DEF EntryScope, last
  <2>5. /\ last \in e..N
        /\ \A j \in 1..N : Within(lines, e, j) => j \in (e + 1)..last
        /\ \A j \in (e + 1)..last : Within(lines, e, j) \/ lines[j].kind = "close"
    BY <2>1, BlockIs
  <2> HIDE DEF last
  <2>6. IsScope(scope, lines) /\ scope.from # 0 /\ scope.from..(scope.end - 1) = e..last
    BY <1>1, <2>4, <2>5 DEF IsScope
  <2>7. \A i \in 1..N : InEntry(lines, entry, i) <=> i = e \/ Within(lines, e, i)
    BY <1>3, <2>1 DEF InEntry
  <2>8. ASSUME NEW name, NEW i, OpensBlock(lines[i], name) PROVE i \in e..last <=> i \in 1..N /\ InEntry(lines, entry, i)
    <3>1. lines[i].kind # "close" /\ lines[i].id # entry
      BY <1>3, <2>8 DEF OpensBlock
    <3>2. ASSUME i \in e..last PROVE i \in 1..N /\ InEntry(lines, entry, i)
      <4>1. i \in 1..N /\ (i = e \/ i \in (e + 1)..last)
        BY <1>1, <2>5, <3>2
      <4> QED BY <2>1, <2>5, <2>7, <3>1, <4>1
    <3>3. ASSUME i \in 1..N, InEntry(lines, entry, i) PROVE i \in e..last
      BY <1>1, <2>5, <2>7, <3>3
    <3> QED BY <3>2, <3>3
  <2>9. ASSUME NEW how
        PROVE  InBlocks(lines, scope, how)
                 = {i \in 1..N : OpensBlock(lines[i], how.opener) /\ InEntry(lines, entry, i)}
    BY <2>6, <2>8 DEF InBlocks
  <2> QED BY <2>6, <2>9
<1> QED BY <1>2, <1>3

(* What Scaled says, in the walk's words.                                  *)
LEMMA ScaledIs ==
  ASSUME NEW lines, AreLines(lines), NEW blk, blk.op \in {"currency", "wrapper"}, NEW scope, NEW n,
         NEW how, how = IF blk.op = "currency" THEN HowCurrency(blk) ELSE HowWrapper(blk),
         InBlocks(lines, scope, how)
           = {i \in 1..Len(lines) : OpensBlock(lines[i], how.opener) /\ InEntry(lines, blk.entry, i)},
         \A i \in InBlocks(lines, scope, how) : i < n
  PROVE  WalkedTo(lines, scope, how, n) = Scaled(lines, blk)
<1> DEFINE N == Len(lines)
    opener == IF blk.op = "currency" THEN "GcRewardMoney" ELSE blk.name
    keys   == IF blk.op = "currency" THEN {"AmountMin", "AmountMax"} ELSE blk.keys
    blocks == {i \in 1..N : OpensBlock(lines[i], opener) /\ InEntry(lines, blk.entry, i)}
    outer  == {i \in blocks : \A k \in blocks : ~Within(lines, k, i)}
    Pays(i) == \E j \in 1..N : Within(lines, i, j) /\ lines[j].val = Word(blk.name)
    hit    == {i \in outer : blk.op = "wrapper" \/ Pays(i)}
    New(line) == FormatNum(Clamp(Times(line.val.q, blk.mult), blk.cap).q, line.val, "off")
    To == [j \in 1..N |->
            IF lines[j].kind # "close" /\ lines[j].name \in keys /\ lines[j].val.is = "number"
               /\ \E i \in hit : Within(lines, i, j)
            THEN [lines[j] EXCEPT !.val = New(lines[j])] ELSE lines[j]]
<1>1. Scaled(lines, blk) = To
  BY Zenon DEF Scaled, InEntry
<1>2. /\ how.opener = opener /\ how.keys = keys /\ how.mult = blk.mult /\ how.cap = blk.cap
      /\ how.word = IF blk.op = "currency" THEN Word(blk.name) ELSE Absent
  BY DEF HowCurrency, HowWrapper
<1>3. InBlocks(lines, scope, how) = blocks /\ Outermost(lines, scope, how) = outer
  BY <1>2 DEF Outermost
<1>4. \A i \in 1..N : Holds(lines, how, i) <=> blk.op = "wrapper" \/ Pays(i)
  <2>1. Word(blk.name) # Absent
    BY DEF Word, Absent
  <2>2. blk.op = "wrapper" <=> how.word = Absent
    BY <1>2, <2>1
  <2> QED BY <1>2, <2>2 DEF Holds
<1>5. \A j \in 1..N : Takes(lines[j], how) <=> lines[j].kind # "close" /\ lines[j].name \in keys /\ lines[j].val.is = "number"
  BY <1>2 DEF Takes, AreLines, IsLine
<1>6. ASSUME NEW j \in 1..N
      PROVE  (\E i \in Outermost(lines, scope, how) : i < n /\ Holds(lines, how, i) /\ Within(lines, i, j))
               <=> \E i \in hit : Within(lines, i, j)
  <2>1. \A i \in outer : i \in 1..N /\ i < n
    BY <1>3
  <2>2. hit = {i \in outer : Holds(lines, how, i)}
    BY <1>4, <2>1
  <2> HIDE DEF hit, outer
  <2> QED BY <1>3, <2>1, <2>2
<1>7. \A j \in 1..N : Takes(lines[j], how) => ScaledLine(lines[j], how) = [lines[j] EXCEPT !.val = New(lines[j])]
  BY <1>2 DEF ScaledLine
<1> HIDE DEF hit, New, keys
<1>8. ASSUME NEW j \in 1..N
      PROVE  WalkedTo(lines, scope, how, n)[j] = To[j]
  <2>1. WalkedTo(lines, scope, how, n)[j] =
          IF \E i \in hit : Within(lines, i, j) THEN ScaledLine(lines[j], how) ELSE lines[j]
    BY <1>6 DEF WalkedTo
  <2>2. CASE Takes(lines[j], how)
    BY <1>5, <1>7, <2>1, <2>2
  <2>3. CASE ~Takes(lines[j], how)
    <3>1. ScaledLine(lines[j], how) = lines[j]
      BY <2>3 DEF ScaledLine
    <3> QED BY <1>5, <2>1, <2>3, <3>1
  <2> QED BY <2>2, <2>3
<1>9. WalkedTo(lines, scope, how, n) = [j \in 1..N |-> WalkedTo(lines, scope, how, n)[j]]
  BY DEF WalkedTo
<1>10. To = [j \in 1..N |-> To[j]]
  OBVIOUS
<1> HIDE DEF To
<1> QED BY <1>1, <1>8, <1>9, <1>10

LEMMA DoneLines ==
  ASSUME NEW lines, NEW mod, NEW capped
  PROVE  Done(lines, mod, capped).lines = lines /\ Warned(lines, mod).lines = lines
BY DEF Done, Warned

LEMMA ApplyScales ==
  ASSUME NEW lines, AreLines(lines), Indented(lines), NEW blk, blk.op \in {"currency", "wrapper"}, NEW mod,
         blk.mult # NoNumber, Stamps(lines, blk.entry)
  PROVE  Apply(lines, blk, mod).lines = Scaled(lines, blk)
<1> DEFINE scope == EntryScope(lines, blk.entry)
    how == IF blk.op = "currency" THEN HowCurrency(blk) ELSE HowWrapper(blk)
<1>1. IsHow(how)
  BY DEF IsHow, HowCurrency, HowWrapper, Word
<1>2. Apply(lines, blk, mod) = IF blk.mult = NoNumber \/ scope.from = 0 THEN Warned(lines, mod)
                               ELSE Done(ScaleBlocks(lines, scope, how).lines, mod, ScaleBlocks(lines, scope, how).capped)
  <2>1. CASE blk.op = "currency"
    BY <2>1 DEF Apply, CurrencyMult
  <2>2. CASE blk.op = "wrapper"
    BY <2>2 DEF Apply, WrapperMult
  <2> QED BY <2>1, <2>2
<1> HIDE DEF scope, how
<1>3. /\ IsScope(scope, lines) /\ scope.from # 0
      /\ InBlocks(lines, scope, how)
           = {i \in 1..Len(lines) : OpensBlock(lines[i], how.opener) /\ InEntry(lines, blk.entry, i)}
  <2>1. scope = EntryScope(lines, blk.entry)
    BY DEF scope
  <2>2. /\ IsScope(scope, lines) /\ scope.from # 0
        /\ \A h : InBlocks(lines, scope, h)
                    = {i \in 1..Len(lines) : OpensBlock(lines[i], h.opener) /\ InEntry(lines, blk.entry, i)}
    BY <2>1, EntryIs
  <2> QED BY <2>2
<1>4. Apply(lines, blk, mod).lines = ScaleBlocks(lines, scope, how).lines
  <2> DEFINE r == ScaleBlocks(lines, scope, how)
  <2>1. Apply(lines, blk, mod) = Done(r.lines, mod, r.capped)
    BY <1>2, <1>3
  <2> HIDE DEF r
  <2>2. Done(r.lines, mod, r.capped).lines = r.lines
    BY DoneLines
  <2> QED BY <2>1, <2>2 DEF r
<1>5. ScaleBlocks(lines, scope, how).lines = WalkedTo(lines, scope, how, scope.end)
  BY <1>1, <1>3, WalkEnds
<1>6. \A i \in InBlocks(lines, scope, how) : i < scope.end
  <2>1. scope.from \in Nat /\ scope.end \in Nat
    BY <1>3, SequenceIs DEF AreLines, IsScope
  <2> QED BY <2>1 DEF InBlocks
<1>7. WalkedTo(lines, scope, how, scope.end) = Scaled(lines, blk)
  BY <1>3, <1>6, ScaledIs DEF how
<1> QED BY <1>4, <1>5, <1>7

(***************************************************************************)
(* Numbers and values.                                                     *)
(***************************************************************************)
LEMMA LeastOf ==
  ASSUME NEW a \in Int, NEW b \in Int, NEW S, S \subseteq a..b, S # {}
  PROVE  Min(S) \in S /\ \A x \in S : Min(S) <= x
<1> DEFINE T == {n \in Nat : n + a \in S}
<1>1. T # {}
  <2>1. PICK x \in S : TRUE
    OBVIOUS
  <2>2. x - a \in Nat /\ (x - a) + a = x
    BY <2>1
  <2> QED BY <2>1, <2>2
<1>2. PICK n \in T : \A m \in T : n <= m
  <2> HIDE DEF T
  <2>1. T \in SUBSET Nat
    BY DEF T
  <2> QED BY <1>1, <2>1, LeastNatural
<1>3. n + a \in S /\ n \in Nat
  OBVIOUS
<1>4. ASSUME NEW x \in S PROVE n + a <= x
  <2>1. x - a \in Nat /\ (x - a) + a = x /\ x \in Int
    OBVIOUS
  <2>2. n <= x - a
    BY <1>2, <2>1
  <2> QED BY <1>3, <2>1, <2>2
<1>5. \E x \in S : \A y \in S : x <= y
  BY <1>3, <1>4
<1> QED BY <1>5, Zenon DEF Min

LEMMA GreatestOf ==
  ASSUME NEW a \in Int, NEW b \in Int, NEW S, S \subseteq a..b, S # {}
  PROVE  Max(S) \in S /\ \A x \in S : Max(S) >= x
<1> DEFINE T == {n \in Nat : b - n \in S}
<1>1. T # {}
  <2>1. PICK x \in S : TRUE
    OBVIOUS
  <2>2. b - x \in Nat /\ b - (b - x) = x
    BY <2>1
  <2> QED BY <2>1, <2>2
<1>2. PICK n \in T : \A m \in T : n <= m
  <2> HIDE DEF T
  <2>1. T \in SUBSET Nat
    BY DEF T
  <2> QED BY <1>1, <2>1, LeastNatural
<1>3. b - n \in S /\ n \in Nat
  OBVIOUS
<1>4. ASSUME NEW x \in S PROVE b - n >= x
  <2>1. b - x \in Nat /\ b - (b - x) = x /\ x \in Int
    OBVIOUS
  <2>2. n <= b - x
    BY <1>2, <2>1
  <2> QED BY <1>3, <2>1, <2>2
<1>5. \E x \in S : \A y \in S : x >= y
  BY <1>3, <1>4
<1> QED BY <1>5, Zenon DEF Max

LEMMA OfTwo ==
  ASSUME NEW a \in Int, NEW b \in Int
  PROVE  /\ Max({a, b}) \in {a, b} /\ Max({a, b}) >= a /\ Max({a, b}) >= b
         /\ Min({a, b}) \in {a, b} /\ Min({a, b}) <= a /\ Min({a, b}) <= b
<1>1. PICK l \in Int, h \in Int : {a, b} \subseteq l..h
  <2>1. a <= b => {a, b} \subseteq a..b
    OBVIOUS
  <2>2. ~(a <= b) => {a, b} \subseteq b..a
    OBVIOUS
  <2> QED BY <2>1, <2>2
<1> DEFINE S == {a, b}
<1>2. S # {} /\ a \in S /\ b \in S
  OBVIOUS
<1> HIDE DEF S
<1>3. S \subseteq l..h
  BY <1>1 DEF S
<1>4. Max(S) \in S /\ \A x \in S : Max(S) >= x
  BY <1>2, <1>3, GreatestOf
<1>5. Min(S) \in S /\ \A x \in S : Min(S) <= x
  BY <1>2, <1>3, LeastOf
<1> QED BY <1>2, <1>4, <1>5 DEF S

LEMMA ReducedIs ==
  ASSUME NEW n \in Int, NEW d \in Nat \ {0}
  PROVE  IsNumber(Reduced(n, d))
<1> DEFINE S == {k \in 1..d : n % k = 0 /\ d % k = 0}
    g == Max(S)
<1>1. 1 \in S
  OBVIOUS
<1>2. g \in S
  <2>1. 1 \in Int /\ d \in Int /\ S \subseteq 1..d /\ S # {}
    BY <1>1
  <2> HIDE DEF S
  <2>2. Max(S) \in S
    BY <2>1, GreatestOf, Zenon
  <2> QED BY <2>2
<1>3. g \in 1..d
  BY <1>2
<1>4. Reduced(n, d) = <<n \div g, d \div g>>
  BY DEF Reduced
<1> HIDE DEF g, S
<1>5. n \div g \in Int /\ d \div g \in Int
  BY <1>3
<1>6. d \div g >= 1
  BY <1>3
<1> QED BY <1>4, <1>5, <1>6 DEF IsNumber

LEMMA PositiveProduct == \A a, b \in Nat \ {0} : a * b \in Nat \ {0}
  OBVIOUS

LEMMA ArithmeticIs ==
  ASSUME NEW x, IsNumber(x), NEW y, IsNumber(y)
  PROVE  IsNumber(Times(x, y)) /\ IsNumber(Sum2(x, y)) /\ (y[1] # 0 => IsNumber(Over(x, y)))
<1>1. x[1] \in Int /\ x[2] \in Nat \ {0} /\ y[1] \in Int /\ y[2] \in Nat \ {0}
  BY DEF IsNumber
<1>2. x[2] * y[2] \in Nat \ {0}
  BY <1>1, PositiveProduct
<1>3. x[1] * y[1] \in Int /\ x[1] * y[2] \in Int /\ y[1] * x[2] \in Int /\ x[2] * y[1] \in Int
  BY <1>1
<1>4. IsNumber(Times(x, y))
  BY <1>2, <1>3, ReducedIs DEF Times
<1>5. IsNumber(Sum2(x, y))
  <2>1. x[1] * y[2] + y[1] * x[2] \in Int
    BY <1>3
  <2> QED BY <1>2, <2>1, ReducedIs DEF Sum2
<1>6. ASSUME y[1] # 0 PROVE IsNumber(Over(x, y))
  <2>1. CASE y[1] > 0
    <3>1. x[2] * y[1] \in Nat \ {0}
      BY <1>1, <2>1, PositiveProduct
    <3> QED BY <1>3, <2>1, <3>1, ReducedIs DEF Over
  <2>2. CASE ~(y[1] > 0)
    <3>1. -y[1] \in Nat \ {0}
      BY <1>1, <1>6, <2>2
    <3>2. x[2] * (-y[1]) \in Nat \ {0}
      BY <1>1, <3>1, PositiveProduct
    <3>3. -(x[2] * y[1]) = x[2] * (-y[1])
      BY <1>1
    <3>4. -(x[2] * y[1]) \in Nat \ {0} /\ -(x[1] * y[2]) \in Int
      BY <1>3, <3>2, <3>3
    <3> QED BY <2>2, <3>4, ReducedIs DEF Over
  <2> QED BY <2>1, <2>2
<1> QED BY <1>4, <1>5, <1>6

LEMMA ClampIs ==
  ASSUME NEW q, IsNumber(q), NEW cap, IsNumber(cap)
  PROVE  IsNumber(Clamp(q, cap).q)
BY DEF Clamp

LEMMA FormatIs ==
  ASSUME NEW q, IsNumber(q), NEW old, NEW itof, NEW v, v = FormatNum(q, old, itof)
  PROVE  /\ v.is = "number" /\ IsValue(v)
         /\ ~old.point /\ itof # "force" => Fits(v)
<1>1. CASE ~old.point /\ itof # "force"
  <2> DEFINE r == Rounded(q)
      low == Min({r, MaxInt32})
      w == Max({-MaxInt32 - 1, low})
  <2>1. r \in Int
    BY DEF Rounded, IsNumber
  <2>2. v = Number(<<w, 1>>, FALSE)
    BY <1>1 DEF FormatNum
  <2> HIDE DEF r
  <2>3. MaxInt32 \in Int /\ -MaxInt32 - 1 \in Int /\ -MaxInt32 - 1 <= MaxInt32
    BY EngineConstants
  <2>4. low \in Int /\ low <= MaxInt32
    BY <2>1, <2>3, OfTwo
  <2> HIDE DEF low
  <2>5. w \in -MaxInt32 - 1..MaxInt32
    <3>1. w \in {-MaxInt32 - 1, low} /\ w >= -MaxInt32 - 1
      BY <2>3, <2>4, OfTwo
    <3> QED BY <2>3, <2>4, <3>1
  <2> HIDE DEF w
  <2>6. v.is = "number" /\ v.q = <<w, 1>> /\ v.point = FALSE
    BY <2>2 DEF Number
  <2> QED BY <2>3, <2>5, <2>6 DEF IsValue, IsNumber, Fits
<1>2. CASE ~(~old.point /\ itof # "force")
  <2>1. v = Number(q, q[2] # 1)
    BY <1>2 DEF FormatNum
  <2>2. v.is = "number" /\ v.q = q /\ v.point = (q[2] # 1)
    BY <2>1 DEF Number
  <2> QED BY <1>2, <2>2 DEF IsValue
<1> QED BY <1>1, <1>2

(***************************************************************************)
(* Sound lines stay sound.                                                 *)
(***************************************************************************)
(* A value that a field of a name may have, and a sound line.              *)
Suits(val, name) == IsValue(val) /\ (name \in IntegerFields => Fits(val))
SoundLine(line) == IsLine(line) /\ Suits(line.val, line.name)
TypedBlock(blk) == IsBlock(blk) /\ \A name \in IntegerFields : KeepsWhole(blk, name)

LEMMA SoundIs ==
  ASSUME NEW lines
  PROVE  Sound(lines) <=> IsSequence(lines) /\ \A i \in 1..Len(lines) : SoundLine(lines[i])
BY DEF Sound, AreLines, SoundLine, Suits, IsLine

LEMMA PutSound ==
  ASSUME NEW line, SoundLine(line), line.kind # "close", NEW val, Suits(val, line.name)
  PROVE  SoundLine(Put(line, val))
<1> DEFINE new == [line EXCEPT !.val = val]
<1>1. DOMAIN line = {"tabs", "kind", "name", "id", "val"} /\ IsLine(line)
  BY DEF SoundLine, IsLine
<1>2. DOMAIN new = DOMAIN line
  OBVIOUS
<1>3. new.val = val /\ new.tabs = line.tabs /\ new.kind = line.kind /\ new.name = line.name
  BY <1>1
<1> HIDE DEF new
<1>4. SoundLine(new)
  BY <1>1, <1>2, <1>3 DEF SoundLine, IsLine, Suits
<1> QED BY <1>4 DEF Put, new

(* Lines that values are put into stay as many.                            *)
LEMMA PutAllSound ==
  ASSUME NEW s, {"lines", "capped"} \subseteq DOMAIN s, Sound(s.lines), NEW put,
         \A j \in 1..Len(s.lines) : j \in DOMAIN put =>
             s.lines[j].kind # "close" /\ Suits(put[j].val, s.lines[j].name),
         NEW t, t = PutAll(s, put)
  PROVE  /\ DOMAIN t = DOMAIN s /\ Sound(t.lines) /\ Len(t.lines) = Len(s.lines)
         /\ \A x \in DOMAIN s \ {"lines", "capped"} : t[x] = s[x]
<1> DEFINE N == Len(s.lines)
    New(j) == IF j \in DOMAIN put THEN Put(s.lines[j], put[j].val) ELSE s.lines[j]
<1>1. IsSequence(s.lines) /\ \A i \in 1..N : SoundLine(s.lines[i])
  BY SoundIs
<1>2. N \in Nat
  BY <1>1, SequenceIs
<1>3. /\ DOMAIN t = DOMAIN s /\ \A x \in DOMAIN s \ {"lines", "capped"} : t[x] = s[x]
      /\ t.lines = [j \in 1..N |-> New(j)]
  BY PutAllIs
<1>4. \A j \in 1..N : SoundLine(New(j))
  BY <1>1, PutSound
<1> DEFINE u == t.lines
<1> HIDE DEF New, N
<1>5. DOMAIN u = 1..N /\ u = [j \in 1..N |-> u[j]] /\ \A j \in 1..N : SoundLine(u[j])
  BY <1>3, <1>4
<1> HIDE DEF u
<1>6. IsSequence(u) /\ Len(u) = N
  BY <1>2, <1>5, FunctionSequence
<1>7. Sound(u)
  BY <1>5, <1>6, SoundIs
<1> QED BY <1>3, <1>6, <1>7 DEF u, N

(* What a change writes suits the field it writes into.                    *)
LEMMA NewValueSuits ==
  ASSUME NEW blk, TypedBlock(blk), NEW ch \in Range(blk.changes), NEW old, Suits(old, ch.key)
  PROVE  Suits(NewValue(blk, old, ch).val, ch.key)
<1> DEFINE v == ch.value
    r == CASE blk.math = "*" -> Times(old.q, v.q)
           [] blk.math = "+" -> Sum2(old.q, v.q)
           [] blk.math = "-" -> Sum2(old.q, <<-v.q[1], v.q[2]>>)
           [] blk.math = "/" -> IF v.q[1] = 0 THEN old.q ELSE Over(old.q, v.q)
    c == Clamp(r, blk.cap)
    new == FormatNum(c.q, old, blk.itof)
    plain == blk.math \notin {"*", "+", "-", "/"} \/ old.is # "number" \/ v.is # "number"
<1>1. NewValue(blk, old, ch).val = IF plain THEN v ELSE new
  BY DEF NewValue
<1>2. IsValue(v) /\ IsNumber(blk.cap)
  BY DEF TypedBlock, IsBlock
<1>3. ch.key \in IntegerFields => Fits(v) /\ blk.itof # "force"
  <2>1. PICK i \in 1..Len(blk.changes) : ch = blk.changes[i]
    BY SequenceIs DEF TypedBlock, IsBlock
  <2> QED BY <2>1 DEF TypedBlock, KeepsWhole
<1>4. CASE plain
  <2> HIDE DEF plain
  <2> QED BY <1>1, <1>2, <1>3, <1>4 DEF Suits
<1>5. CASE ~plain
  <2>1. old.is = "number" /\ v.is = "number" /\ blk.math \in {"*", "+", "-", "/"}
    BY <1>5
  <2>2. IsNumber(old.q) /\ IsNumber(v.q)
    BY <1>2, <2>1 DEF Suits, IsValue
  <2>3. IsNumber(<<-v.q[1], v.q[2]>>)
    BY <2>2 DEF IsNumber
  <2>4. IsNumber(r)
    <3>1. /\ IsNumber(Times(old.q, v.q)) /\ IsNumber(Sum2(old.q, v.q)) /\ (v.q[1] # 0 => IsNumber(Over(old.q, v.q)))
          /\ IsNumber(Sum2(old.q, <<-v.q[1], v.q[2]>>))
      BY <2>2, <2>3, ArithmeticIs
    <3>2. CASE blk.math = "*"
      BY <3>1, <3>2
    <3>3. CASE blk.math = "+"
      BY <3>1, <3>3
    <3>4. CASE blk.math = "-"
      BY <3>1, <3>4
    <3>5. CASE blk.math = "/"
      BY <2>2, <3>1, <3>5
    <3> QED BY <2>1, <3>2, <3>3, <3>4, <3>5
  <2> HIDE DEF r, v
  <2>5. IsNumber(c.q)
    BY <1>2, <2>4, ClampIs
  <2> HIDE DEF c
  <2>6. new.is = "number" /\ IsValue(new) /\ (~old.point /\ blk.itof # "force" => Fits(new))
    BY <2>5, FormatIs
  <2>7. ch.key \in IntegerFields => ~old.point /\ blk.itof # "force"
    BY <1>3, <2>1 DEF Suits, Fits
  <2> HIDE DEF new
  <2>8. Suits(new, ch.key)
    BY <2>6, <2>7 DEF Suits
  <2> QED BY <1>1, <1>5, <2>8
<1> QED BY <1>4, <1>5

(* A change of the lines of its key.                                       *)
LEMMA ChangeSound ==
  ASSUME NEW blk, TypedBlock(blk), NEW ch \in Range(blk.changes),
         NEW s, {"lines", "capped"} \subseteq DOMAIN s, Sound(s.lines), NEW hits,
         \A j \in hits : s.lines[j].kind # "close" /\ s.lines[j].name = ch.key,
         NEW t, t = Change(s, blk, hits, ch)
  PROVE  /\ DOMAIN t = DOMAIN s /\ Sound(t.lines) /\ Len(t.lines) = Len(s.lines)
         /\ \A x \in DOMAIN s \ {"lines", "capped"} : t[x] = s[x]
<1> DEFINE put == [j \in hits |-> NewValue(blk, s.lines[j].val, ch)]
<1>1. t = PutAll(s, put)
  BY DEF Change
<1>2. DOMAIN put = hits /\ \A j \in hits : put[j] = NewValue(blk, s.lines[j].val, ch)
  OBVIOUS
<1> HIDE DEF put
<1>3. ASSUME NEW j \in 1..Len(s.lines), j \in DOMAIN put
      PROVE  s.lines[j].kind # "close" /\ Suits(put[j].val, s.lines[j].name)
  <2>1. s.lines[j].kind # "close" /\ s.lines[j].name = ch.key
    BY <1>2, <1>3
  <2>2. SoundLine(s.lines[j])
    BY SoundIs
  <2>3. Suits(s.lines[j].val, ch.key)
    BY <2>1, <2>2 DEF SoundLine
  <2>4. Suits(NewValue(blk, s.lines[j].val, ch).val, ch.key)
    BY <2>3, NewValueSuits
  <2> QED BY <1>2, <1>3, <2>1, <2>4
<1> QED BY <1>1, <1>3, PutAllSound

(* Where things are found, and where blocks end.                           *)
LEMMA FindPropsIs ==
  ASSUME NEW lines, NEW key, NEW from \in Int, NEW end \in Int, NEW hits, hits = FindProps(lines, key, from, end)
  PROVE  /\ \A j \in hits : lines[j].kind # "close" /\ lines[j].name = key
         /\ hits # {} => Min(hits) \in hits
<1>1. hits \subseteq from..(end - 1) /\ end - 1 \in Int
  BY DEF FindProps
<1>2. hits # {} => Min(hits) \in hits
  BY <1>1, LeastOf, Zenon
<1> QED BY <1>2 DEF FindProps

LEMMA FindKWIs ==
  ASSUME NEW lines, NEW kw, NEW from \in Int, NEW end \in Int
  PROVE  FindKW(lines, kw, from, end) \in {0} \cup from..(end - 1)
<1> DEFINE Q == {j \in from..(end - 1) : Quotes(lines[j], kw)}
    M == {j \in from..(end - 1) : Mentions(lines[j], kw)}
    S == IF Q # {} THEN Q ELSE M
<1>1. FindKW(lines, kw, from, end) = FirstOf(S)
  BY DEF FindKW
<1>2. S \subseteq from..(end - 1) /\ end - 1 \in Int
  OBVIOUS
<1> HIDE DEF S
<1>3. S # {} => Min(S) \in S
  BY <1>2, LeastOf, Zenon
<1> QED BY <1>1, <1>2, <1>3 DEF FirstOf

LEMMA CloseIndexInt ==
  ASSUME NEW lines, IsSequence(lines), NEW i \in Int
  PROVE  /\ CloseIndex(lines, i) \in Int
         /\ i <= Len(lines) => CloseIndex(lines, i) \in i..Len(lines)
<1> DEFINE S == {j \in i..Len(lines) : lines[j].kind = "close"
                   /\ Count(lines, "open", i, j) = Count(lines, "close", i, j)}
<1>1. CloseIndex(lines, i) = IF S = {} THEN Len(lines) ELSE Min(S)
  BY DEF CloseIndex, Count
<1>2. i \in Int /\ Len(lines) \in Int /\ S \subseteq i..Len(lines)
  BY SequenceIs
<1> HIDE DEF S
<1>3. S # {} => Min(S) \in S
  BY <1>2, LeastOf, Zenon
<1>4. S # {} => Min(S) \in i..Len(lines)
  BY <1>2, <1>3
<1> DEFINE l == Len(lines)
    m == Min(S)
<1>5. CASE S = {}
  <2>1. CloseIndex(lines, i) = l /\ l \in Int
    BY <1>1, <1>2, <1>5
  <2> HIDE DEF l
  <2> QED BY <2>1 DEF l
<1>6. CASE S # {}
  <2>1. CloseIndex(lines, i) = m /\ m \in i..Len(lines)
    BY <1>1, <1>4, <1>6
  <2> HIDE DEF m
  <2> QED BY <1>2, <2>1
<1> QED BY <1>5, <1>6

LEMMA WalkUpIs ==
  ASSUME NEW lines, NEW from \in Int, NEW levels
  PROVE  /\ WalkUp(lines, from, levels) \in Int
         /\ from >= 1 => WalkUp(lines, from, levels) \in 1..from
<1> DEFINE K == {k \in 1..from : lines[k].tabs <= lines[from].tabs - levels}
    S == {1} \cup K
<1>1. WalkUp(lines, from, levels) = Max(S)
  BY DEF WalkUp
<1>2. K \subseteq 1..from /\ 1 \in S
  OBVIOUS
<1> HIDE DEF K
<1>3. CASE from >= 1
  <2>1. S \subseteq 1..from /\ S # {} /\ 1 \in Int
    BY <1>2, <1>3
  <2> HIDE DEF S
  <2>2. Max(S) \in S
    BY <2>1, GreatestOf, Zenon
  <2>3. WalkUp(lines, from, levels) \in 1..from
    BY <1>1, <2>1, <2>2
  <2> QED BY <2>3
<1>4. CASE ~(from >= 1)
  <2>1. S \subseteq 1..1 /\ S # {} /\ 1 \in Int
    BY <1>2, <1>4
  <2> HIDE DEF S
  <2>2. Max(S) \in S
    BY <2>1, GreatestOf, Zenon
  <2>3. WalkUp(lines, from, levels) \in 1..1
    BY <1>1, <2>1, <2>2
  <2> QED BY <1>4, <2>3
<1> QED BY <1>3, <1>4

(***************************************************************************)
(* The operations of the engine keep sound lines sound.                    *)
(***************************************************************************)
LEMMA ScaledBySuits ==
  ASSUME NEW lines, Sound(lines), NEW block, NEW keys, NEW mult, IsNumber(mult), NEW cap, IsNumber(cap),
         NEW put, put = ScaledBy(lines, block, keys, mult, cap), NEW j \in 1..Len(lines), j \in DOMAIN put
  PROVE  lines[j].kind # "close" /\ Suits(put[j].val, lines[j].name)
<1> DEFINE line == lines[j]
    q == Clamp(Times(line.val.q, mult), cap).q
    new == FormatNum(q, line.val, "off")
<1>1. line.kind # "close" /\ line.val.is = "number" /\ put[j].val = new
  BY DEF ScaledBy
<1>2. SoundLine(line)
  BY SoundIs
<1> HIDE DEF line
<1>3. IsNumber(line.val.q)
  BY <1>1, <1>2 DEF SoundLine, Suits, IsValue
<1>4. IsNumber(q)
  BY <1>3, ArithmeticIs, ClampIs
<1> HIDE DEF q
<1>5. new.is = "number" /\ IsValue(new) /\ (~line.val.point /\ "off" # "force" => Fits(new))
  BY <1>4, FormatIs
<1> HIDE DEF new
<1>6. Suits(new, line.name)
  BY <1>1, <1>2, <1>5 DEF SoundLine, Suits, Fits
<1> QED BY <1>1, <1>6 DEF line

LEMMA VisitSound ==
  ASSUME NEW s, WalkState(s), Sound(s.lines), NEW how, IsNumber(how.mult), IsNumber(how.cap), NEW i,
         NEW t, t = VisitBlock(s, how, i)
  PROVE  WalkState(t) /\ Sound(t.lines)
<1> DEFINE last == CloseIndex(s.lines, i)
    matched == how.word = Absent \/ \E j \in i..last : s.lines[j].val = how.word
    past == [s EXCEPT !.next = PastBlock(s.lines, i)]
    put == ScaledBy(s.lines, (i + how.from)..last, how.keys, how.mult, how.cap)
    p == [past EXCEPT !.count = @ + 1]
    u == PutAll(p, put)
<1>1. t = s \/ t = past \/ t = u
  BY Zenon DEF VisitBlock
<1>2. /\ WalkState(past) /\ past.lines = s.lines /\ WalkState(p) /\ p.lines = s.lines
      /\ {"lines", "capped"} \subseteq DOMAIN p /\ DOMAIN p = DOMAIN s
  BY DEF WalkState
<1>3. \A j \in 1..Len(s.lines) : j \in DOMAIN put => s.lines[j].kind # "close" /\ Suits(put[j].val, s.lines[j].name)
  <2> DEFINE lines == s.lines
      block == (i + how.from)..last
      keys == how.keys
      mult == how.mult
      cap == how.cap
  <2>1. put = ScaledBy(lines, block, keys, mult, cap) /\ IsNumber(mult) /\ IsNumber(cap) /\ Sound(lines)
    OBVIOUS
  <2> HIDE DEF put, lines, block, keys, mult, cap
  <2>2. \A j \in 1..Len(lines) : j \in DOMAIN put => lines[j].kind # "close" /\ Suits(put[j].val, lines[j].name)
    BY <2>1, ScaledBySuits
  <2> QED BY <2>2 DEF lines
<1> HIDE DEF put, p, past, last, matched
<1>4. u = PutAll(p, put) /\ Sound(p.lines)
  BY <1>2
<1> HIDE DEF u
<1>5. \A j \in 1..Len(p.lines) : j \in DOMAIN put => p.lines[j].kind # "close" /\ Suits(put[j].val, p.lines[j].name)
  BY <1>2, <1>3
<1>6. DOMAIN u = DOMAIN p /\ Sound(u.lines)
  BY <1>2, <1>4, <1>5, PutAllSound
<1>7. WalkState(u)
  BY <1>2, <1>6 DEF WalkState
<1> QED BY <1>1, <1>2, <1>6, <1>7

LEMMA WalkSound ==
  ASSUME NEW lines, Sound(lines), NEW scope, scope.end - scope.from \in Nat,
         NEW how, IsNumber(how.mult), IsNumber(how.cap)
  PROVE  Sound(ScaleBlocks(lines, scope, how).lines)
<1> DEFINE N == scope.end - scope.from
<1>1. PICK f : Walking(f, N, lines, scope, how) /\ ScaleBlocks(lines, scope, how) = f[N]
  BY WalkingIs, Zenon
<1>2. /\ f[0] = [lines |-> lines, next |-> scope.from, count |-> 0, capped |-> 0]
      /\ \A i \in 1..N : f[i] = VisitBlock(f[i - 1], how, scope.from + i - 1)
  BY <1>1 DEF Walking
<1>3. N \in Nat
  OBVIOUS
<1> HIDE DEF N
<1> DEFINE Good == {n \in 0..N : WalkState(f[n]) /\ Sound(f[n].lines)}
<1>4. 0 \in Good
  BY <1>2, <1>3 DEF WalkState
<1>5. ASSUME NEW n \in 0..(N - 1), n \in Good PROVE n + 1 \in Good
  <2>1. n + 1 \in 1..N /\ n + 1 \in 0..N /\ (n + 1) - 1 = n
    BY <1>3
  <2>2. f[n + 1] = VisitBlock(f[n], how, scope.from + (n + 1) - 1)
    BY <1>2, <2>1
  <2>3. WalkState(f[n]) /\ Sound(f[n].lines)
    BY <1>5
  <2>4. WalkState(f[n + 1]) /\ Sound(f[n + 1].lines)
    BY <2>2, <2>3, VisitSound
  <2> QED BY <2>1, <2>3, <2>4
<1> HIDE DEF Good
<1>6. N \in Good
  BY <1>3, <1>4, <1>5, InductionUpTo
<1> QED BY <1>1, <1>6 DEF Good, N

LEMMA EntryScopeIs ==
  ASSUME NEW lines, IsSequence(lines), NEW entry, NEW scope, scope = EntryScope(lines, entry)
  PROVE  scope.from = 0 \/ scope.end - scope.from \in Nat
<1> DEFINE N == Len(lines)
    stamped == {j \in 1..N : lines[j].id = entry}
    named == {j \in 1..N : lines[j].name = "Id" /\ lines[j].val = Word(entry)}
    start == IF stamped # {} THEN Min(stamped) ELSE IF named # {} THEN WalkUp(lines, Min(named), 1) ELSE 0
<1>1. N \in Nat /\ 1 \in Int /\ N \in Int
  BY SequenceIs
<1>2. CASE entry = ""
  <2>1. scope = [from |-> 1, end |-> N + 1]
    BY <1>2 DEF EntryScope
  <2> QED BY <1>1, <2>1
<1>3. CASE entry # "" /\ start = 0
  <2>1. scope = [from |-> 0, end |-> 0]
    BY <1>3 DEF EntryScope
  <2> QED BY <2>1
<1>4. CASE entry # "" /\ start # 0
  <2>1. scope = [from |-> start, end |-> CloseIndex(lines, start) + 1]
    BY <1>4, Zenon DEF EntryScope
  <2>2. start \in 1..N
    <3>1. stamped \subseteq 1..N /\ named \subseteq 1..N
      OBVIOUS
    <3> HIDE DEF stamped, named
    <3>2. (stamped # {} => Min(stamped) \in stamped) /\ (named # {} => Min(named) \in named)
      BY <1>1, <3>1, LeastOf, Zenon
    <3>3. CASE stamped # {}
      BY <3>1, <3>2, <3>3
    <3>4. CASE stamped = {} /\ named # {}
      <4>1. Min(named) \in 1..N /\ start = WalkUp(lines, Min(named), 1)
        BY <3>1, <3>2, <3>4
      <4>2. Min(named) \in Int /\ Min(named) >= 1
        BY <4>1
      <4>3. WalkUp(lines, Min(named), 1) \in 1..Min(named)
        BY <4>2, WalkUpIs
      <4> HIDE DEF start
      <4> QED BY <1>1, <4>1, <4>2, <4>3
    <3> QED BY <1>4, <3>3, <3>4
  <2> HIDE DEF start
  <2>3. CloseIndex(lines, start) \in start..N
    BY <1>1, <2>2, CloseIndexInt
  <2> QED BY <1>1, <2>1, <2>2, <2>3
<1> QED BY <1>2, <1>3, <1>4

LEMMA MultSound ==
  ASSUME NEW lines, Sound(lines), NEW blk, TypedBlock(blk), NEW mod
  PROVE  Sound(CurrencyMult(lines, blk, mod).lines) /\ Sound(WrapperMult(lines, blk, mod).lines)
<1> DEFINE scope == EntryScope(lines, blk.entry)
<1>1. scope.from = 0 \/ scope.end - scope.from \in Nat
  BY SoundIs, EntryScopeIs
<1>2. IsNumber(blk.cap) /\ (blk.mult = NoNumber \/ IsNumber(blk.mult))
  BY DEF TypedBlock, IsBlock
<1>3. /\ HowCurrency(blk).mult = blk.mult /\ HowCurrency(blk).cap = blk.cap
      /\ HowWrapper(blk).mult = blk.mult /\ HowWrapper(blk).cap = blk.cap
  BY DEF HowCurrency, HowWrapper
<1>4. CASE blk.mult = NoNumber \/ scope.from = 0
  <2>1. CurrencyMult(lines, blk, mod) = Warned(lines, mod) /\ WrapperMult(lines, blk, mod) = Warned(lines, mod)
    BY <1>4 DEF CurrencyMult, WrapperMult
  <2> QED BY <2>1, DoneLines
<1>5. CASE ~(blk.mult = NoNumber \/ scope.from = 0)
  <2> DEFINE c == ScaleBlocks(lines, scope, HowCurrency(blk))
      w == ScaleBlocks(lines, scope, HowWrapper(blk))
  <2>1. CurrencyMult(lines, blk, mod) = Done(c.lines, mod, c.capped)
        /\ WrapperMult(lines, blk, mod) = Done(w.lines, mod, w.capped)
    BY <1>5, Zenon DEF CurrencyMult, WrapperMult
  <2> HIDE DEF scope
  <2>2. Sound(c.lines) /\ Sound(w.lines)
    BY <1>1, <1>2, <1>3, <1>5, WalkSound
  <2> HIDE DEF c, w
  <2> QED BY <2>1, <2>2, DoneLines
<1> QED BY <1>4, <1>5

(* Where a block's keywords lead.                                          *)
(* From line to line.                                                      *)
Passing(f, n, lines, blk) ==
  /\ f = [i \in 0..n |-> f[i]]
  /\ f[0] = 1
  /\ \A i \in 1..n : f[i] = PastKW(lines, blk.preceding[i], f[i - 1])
LEMMA PassingIs ==
  ASSUME NEW lines, NEW blk, IsSequence(blk.preceding)
  PROVE  \E f : Passing(f, Len(blk.preceding), lines, blk) /\ Preceding(lines, blk) = f[Len(blk.preceding)]
<1> DEFINE N == Len(blk.preceding)
    Base == 1
    Step(s, i) == PastKW(lines, blk.preceding[i], s)
    Recursive(f) == f = [i \in 0..N |-> IF i = 0 THEN Base ELSE Step(f[i - 1], i)]
    Steps(f, n) == f = [i \in 0..n |-> f[i]] /\ f[0] = Base /\ \A i \in 1..n : f[i] = Step(f[i - 1], i)
    Has == {n \in 0..N : \E f : Steps(f, n)}
    H == CHOOSE f : Recursive(f)
<1>1. N \in Nat
  BY SequenceIs
<1>2. Preceding(lines, blk) = H[N]
  BY Zenon DEF Preceding
<1>3. \A f : Steps(f, N) <=> Passing(f, N, lines, blk)
  BY Zenon DEF Passing
<1> HIDE DEF Base, Step, N
<1>4. 0 \in Has
  <2>1. PICK g : Begins(g, Base)
    BY Beginning
  <2> QED BY <1>1, <2>1 DEF Begins
<1>5. ASSUME NEW n \in 0..(N - 1), n \in Has PROVE n + 1 \in Has
  <2>1. /\ n \in Nat /\ n + 1 \in 0..N /\ n \in 0..n /\ 0 \in 0..n /\ (n + 1) - 1 = n
        /\ \A i \in 1..(n + 1) : i # n + 1 => i \in 1..n /\ i \in 0..n /\ i - 1 \in 0..n
    BY <1>1
  <2>2. PICK f : Steps(f, n)
    BY <1>5
  <2>3. PICK g : Extends(g, f, n, Step(f[n], n + 1))
    BY <2>1, Extension
  <2>4. /\ g = [i \in 0..(n + 1) |-> g[i]] /\ g[n + 1] = Step(f[n], n + 1)
        /\ \A i \in 0..n : g[i] = f[i]
    BY <2>3 DEF Extends
  <2>5. ASSUME NEW i \in 1..(n + 1) PROVE g[i] = Step(g[i - 1], i)
    <3>1. CASE i = n + 1
      BY <2>1, <2>4, <3>1
    <3>2. CASE i # n + 1
      <4>1. f[i] = Step(f[i - 1], i)
        BY <2>1, <2>2, <3>2
      <4> QED BY <2>1, <2>4, <3>2, <4>1
    <3> QED BY <3>1, <3>2
  <2>6. Steps(g, n + 1)
    BY <2>1, <2>2, <2>4, <2>5
  <2> HIDE DEF Steps
  <2> QED BY <2>1, <2>6
<1>6. \E f : Steps(f, N)
  <2> HIDE DEF Has
  <2>1. N \in Has
    BY <1>1, <1>4, <1>5, InductionUpTo
  <2> QED BY <2>1 DEF Has
<1>7. ASSUME NEW f PROVE Recursive(f) <=> Steps(f, N)
  <2> DEFINE F == [i \in 0..N |-> IF i = 0 THEN Base ELSE Step(f[i - 1], i)]
  <2>1. /\ \A i \in 0..N : F[i] = IF i = 0 THEN Base ELSE Step(f[i - 1], i)
        /\ F = [i \in 0..N |-> F[i]] /\ (Recursive(f) <=> f = F)
    OBVIOUS
  <2> HIDE DEF F, Recursive
  <2>2. 0 \in 0..N /\ \A i \in 0..N : i = 0 \/ i \in 1..N
    BY <1>1
  <2>3. \A i \in 1..N : i \in 0..N /\ i # 0
    OBVIOUS
  <2> QED BY <2>1, <2>2, <2>3
<1>8. Recursive(H)
  <2> HIDE DEF Recursive, Steps
  <2> QED BY <1>6, <1>7, Zenon DEF H
<1> HIDE DEF H, Recursive, Steps
<1> QED BY <1>2, <1>3, <1>7, <1>8, Zenon DEF N

LEMMA PrecedingIs ==
  ASSUME NEW lines, IsSequence(lines), NEW blk, IsSequence(blk.preceding)
  PROVE  Preceding(lines, blk) \in 1..(Len(lines) + 1)
<1> DEFINE N == Len(blk.preceding)
    L == Len(lines)
<1>1. N \in Nat /\ L \in Nat
  BY SequenceIs
<1>2. PICK f : Passing(f, N, lines, blk) /\ Preceding(lines, blk) = f[N]
  BY PassingIs, Zenon
<1>3. f[0] = 1 /\ \A i \in 1..N : f[i] = PastKW(lines, blk.preceding[i], f[i - 1])
  BY <1>2 DEF Passing
<1> HIDE DEF N
<1> DEFINE Good == {n \in 0..N : f[n] \in 1..(L + 1)}
<1>4. 0 \in Good
  BY <1>1, <1>3
<1>5. ASSUME NEW n \in 0..(N - 1), n \in Good PROVE n + 1 \in Good
  <2> DEFINE start == f[n]
      kw == blk.preceding[n + 1]
      j == IF kw = "" THEN 0 ELSE FindKW(lines, kw, start, L + 1)
  <2>1. n + 1 \in 1..N /\ n + 1 \in 0..N /\ (n + 1) - 1 = n /\ start \in 1..(L + 1) /\ start \in Int
        /\ L + 1 \in Int /\ (L + 1) - 1 = L
    BY <1>1, <1>5
  <2>2. f[n + 1] = IF j = 0 THEN start ELSE j + 1
    BY <1>3, <2>1 DEF PastKW
  <2> HIDE DEF start, L
  <2>3. j \in {0} \cup start..L
    <3>1. FindKW(lines, kw, start, L + 1) \in {0} \cup start..((L + 1) - 1)
      BY <2>1, FindKWIs
    <3> HIDE DEF kw
    <3> QED BY <2>1, <3>1
  <2> HIDE DEF j
  <2>4. f[n + 1] \in 1..(L + 1)
    BY <1>1, <2>1, <2>2, <2>3
  <2> QED BY <2>1, <2>4
<1> HIDE DEF Good
<1>6. N \in Good
  <2>1. N \in Nat
    BY <1>1
  <2> QED BY <1>4, <1>5, <2>1, InductionUpTo
<1>7. f[N] \in 1..(L + 1)
  BY <1>6 DEF Good
<1> QED BY <1>2, <1>7 DEF N

LEMMA SectionIs ==
  ASSUME NEW lines, IsSequence(lines), NEW blk, NEW anchor \in Int, NEW sect, sect = Section(lines, blk, anchor)
  PROVE  /\ sect.from \in Int /\ sect.end \in Int
         /\ blk.upTo = "" /\ anchor \in 1..Len(lines) => sect.from \in 1..Len(lines) /\ sect.end \in Nat \ {0}
<1> DEFINE low == Max({1, anchor - Lookback})
    marked == {k \in low..anchor : Mentions(lines[k], blk.upTo)}
    To(k) == [from |-> k, end |-> CloseIndex(lines, k) + 1]
    up == WalkUp(lines, anchor, blk.up)
    top == Max(marked)
<1>1. Len(lines) \in Nat
  BY SequenceIs
<1>2. ASSUME NEW k \in Int
      PROVE  /\ To(k).from = k /\ To(k).end \in Int
             /\ k \in 1..Len(lines) => To(k).end \in Nat \ {0}
  <2> DEFINE c == CloseIndex(lines, k)
  <2>1. c \in Int /\ (k <= Len(lines) => c \in k..Len(lines))
    BY CloseIndexInt
  <2>2. To(k).from = k /\ To(k).end = c + 1
    OBVIOUS
  <2> HIDE DEF c, To
  <2> QED BY <1>1, <2>1, <2>2
<1>3. CASE blk.upTo # "" /\ marked = {}
  <2>1. sect = [from |-> 0, end |-> 0]
    BY <1>3, Zenon DEF Section
  <2>2. blk.upTo # ""
    BY <1>3
  <2>3. sect.from = 0 /\ sect.end = 0 /\ 0 \in Int
    BY <2>1
  <2> QED BY <2>2, <2>3, Zenon
<1>4. CASE blk.upTo # "" /\ marked # {}
  <2>1. sect = To(top)
    BY <1>4, Zenon DEF Section
  <2>2. low \in Int
    <3>1. anchor - Lookback \in Int /\ 1 \in Int
      BY EngineConstants
    <3> QED BY <3>1, OfTwo
  <2>3. top \in Int
    <3> HIDE DEF low
    <3>1. marked \subseteq low..anchor
      OBVIOUS
    <3> HIDE DEF marked
    <3>2. Max(marked) \in marked
      BY <1>4, <2>2, <3>1, GreatestOf, Zenon
    <3>3. top \in low..anchor
      BY <3>1, <3>2, Zenon
    <3> HIDE DEF top
    <3> QED BY <2>2, <3>3
  <2> HIDE DEF top, marked, low
  <2> QED BY <1>2, <1>4, <2>1, <2>3
<1>5. CASE blk.upTo = "" /\ blk.up # 0
  <2>1. sect = To(up)
    BY <1>5, Zenon DEF Section
  <2>2. up \in Int /\ (anchor >= 1 => up \in 1..anchor)
    BY WalkUpIs
  <2> HIDE DEF up, To
  <2>3. anchor \in 1..Len(lines) => up \in 1..Len(lines)
    BY <1>1, <2>2
  <2> QED BY <1>2, <2>1, <2>2, <2>3
<1>6. CASE blk.upTo = "" /\ blk.up = 0
  <2>1. sect = IF lines[anchor].kind = "self" THEN [from |-> anchor, end |-> anchor + 1] ELSE To(anchor)
    BY <1>6, Zenon DEF Section
  <2>2. CASE lines[anchor].kind = "self"
    <3>1. sect.from = anchor /\ sect.end = anchor + 1
      BY <2>1, <2>2
    <3> DEFINE L == Len(lines)
    <3>2. L \in Nat
      BY <1>1
    <3> HIDE DEF L
    <3>3. anchor + 1 \in Int /\ (anchor \in 1..L => anchor + 1 \in Nat \ {0})
      BY <3>2
    <3> QED BY <3>1, <3>3, Zenon DEF L
  <2>3. CASE lines[anchor].kind # "self"
    BY <1>2, <2>1, <2>3
  <2> QED BY <2>2, <2>3
<1> QED BY <1>3, <1>4, <1>5, <1>6

(* The lines of a file edited section by section.                          *)
(* From keyword to keyword.                                                *)
Anchoring(f, n, lines, blk, pos, end) ==
  /\ f = [i \in 0..n |-> f[i]]
  /\ f[0] = pos
  /\ \A i \in 1..n : f[i] = AfterKW(lines, blk.skw[i], f[i - 1], end)
LEMMA AnchoringIs ==
  ASSUME NEW lines, NEW blk, NEW pos, NEW end, IsSequence(blk.skw)
  PROVE  \E f : Anchoring(f, Len(blk.skw), lines, blk, pos, end)
                /\ SectionAnchor(lines, blk, pos, end) = IF f[Len(blk.skw)] = 0 THEN 0 ELSE f[Len(blk.skw)] - 1
<1> DEFINE N == Len(blk.skw)
    Base == pos
    Step(s, i) == AfterKW(lines, blk.skw[i], s, end)
    Recursive(f) == f = [i \in 0..N |-> IF i = 0 THEN Base ELSE Step(f[i - 1], i)]
    Steps(f, n) == f = [i \in 0..n |-> f[i]] /\ f[0] = Base /\ \A i \in 1..n : f[i] = Step(f[i - 1], i)
    Has == {n \in 0..N : \E f : Steps(f, n)}
    H == CHOOSE f : Recursive(f)
<1>1. N \in Nat
  BY SequenceIs
<1>2. SectionAnchor(lines, blk, pos, end) = IF H[N] = 0 THEN 0 ELSE H[N] - 1
  BY Zenon DEF SectionAnchor
<1>3. \A f : Steps(f, N) <=> Anchoring(f, N, lines, blk, pos, end)
  BY Zenon DEF Anchoring
<1> HIDE DEF Base, Step, N
<1>4. 0 \in Has
  <2>1. PICK g : Begins(g, Base)
    BY Beginning
  <2> QED BY <1>1, <2>1 DEF Begins
<1>5. ASSUME NEW n \in 0..(N - 1), n \in Has PROVE n + 1 \in Has
  <2>1. /\ n \in Nat /\ n + 1 \in 0..N /\ n \in 0..n /\ 0 \in 0..n /\ (n + 1) - 1 = n
        /\ \A i \in 1..(n + 1) : i # n + 1 => i \in 1..n /\ i \in 0..n /\ i - 1 \in 0..n
    BY <1>1
  <2>2. PICK f : Steps(f, n)
    BY <1>5
  <2>3. PICK g : Extends(g, f, n, Step(f[n], n + 1))
    BY <2>1, Extension
  <2>4. /\ g = [i \in 0..(n + 1) |-> g[i]] /\ g[n + 1] = Step(f[n], n + 1)
        /\ \A i \in 0..n : g[i] = f[i]
    BY <2>3 DEF Extends
  <2>5. ASSUME NEW i \in 1..(n + 1) PROVE g[i] = Step(g[i - 1], i)
    <3>1. CASE i = n + 1
      BY <2>1, <2>4, <3>1
    <3>2. CASE i # n + 1
      <4>1. f[i] = Step(f[i - 1], i)
        BY <2>1, <2>2, <3>2
      <4> QED BY <2>1, <2>4, <3>2, <4>1
    <3> QED BY <3>1, <3>2
  <2>6. Steps(g, n + 1)
    BY <2>1, <2>2, <2>4, <2>5
  <2> HIDE DEF Steps
  <2> QED BY <2>1, <2>6
<1>6. \E f : Steps(f, N)
  <2> HIDE DEF Has
  <2>1. N \in Has
    BY <1>1, <1>4, <1>5, InductionUpTo
  <2> QED BY <2>1 DEF Has
<1>7. ASSUME NEW f PROVE Recursive(f) <=> Steps(f, N)
  <2> DEFINE F == [i \in 0..N |-> IF i = 0 THEN Base ELSE Step(f[i - 1], i)]
  <2>1. /\ \A i \in 0..N : F[i] = IF i = 0 THEN Base ELSE Step(f[i - 1], i)
        /\ F = [i \in 0..N |-> F[i]] /\ (Recursive(f) <=> f = F)
    OBVIOUS
  <2> HIDE DEF F, Recursive
  <2>2. 0 \in 0..N /\ \A i \in 0..N : i = 0 \/ i \in 1..N
    BY <1>1
  <2>3. \A i \in 1..N : i \in 0..N /\ i # 0
    OBVIOUS
  <2> QED BY <2>1, <2>2, <2>3
<1>8. Recursive(H)
  <2> HIDE DEF Recursive, Steps
  <2> QED BY <1>6, <1>7, Zenon DEF H
<1> HIDE DEF H, Recursive, Steps
<1> QED BY <1>2, <1>3, <1>7, <1>8, Zenon DEF N

LEMMA AnchorIs ==
  ASSUME NEW lines, NEW blk, IsSequence(blk.skw), NEW pos \in Int, NEW end \in Int
  PROVE  SectionAnchor(lines, blk, pos, end) \in Int
<1> DEFINE N == Len(blk.skw)
<1>1. N \in Nat
  BY SequenceIs
<1>2. PICK f : Anchoring(f, N, lines, blk, pos, end)
               /\ SectionAnchor(lines, blk, pos, end) = IF f[N] = 0 THEN 0 ELSE f[N] - 1
  BY AnchoringIs, Zenon
<1>3. f[0] = pos /\ \A i \in 1..N : f[i] = AfterKW(lines, blk.skw[i], f[i - 1], end)
  BY <1>2 DEF Anchoring
<1> HIDE DEF N
<1> DEFINE Good == {n \in 0..N : f[n] \in Int}
<1>4. 0 \in Good
  BY <1>1, <1>3
<1>5. ASSUME NEW n \in 0..(N - 1), n \in Good PROVE n + 1 \in Good
  <2> DEFINE from == f[n]
      j == FindKW(lines, blk.skw[n + 1], from, end)
  <2>1. n + 1 \in 1..N /\ n + 1 \in 0..N /\ (n + 1) - 1 = n /\ from \in Int
    BY <1>1, <1>5
  <2>2. f[n + 1] = AfterKW(lines, blk.skw[n + 1], from, end)
    BY <1>3, <2>1
  <2> HIDE DEF from
  <2>3. f[n + 1] = 0 \/ f[n + 1] = j + 1
    BY <2>2 DEF AfterKW
  <2>4. j \in {0} \cup from..(end - 1)
    BY <2>1, FindKWIs
  <2> HIDE DEF j
  <2>5. f[n + 1] \in Int
    BY <2>1, <2>3, <2>4
  <2> QED BY <2>1, <2>5
<1> HIDE DEF Good
<1>6. N \in Good
  BY <1>1, <1>4, <1>5, InductionUpTo
<1>7. f[N] \in Int
  BY <1>6 DEF Good
<1> QED BY <1>2, <1>7

LEMMA EditKeySound ==
  ASSUME NEW blk, TypedBlock(blk), NEW ch \in Range(blk.changes),
         NEW s, {"lines", "capped"} \subseteq DOMAIN s, Sound(s.lines),
         NEW sect, sect.from \in Int, sect.end \in Int, NEW t, t = EditKey(s, blk, sect, ch)
  PROVE  /\ DOMAIN t = DOMAIN s /\ Sound(t.lines)
         /\ \A x \in DOMAIN s \ {"lines", "capped"} : t[x] = s[x]
<1> DEFINE hits == FindProps(s.lines, ch.key, sect.from, sect.end)
    first == {Min(hits)}
<1>1. t = IF hits = {} THEN s ELSE Change(s, blk, first, ch)
  BY Zenon DEF EditKey
<1>2. /\ \A j \in hits : s.lines[j].kind # "close" /\ s.lines[j].name = ch.key
      /\ hits # {} => Min(hits) \in hits
  <2> DEFINE lines == s.lines
      from == sect.from
      end == sect.end
      key == ch.key
  <2>1. hits = FindProps(lines, key, from, end) /\ from \in Int /\ end \in Int
    OBVIOUS
  <2> HIDE DEF hits, lines, from, end, key
  <2>2. /\ \A j \in hits : lines[j].kind # "close" /\ lines[j].name = key
        /\ hits # {} => Min(hits) \in hits
    BY <2>1, FindPropsIs
  <2> QED BY <2>2 DEF lines, key
<1> HIDE DEF hits
<1>3. CASE hits = {}
  BY <1>1, <1>3
<1>4. CASE hits # {}
  <2>1. \A j \in first : s.lines[j].kind # "close" /\ s.lines[j].name = ch.key
    BY <1>2, <1>4
  <2> HIDE DEF first
  <2>2. t = Change(s, blk, first, ch)
    BY <1>1, <1>4
  <2> QED BY <2>1, <2>2, ChangeSound
<1> QED BY <1>3, <1>4

(* The edits of a section.                                                 *)
Editing(f, n, s, blk, sect) ==
  /\ f = [i \in 0..n |-> f[i]]
  /\ f[0] = s
  /\ \A i \in 1..n : f[i] = EditKey(f[i - 1], blk, sect, blk.changes[i])
LEMMA EditingIs ==
  ASSUME NEW s, NEW blk, NEW sect, IsSequence(blk.changes)
  PROVE  \E f : Editing(f, Len(blk.changes), s, blk, sect) /\ EditSection(s, blk, sect) = f[Len(blk.changes)]
<1> DEFINE N == Len(blk.changes)
    Base == s
    Step(r, i) == EditKey(r, blk, sect, blk.changes[i])
    Recursive(f) == f = [i \in 0..N |-> IF i = 0 THEN Base ELSE Step(f[i - 1], i)]
    Steps(f, n) == f = [i \in 0..n |-> f[i]] /\ f[0] = Base /\ \A i \in 1..n : f[i] = Step(f[i - 1], i)
    Has == {n \in 0..N : \E f : Steps(f, n)}
    H == CHOOSE f : Recursive(f)
<1>1. N \in Nat
  BY SequenceIs
<1>2. EditSection(s, blk, sect) = H[N]
  BY Zenon DEF EditSection
<1>3. \A f : Steps(f, N) <=> Editing(f, N, s, blk, sect)
  BY Zenon DEF Editing
<1> HIDE DEF Base, Step, N
<1>4. 0 \in Has
  <2>1. PICK g : Begins(g, Base)
    BY Beginning
  <2> QED BY <1>1, <2>1 DEF Begins
<1>5. ASSUME NEW n \in 0..(N - 1), n \in Has PROVE n + 1 \in Has
  <2>1. /\ n \in Nat /\ n + 1 \in 0..N /\ n \in 0..n /\ 0 \in 0..n /\ (n + 1) - 1 = n
        /\ \A i \in 1..(n + 1) : i # n + 1 => i \in 1..n /\ i \in 0..n /\ i - 1 \in 0..n
    BY <1>1
  <2>2. PICK f : Steps(f, n)
    BY <1>5
  <2>3. PICK g : Extends(g, f, n, Step(f[n], n + 1))
    BY <2>1, Extension
  <2>4. /\ g = [i \in 0..(n + 1) |-> g[i]] /\ g[n + 1] = Step(f[n], n + 1)
        /\ \A i \in 0..n : g[i] = f[i]
    BY <2>3 DEF Extends
  <2>5. ASSUME NEW i \in 1..(n + 1) PROVE g[i] = Step(g[i - 1], i)
    <3>1. CASE i = n + 1
      BY <2>1, <2>4, <3>1
    <3>2. CASE i # n + 1
      <4>1. f[i] = Step(f[i - 1], i)
        BY <2>1, <2>2, <3>2
      <4> QED BY <2>1, <2>4, <3>2, <4>1
    <3> QED BY <3>1, <3>2
  <2>6. Steps(g, n + 1)
    BY <2>1, <2>2, <2>4, <2>5
  <2> HIDE DEF Steps
  <2> QED BY <2>1, <2>6
<1>6. \E f : Steps(f, N)
  <2> HIDE DEF Has
  <2>1. N \in Has
    BY <1>1, <1>4, <1>5, InductionUpTo
  <2> QED BY <2>1 DEF Has
<1>7. ASSUME NEW f PROVE Recursive(f) <=> Steps(f, N)
  <2> DEFINE F == [i \in 0..N |-> IF i = 0 THEN Base ELSE Step(f[i - 1], i)]
  <2>1. /\ \A i \in 0..N : F[i] = IF i = 0 THEN Base ELSE Step(f[i - 1], i)
        /\ F = [i \in 0..N |-> F[i]] /\ (Recursive(f) <=> f = F)
    OBVIOUS
  <2> HIDE DEF F, Recursive
  <2>2. 0 \in 0..N /\ \A i \in 0..N : i = 0 \/ i \in 1..N
    BY <1>1
  <2>3. \A i \in 1..N : i \in 0..N /\ i # 0
    OBVIOUS
  <2> QED BY <2>1, <2>2, <2>3
<1>8. Recursive(H)
  <2> HIDE DEF Recursive, Steps
  <2> QED BY <1>6, <1>7, Zenon DEF H
<1> HIDE DEF H, Recursive, Steps
<1> QED BY <1>2, <1>3, <1>7, <1>8, Zenon DEF N

LEMMA EditSectionSound ==
  ASSUME NEW blk, TypedBlock(blk), NEW s, {"lines", "capped"} \subseteq DOMAIN s, Sound(s.lines),
         NEW sect, sect.from \in Int, sect.end \in Int, NEW t, t = EditSection(s, blk, sect)
  PROVE  /\ DOMAIN t = DOMAIN s /\ Sound(t.lines)
         /\ \A x \in DOMAIN s \ {"lines", "capped"} : t[x] = s[x]
<1> DEFINE N == Len(blk.changes)
    Kept(u) == /\ DOMAIN u = DOMAIN s /\ Sound(u.lines)
               /\ \A x \in DOMAIN s \ {"lines", "capped"} : u[x] = s[x]
<1>1. IsSequence(blk.changes)
  BY DEF TypedBlock, IsBlock
<1>2. N \in Nat /\ \A i \in 1..N : blk.changes[i] \in Range(blk.changes)
  BY <1>1, SequenceIs
<1>3. PICK f : Editing(f, N, s, blk, sect) /\ t = f[N]
  BY <1>1, EditingIs, Zenon
<1>4. f[0] = s /\ \A i \in 1..N : f[i] = EditKey(f[i - 1], blk, sect, blk.changes[i])
  BY <1>3, Zenon DEF Editing
<1> HIDE DEF N
<1> DEFINE Good == {n \in 0..N : Kept(f[n])}
<1>5. 0 \in Good
  BY <1>2, <1>4
<1>6. ASSUME NEW n \in 0..(N - 1), n \in Good PROVE n + 1 \in Good
  <2> DEFINE u == f[n]
      v == f[n + 1]
      ch == blk.changes[n + 1]
  <2>1. n + 1 \in 1..N /\ n + 1 \in 0..N /\ (n + 1) - 1 = n
    BY <1>2
  <2>2. Kept(u)
    BY <1>6
  <2>3. v = EditKey(u, blk, sect, ch) /\ ch \in Range(blk.changes)
    BY <1>2, <1>4, <2>1
  <2> HIDE DEF u, v, ch
  <2>4. {"lines", "capped"} \subseteq DOMAIN u
    BY <2>2
  <2>5. /\ DOMAIN v = DOMAIN u /\ Sound(v.lines)
        /\ \A x \in DOMAIN u \ {"lines", "capped"} : v[x] = u[x]
    BY <2>2, <2>3, <2>4, EditKeySound
  <2>6. Kept(v)
    BY <2>2, <2>5
  <2> HIDE DEF Kept
  <2> QED BY <2>1, <2>6 DEF v
<1> HIDE DEF Good
<1>7. N \in Good
  BY <1>2, <1>5, <1>6, InductionUpTo
<1>8. Kept(f[N])
  BY <1>7 DEF Good
<1> QED BY <1>3, <1>8

SectState(s) == DOMAIN s = {"lines", "pos", "count", "capped"} /\ s.pos \in Int /\ Sound(s.lines)

LEMMA NextSectionSound ==
  ASSUME NEW blk, TypedBlock(blk), NEW s, SectState(s), NEW end \in Int, NEW t, t = NextSection(s, blk, end)
  PROVE  SectState(t)
<1> DEFINE lines == s.lines
    pos == s.pos
    found == SectionAnchor(lines, blk, pos, end)
    anchor == IF pos = 0 THEN 0 ELSE found
    sect == Section(lines, blk, anchor)
    past == Max({sect.end, anchor + 1})
    u == [s EXCEPT !.pos = past, !.count = @ + 1]
<1>1. t = IF anchor = 0 THEN [s EXCEPT !.pos = 0]
          ELSE IF sect.from = 0 THEN [s EXCEPT !.pos = anchor + 1]
          ELSE EditSection(u, blk, sect)
  BY Zenon DEF NextSection
<1>2. pos \in Int /\ Sound(lines) /\ IsSequence(lines) /\ IsSequence(blk.skw)
  BY SoundIs DEF SectState, TypedBlock, IsBlock
<1>3. anchor \in Int
  <2> HIDE DEF lines, pos
  <2>1. found \in Int
    BY <1>2, AnchorIs
  <2> QED BY <2>1
<1> HIDE DEF anchor, pos
<1>4. sect.from \in Int /\ sect.end \in Int
  <2> HIDE DEF lines
  <2>1. sect = Section(lines, blk, anchor)
    OBVIOUS
  <2> HIDE DEF sect
  <2> QED BY <1>2, <1>3, <2>1, SectionIs
<1> HIDE DEF sect
<1>5. past \in Int
  <2>1. sect.end \in Int /\ anchor + 1 \in Int
    BY <1>3, <1>4
  <2> DEFINE a == sect.end
      b == anchor + 1
  <2> HIDE DEF a, b
  <2>2. Max({a, b}) \in {a, b}
    BY <2>1, OfTwo DEF a, b
  <2>3. Max({a, b}) \in Int
    BY <2>1, <2>2 DEF a, b
  <2> QED BY <2>3 DEF a, b
<1> HIDE DEF past
<1>6. CASE anchor = 0 \/ sect.from = 0
  <2>1. PICK p \in Int : t = [s EXCEPT !.pos = p]
    <3>1. anchor + 1 \in Int
      BY <1>3
    <3> QED BY <1>1, <1>6, <3>1
  <2> QED BY <2>1 DEF SectState
<1>7. CASE ~(anchor = 0 \/ sect.from = 0)
  <2>1. DOMAIN u = DOMAIN s /\ u.pos = past /\ u.lines = lines /\ {"lines", "capped"} \subseteq DOMAIN u
        /\ "pos" \in DOMAIN u \ {"lines", "capped"}
    BY DEF SectState
  <2>2. t = EditSection(u, blk, sect) /\ Sound(u.lines)
    BY <1>1, <1>2, <1>7, <2>1
  <2> HIDE DEF u, lines
  <2>3. /\ DOMAIN t = DOMAIN u /\ Sound(t.lines)
        /\ \A x \in DOMAIN u \ {"lines", "capped"} : t[x] = u[x]
    BY <1>4, <2>1, <2>2, EditSectionSound
  <2>4. t.pos = past
    BY <2>1, <2>3
  <2> QED BY <1>5, <2>1, <2>3, <2>4 DEF SectState
<1> QED BY <1>6, <1>7

Sections(s, lines, mod) == IF s.count > 0 THEN Done(s.lines, mod, s.capped) ELSE Warned(lines, mod)
(* Section after section.                                                  *)
Sectioning(f, n, lines, blk, start) ==
  /\ f = [i \in 0..n |-> f[i]]
  /\ f[0] = [lines |-> lines, pos |-> start, count |-> 0, capped |-> 0]
  /\ \A i \in 1..n : f[i] = NextSection(f[i - 1], blk, Len(lines) + 1)
LEMMA SectioningIs ==
  ASSUME NEW lines, NEW blk, NEW start, IsSequence(lines), NEW mod
  PROVE  \E f : Sectioning(f, (Len(lines) + 1), lines, blk, start)
                /\ AllSections(lines, blk, mod, start) = Sections(f[Len(lines) + 1], lines, mod)
<1> DEFINE N == (Len(lines) + 1)
    Base == [lines |-> lines, pos |-> start, count |-> 0, capped |-> 0]
    Step(s, i) == NextSection(s, blk, Len(lines) + 1)
    Recursive(f) == f = [i \in 0..N |-> IF i = 0 THEN Base ELSE Step(f[i - 1], i)]
    Steps(f, n) == f = [i \in 0..n |-> f[i]] /\ f[0] = Base /\ \A i \in 1..n : f[i] = Step(f[i - 1], i)
    Has == {n \in 0..N : \E f : Steps(f, n)}
    H == CHOOSE f : Recursive(f)
<1>1. N \in Nat
  BY SequenceIs
<1>2. AllSections(lines, blk, mod, start) = Sections(H[N], lines, mod)
  BY Zenon DEF AllSections, Sections
<1>3. \A f : Steps(f, N) <=> Sectioning(f, N, lines, blk, start)
  BY Zenon DEF Sectioning
<1> HIDE DEF Base, Step, N
<1>4. 0 \in Has
  <2>1. PICK g : Begins(g, Base)
    BY Beginning
  <2> QED BY <1>1, <2>1 DEF Begins
<1>5. ASSUME NEW n \in 0..(N - 1), n \in Has PROVE n + 1 \in Has
  <2>1. /\ n \in Nat /\ n + 1 \in 0..N /\ n \in 0..n /\ 0 \in 0..n /\ (n + 1) - 1 = n
        /\ \A i \in 1..(n + 1) : i # n + 1 => i \in 1..n /\ i \in 0..n /\ i - 1 \in 0..n
    BY <1>1
  <2>2. PICK f : Steps(f, n)
    BY <1>5
  <2>3. PICK g : Extends(g, f, n, Step(f[n], n + 1))
    BY <2>1, Extension
  <2>4. /\ g = [i \in 0..(n + 1) |-> g[i]] /\ g[n + 1] = Step(f[n], n + 1)
        /\ \A i \in 0..n : g[i] = f[i]
    BY <2>3 DEF Extends
  <2>5. ASSUME NEW i \in 1..(n + 1) PROVE g[i] = Step(g[i - 1], i)
    <3>1. CASE i = n + 1
      BY <2>1, <2>4, <3>1
    <3>2. CASE i # n + 1
      <4>1. f[i] = Step(f[i - 1], i)
        BY <2>1, <2>2, <3>2
      <4> QED BY <2>1, <2>4, <3>2, <4>1
    <3> QED BY <3>1, <3>2
  <2>6. Steps(g, n + 1)
    BY <2>1, <2>2, <2>4, <2>5
  <2> HIDE DEF Steps
  <2> QED BY <2>1, <2>6
<1>6. \E f : Steps(f, N)
  <2> HIDE DEF Has
  <2>1. N \in Has
    BY <1>1, <1>4, <1>5, InductionUpTo
  <2> QED BY <2>1 DEF Has
<1>7. ASSUME NEW f PROVE Recursive(f) <=> Steps(f, N)
  <2> DEFINE F == [i \in 0..N |-> IF i = 0 THEN Base ELSE Step(f[i - 1], i)]
  <2>1. /\ \A i \in 0..N : F[i] = IF i = 0 THEN Base ELSE Step(f[i - 1], i)
        /\ F = [i \in 0..N |-> F[i]] /\ (Recursive(f) <=> f = F)
    OBVIOUS
  <2> HIDE DEF F, Recursive
  <2>2. 0 \in 0..N /\ \A i \in 0..N : i = 0 \/ i \in 1..N
    BY <1>1
  <2>3. \A i \in 1..N : i \in 0..N /\ i # 0
    OBVIOUS
  <2> QED BY <2>1, <2>2, <2>3
<1>8. Recursive(H)
  <2> HIDE DEF Recursive, Steps
  <2> QED BY <1>6, <1>7, Zenon DEF H
<1> HIDE DEF H, Recursive, Steps
<1> QED BY <1>2, <1>3, <1>7, <1>8, Zenon DEF N

LEMMA AllSectionsSound ==
  ASSUME NEW blk, TypedBlock(blk), NEW lines, Sound(lines), NEW mod, NEW start \in Int
  PROVE  Sound(AllSections(lines, blk, mod, start).lines)
<1> DEFINE N == Len(lines) + 1
<1>1. IsSequence(lines) /\ N \in Nat /\ N \in Int
  BY SoundIs, SequenceIs
<1>2. PICK f : Sectioning(f, N, lines, blk, start) /\ AllSections(lines, blk, mod, start) = Sections(f[N], lines, mod)
  BY <1>1, SectioningIs, Zenon
<1>3. /\ f[0] = [lines |-> lines, pos |-> start, count |-> 0, capped |-> 0]
      /\ \A i \in 1..N : f[i] = NextSection(f[i - 1], blk, N)
  BY <1>2 DEF Sectioning
<1> HIDE DEF N
<1> DEFINE Good == {n \in 0..N : SectState(f[n])}
<1>4. 0 \in Good
  BY <1>1, <1>3 DEF SectState
<1>5. ASSUME NEW n \in 0..(N - 1), n \in Good PROVE n + 1 \in Good
  <2>1. n + 1 \in 1..N /\ n + 1 \in 0..N /\ (n + 1) - 1 = n
    BY <1>1
  <2>2. SectState(f[n]) /\ f[n + 1] = NextSection(f[n], blk, N)
    BY <1>3, <1>5, <2>1
  <2>3. SectState(f[n + 1])
    BY <1>1, <2>2, NextSectionSound
  <2> QED BY <2>1, <2>3
<1> HIDE DEF Good
<1>6. N \in Good
  BY <1>1, <1>4, <1>5, InductionUpTo
<1>7. Sound(f[N].lines)
  BY <1>6 DEF Good, SectState
<1>8. Sections(f[N], lines, mod) = Done(f[N].lines, mod, f[N].capped) \/ Sections(f[N], lines, mod) = Warned(lines, mod)
  BY DEF Sections
<1> QED BY <1>2, <1>7, <1>8, DoneLines

(* The groups of keywords, and what a block does inside their sections.    *)
(* The keywords of a group.                                                *)
Seeking(f, n, lines, kws, start, end) ==
  /\ f = [i \in 0..n |-> f[i]]
  /\ f[0] = [over |-> FALSE, cursor |-> start, anchor |-> 0]
  /\ \A i \in 1..n : f[i] = NextKW(f[i - 1], lines, kws[i], end)
LEMMA SeekingIs ==
  ASSUME NEW lines, NEW kws, NEW start, NEW end, IsSequence(kws)
  PROVE  \E f : Seeking(f, Len(kws), lines, kws, start, end)
                /\ GroupAnchor(lines, kws, start, end) = f[Len(kws)].anchor
<1> DEFINE N == Len(kws)
    Base == [over |-> FALSE, cursor |-> start, anchor |-> 0]
    Step(s, i) == NextKW(s, lines, kws[i], end)
    Recursive(f) == f = [i \in 0..N |-> IF i = 0 THEN Base ELSE Step(f[i - 1], i)]
    Steps(f, n) == f = [i \in 0..n |-> f[i]] /\ f[0] = Base /\ \A i \in 1..n : f[i] = Step(f[i - 1], i)
    Has == {n \in 0..N : \E f : Steps(f, n)}
    H == CHOOSE f : Recursive(f)
<1>1. N \in Nat
  BY SequenceIs
<1>2. GroupAnchor(lines, kws, start, end) = H[N].anchor
  BY Zenon DEF GroupAnchor
<1>3. \A f : Steps(f, N) <=> Seeking(f, N, lines, kws, start, end)
  BY Zenon DEF Seeking
<1> HIDE DEF Base, Step, N
<1>4. 0 \in Has
  <2>1. PICK g : Begins(g, Base)
    BY Beginning
  <2> QED BY <1>1, <2>1 DEF Begins
<1>5. ASSUME NEW n \in 0..(N - 1), n \in Has PROVE n + 1 \in Has
  <2>1. /\ n \in Nat /\ n + 1 \in 0..N /\ n \in 0..n /\ 0 \in 0..n /\ (n + 1) - 1 = n
        /\ \A i \in 1..(n + 1) : i # n + 1 => i \in 1..n /\ i \in 0..n /\ i - 1 \in 0..n
    BY <1>1
  <2>2. PICK f : Steps(f, n)
    BY <1>5
  <2>3. PICK g : Extends(g, f, n, Step(f[n], n + 1))
    BY <2>1, Extension
  <2>4. /\ g = [i \in 0..(n + 1) |-> g[i]] /\ g[n + 1] = Step(f[n], n + 1)
        /\ \A i \in 0..n : g[i] = f[i]
    BY <2>3 DEF Extends
  <2>5. ASSUME NEW i \in 1..(n + 1) PROVE g[i] = Step(g[i - 1], i)
    <3>1. CASE i = n + 1
      BY <2>1, <2>4, <3>1
    <3>2. CASE i # n + 1
      <4>1. f[i] = Step(f[i - 1], i)
        BY <2>1, <2>2, <3>2
      <4> QED BY <2>1, <2>4, <3>2, <4>1
    <3> QED BY <3>1, <3>2
  <2>6. Steps(g, n + 1)
    BY <2>1, <2>2, <2>4, <2>5
  <2> HIDE DEF Steps
  <2> QED BY <2>1, <2>6
<1>6. \E f : Steps(f, N)
  <2> HIDE DEF Has
  <2>1. N \in Has
    BY <1>1, <1>4, <1>5, InductionUpTo
  <2> QED BY <2>1 DEF Has
<1>7. ASSUME NEW f PROVE Recursive(f) <=> Steps(f, N)
  <2> DEFINE F == [i \in 0..N |-> IF i = 0 THEN Base ELSE Step(f[i - 1], i)]
  <2>1. /\ \A i \in 0..N : F[i] = IF i = 0 THEN Base ELSE Step(f[i - 1], i)
        /\ F = [i \in 0..N |-> F[i]] /\ (Recursive(f) <=> f = F)
    OBVIOUS
  <2> HIDE DEF F, Recursive
  <2>2. 0 \in 0..N /\ \A i \in 0..N : i = 0 \/ i \in 1..N
    BY <1>1
  <2>3. \A i \in 1..N : i \in 0..N /\ i # 0
    OBVIOUS
  <2> QED BY <2>1, <2>2, <2>3
<1>8. Recursive(H)
  <2> HIDE DEF Recursive, Steps
  <2> QED BY <1>6, <1>7, Zenon DEF H
<1> HIDE DEF H, Recursive, Steps
<1> QED BY <1>2, <1>3, <1>7, <1>8, Zenon DEF N

SeekState(s, start, end) ==
  DOMAIN s = {"over", "cursor", "anchor"} /\ s.cursor \in start..end /\ s.anchor \in {0} \cup start..(end - 1)

LEMMA GroupAnchorIs ==
  ASSUME NEW lines, NEW kws, IsSequence(kws), NEW end \in Int, NEW start \in 1..end
  PROVE  GroupAnchor(lines, kws, start, end) \in {0} \cup start..(end - 1)
<1> DEFINE N == Len(kws)
<1>1. N \in Nat /\ start \in Int
  BY SequenceIs
<1>2. PICK f : Seeking(f, N, lines, kws, start, end) /\ GroupAnchor(lines, kws, start, end) = f[N].anchor
  BY SeekingIs, Zenon
<1>3. /\ f[0] = [over |-> FALSE, cursor |-> start, anchor |-> 0]
      /\ \A i \in 1..N : f[i] = NextKW(f[i - 1], lines, kws[i], end)
  BY <1>2 DEF Seeking
<1> HIDE DEF N
<1> DEFINE Good == {n \in 0..N : SeekState(f[n], start, end)}
<1>4. 0 \in Good
  BY <1>1, <1>3 DEF SeekState
<1>5. ASSUME NEW n \in 0..(N - 1), n \in Good PROVE n + 1 \in Good
  <2> DEFINE u == f[n]
      cursor == u.cursor
      found == FindKW(lines, kws[n + 1], cursor, end)
      j == IF u.over THEN 0 ELSE found
      v == f[n + 1]
  <2>1. n + 1 \in 1..N /\ n + 1 \in 0..N /\ (n + 1) - 1 = n
    BY <1>1
  <2>2. SeekState(u, start, end)
    BY <1>5
  <2>3. v = NextKW(u, lines, kws[n + 1], end)
    BY <1>3, <2>1
  <2>4. v = IF j = 0 THEN [u EXCEPT !.over = TRUE] ELSE [over |-> FALSE, cursor |-> j, anchor |-> j]
    BY <2>3, Zenon DEF NextKW
  <2> HIDE DEF u, v
  <2>5. cursor \in start..end /\ cursor \in Int
    BY <1>1, <2>2 DEF SeekState
  <2> HIDE DEF cursor
  <2>6. found \in {0} \cup cursor..(end - 1)
    BY <2>5, FindKWIs
  <2> HIDE DEF found
  <2>7. j = 0 \/ j \in start..(end - 1)
    BY <1>1, <2>5, <2>6
  <2> HIDE DEF j
  <2>8. CASE j = 0
    <3>1. v = [u EXCEPT !.over = TRUE]
      BY <2>4, <2>8
    <3>2. DOMAIN v = DOMAIN u /\ v.cursor = u.cursor /\ v.anchor = u.anchor
      BY <2>2, <3>1 DEF SeekState
    <3>3. SeekState(v, start, end)
      BY <2>2, <3>2 DEF SeekState
    <3> QED BY <2>1, <3>3 DEF v
  <2>9. CASE j # 0
    <3>1. DOMAIN v = {"over", "cursor", "anchor"} /\ v.cursor = j /\ v.anchor = j
      BY <2>4, <2>9
    <3>2. SeekState(v, start, end)
      BY <1>1, <2>7, <2>9, <3>1 DEF SeekState
    <3> QED BY <2>1, <3>2 DEF v
  <2> QED BY <2>8, <2>9
<1> HIDE DEF Good
<1>6. N \in Good
  BY <1>1, <1>4, <1>5, InductionUpTo
<1>7. SeekState(f[N], start, end)
  BY <1>6 DEF Good
<1> QED BY <1>2, <1>7 DEF SeekState

LEMMA GroupScopeIs ==
  ASSUME NEW lines, IsSequence(lines), NEW blk, "upTo" \in DOMAIN blk, NEW kws, IsSequence(kws),
         NEW end \in 1..(Len(lines) + 1), NEW start \in 1..end, NEW scope, scope = GroupScope(lines, blk, kws, start, end)
  PROVE  scope.from = 0 \/ (scope.from \in 1..(Len(lines) + 1) /\ scope.end \in Nat \ {0})
<1> DEFINE anchor == GroupAnchor(lines, kws, start, end)
    plain == [blk EXCEPT !.upTo = ""]
    L == Len(lines)
<1>1. L \in Nat /\ end \in Int
  BY SequenceIs
<1>2. scope = IF kws = << >> THEN [from |-> start, end |-> end]
              ELSE IF anchor = 0 THEN [from |-> 0, end |-> 0] ELSE Section(lines, plain, anchor)
  BY Zenon DEF GroupScope
<1>3. anchor \in {0} \cup start..(end - 1)
  BY <1>1, GroupAnchorIs
<1>4. plain.upTo = ""
  OBVIOUS
<1> HIDE DEF anchor, plain
<1>5. CASE kws = << >>
  <2>1. scope.from = start /\ scope.end = end
    BY <1>2, <1>5
  <2> QED BY <1>1, <2>1
<1>6. CASE kws # << >> /\ anchor = 0
  BY <1>2, <1>6
<1>7. CASE kws # << >> /\ anchor # 0
  <2>1. scope = Section(lines, plain, anchor)
    BY <1>2, <1>7
  <2>2. anchor \in 1..L /\ anchor \in Int
    BY <1>1, <1>3, <1>7
  <2>3. scope.from \in 1..L /\ scope.end \in Nat \ {0}
    BY <1>4, <2>1, <2>2, SectionIs
  <2> QED BY <1>1, <2>3
<1> QED BY <1>5, <1>6, <1>7

(* The value changes of a scope keep the lines, and how many they are.     *)
LEMMA OneChangeSound ==
  ASSUME NEW blk, TypedBlock(blk), NEW ch \in Range(blk.changes),
         NEW s, ChangeState(s), Sound(s.lines), NEW mod,
         NEW scope, scope.from \in Int, scope.end \in Int, NEW t, t = OneChange(s, blk, mod, scope, ch)
  PROVE  ChangeState(t) /\ Sound(t.lines) /\ Len(t.lines) = Len(s.lines)
<1> DEFINE found == FindProps(s.lines, ch.key, scope.from, scope.end)
    hits == IF blk.all \/ found = {} THEN found ELSE {Min(found)}
    r == [s EXCEPT !.capped = 0]
    c == Change(r, blk, hits, ch)
<1>1. t = IF hits = {} THEN [s EXCEPT !.events = Append(s.events, Event("warn", mod, 0, ch.key))]
          ELSE [c EXCEPT !.events = Append(c.events, Event("ok", mod, c.capped, ""))]
  BY DEF OneChange
<1>2. /\ \A j \in found : s.lines[j].kind # "close" /\ s.lines[j].name = ch.key
      /\ found # {} => Min(found) \in found
  <2> DEFINE lines == s.lines
      from == scope.from
      end == scope.end
      key == ch.key
  <2>1. found = FindProps(lines, key, from, end) /\ from \in Int /\ end \in Int
    OBVIOUS
  <2> HIDE DEF found, lines, from, end, key
  <2>2. /\ \A j \in found : lines[j].kind # "close" /\ lines[j].name = key
        /\ found # {} => Min(found) \in found
    BY <2>1, FindPropsIs
  <2> QED BY <2>2 DEF lines, key
<1> HIDE DEF found
<1>3. \A j \in hits : s.lines[j].kind # "close" /\ s.lines[j].name = ch.key
  BY <1>2
<1>4. DOMAIN r = DOMAIN s /\ r.lines = s.lines /\ {"lines", "capped"} \subseteq DOMAIN r
  BY DEF ChangeState
<1> HIDE DEF hits, r
<1>5. Sound(r.lines) /\ \A j \in hits : r.lines[j].kind # "close" /\ r.lines[j].name = ch.key
  BY <1>3, <1>4
<1>6. c = Change(r, blk, hits, ch)
  OBVIOUS
<1> HIDE DEF c
<1>7. DOMAIN c = DOMAIN r /\ Sound(c.lines) /\ Len(c.lines) = Len(r.lines)
  BY <1>4, <1>5, <1>6, ChangeSound
<1> DEFINE no == Append(s.events, Event("warn", mod, 0, ch.key))
    yes == Append(c.events, Event("ok", mod, c.capped, ""))
<1> HIDE DEF no, yes
<1>8. CASE hits = {}
  <2>1. t = [s EXCEPT !.events = no]
    BY <1>1, <1>8 DEF no
  <2> QED BY <2>1 DEF ChangeState
<1>9. CASE hits # {}
  <2>1. t = [c EXCEPT !.events = yes]
    BY <1>1, <1>9 DEF yes
  <2>2. DOMAIN t = DOMAIN c /\ t.lines = c.lines
    BY <1>4, <1>7, <2>1 DEF ChangeState
  <2> QED BY <1>4, <1>7, <2>2 DEF ChangeState
<1> QED BY <1>8, <1>9

LEMMA ValueChangesSound ==
  ASSUME NEW blk, TypedBlock(blk), NEW lines, Sound(lines), NEW mod, NEW scope, scope.from \in Int, scope.end \in Int,
         NEW t, t = ValueChanges(lines, blk, mod, scope)
  PROVE  Sound(t.lines) /\ Len(t.lines) = Len(lines)
<1> DEFINE N == Len(blk.changes)
<1>1. IsSequence(blk.changes)
  BY DEF TypedBlock, IsBlock
<1>2. N \in Nat /\ \A i \in 1..N : blk.changes[i] \in Range(blk.changes)
  BY <1>1, SequenceIs
<1>3. PICK f : Changing(f, N, lines, blk, mod, scope) /\ t = f[N]
  BY <1>1, ValueChangesSteps, Zenon
<1> HIDE DEF N
<1>4. /\ f[0] = [lines |-> lines, events |-> << >>, capped |-> 0]
      /\ \A i \in 1..N : f[i] = OneChange(f[i - 1], blk, mod, scope, blk.changes[i])
  <2>1. N \in Nat
    BY <1>2
  <2>2. Changing(f, N, lines, blk, mod, scope)
    BY <1>3
  <2>3. Changed(f, N, lines, blk, mod, scope)
    BY <2>1, <2>2, ChangingSteps, Zenon
  <2> QED BY <2>3 DEF Changed
<1> DEFINE Good == {n \in 0..N : ChangeState(f[n]) /\ Sound(f[n].lines) /\ Len(f[n].lines) = Len(lines)}
<1>5. 0 \in Good
  BY <1>2, <1>4 DEF ChangeState
<1>6. ASSUME NEW n \in 0..(N - 1), n \in Good PROVE n + 1 \in Good
  <2> DEFINE u == f[n]
      v == f[n + 1]
      ch == blk.changes[n + 1]
  <2>1. n + 1 \in 1..N /\ n + 1 \in 0..N /\ (n + 1) - 1 = n
    BY <1>2
  <2>2. ChangeState(u) /\ Sound(u.lines) /\ Len(u.lines) = Len(lines)
    BY <1>6
  <2>3. v = OneChange(u, blk, mod, scope, ch) /\ ch \in Range(blk.changes)
    BY <1>2, <1>4, <2>1
  <2> HIDE DEF u, v, ch
  <2>4. ChangeState(v) /\ Sound(v.lines) /\ Len(v.lines) = Len(u.lines)
    BY <2>2, <2>3, OneChangeSound
  <2> QED BY <2>1, <2>2, <2>4 DEF v
<1> HIDE DEF Good
<1>7. N \in Good
  BY <1>2, <1>5, <1>6, InductionUpTo
<1> QED BY <1>3, <1>7 DEF Good

(* A part of sound lines, and two of them together.                        *)
IsPart(part, a, b) == Sound(part) /\ Len(part) = IF a <= b THEN (b - a) + 1 ELSE 0
LEMMA PartSound ==
  ASSUME NEW lines, Sound(lines), NEW a \in Int, NEW b \in Int, a >= 1, b <= Len(lines),
         NEW part, part = SubSeq(lines, a, b)
  PROVE  IsPart(part, a, b)
<1> DEFINE R == {lines[i] : i \in a..b}
    L == Len(lines)
<1>1. IsSequence(lines) /\ L \in Nat /\ \A i \in 1..L : SoundLine(lines[i])
  BY SoundIs, SequenceIs
<1>2. \A i \in a..b : lines[i] \in R
  OBVIOUS
<1>3. \A r \in R : SoundLine(r)
  BY <1>1
<1> HIDE DEF R
<1>4. part \in Seq(R) /\ Len(part) = (IF a <= b THEN (b - a) + 1 ELSE 0)
  BY <1>2, SubSeqProperties
<1>5. IsSequence(part) /\ \A i \in 1..Len(part) : part[i] \in R
  <2>1. \A i \in 1..Len(part) : part[i] \in R
    BY <1>4
  <2>2. IsSequence(part)
    BY <1>4, SequenceOfMembers, Zenon
  <2> QED BY <2>1, <2>2
<1> QED BY <1>3, <1>4, <1>5, SoundIs DEF IsPart

LEMMA ConcatSound ==
  ASSUME NEW s, Sound(s), NEW t, Sound(t)
  PROVE  Sound(s \o t) /\ Len(s \o t) = Len(s) + Len(t) /\ Len(s) \in Nat /\ Len(t) \in Nat
<1>1. IsSequence(s) /\ IsSequence(t) /\ IsSequence(s \o t) /\ Range(s \o t) = Range(s) \cup Range(t)
  BY SoundIs, MembersOfConcat
<1>2. /\ \A e \in Range(s) : SoundLine(e)
      /\ \A e \in Range(t) : SoundLine(e)
  BY <1>1, SoundIs, SequenceIs
<1>3. \A i \in 1..Len(s \o t) : (s \o t)[i] \in Range(s \o t)
  BY <1>1, SequenceIs
<1>4. Len(s) \in Nat /\ Len(t) \in Nat
  BY <1>1, SequenceIs
<1>5. Len(s \o t) = Len(s) + Len(t)
  <2> DEFINE R == Range(s)
      Q == Range(t)
      T == R \cup Q
  <2>1. s \in Seq(T) /\ t \in Seq(T)
    <3>1. s \in Seq(R) /\ t \in Seq(Q)
      BY <1>1 DEF IsSequence
    <3> HIDE DEF R, Q
    <3> QED BY <3>1
  <2> HIDE DEF T
  <2> QED BY <2>1
<1>6. Sound(s \o t)
  BY <1>1, <1>2, <1>3, SoundIs
<1> QED BY <1>4, <1>5, <1>6

(* What a block does inside one scope.  Only a REMOVE leaves fewer lines.  *)
LEMMA InScopeSound ==
  ASSUME NEW blk, TypedBlock(blk), NEW s, GroupState(s), Sound(s.lines), NEW mod,
         NEW from \in 1..(Len(s.lines) + 1), NEW last \in 0..Len(s.lines), NEW t, t = InScope(s, blk, mod, from, last)
  PROVE  GroupState(t) /\ Sound(t.lines)
         /\ (t.over = TRUE \/ (t.over \in {FALSE, s.over} /\ Len(t.lines) >= Len(s.lines)))
<1> DEFINE lines == s.lines
    L == Len(lines)
    before == SubSeq(lines, 1, from - 1)
    within == SubSeq(lines, from, last)
    after == SubSeq(lines, last + 1, L)
    more == Append(s.events, Event("ok", mod, 0, ""))
    vct == ValueChanges(lines, blk, mod, [from |-> from, end |-> last + 1])
    less == before \o after
    one == before \o within
    two == one \o blk.add
    three == two \o after
<1>1. t = IF blk.remove THEN [over |-> TRUE, lines |-> less, events |-> more]
          ELSE IF blk.add # << >> THEN [over |-> FALSE, lines |-> three, events |-> more]
          ELSE [s EXCEPT !.lines = vct.lines, !.events = s.events \o vct.events]
  BY DEF InScope
<1>2. L \in Nat /\ Sound(lines)
  <2>1. IsSequence(lines)
    BY SoundIs
  <2> QED BY <2>1, SequenceIs
<1>3. 1 \in Int /\ from - 1 \in Int /\ from \in Int /\ last \in Int /\ last + 1 \in Int /\ L \in Int
      /\ 1 >= 1 /\ from - 1 <= L /\ from >= 1 /\ last <= L /\ last + 1 >= 1 /\ L <= L
  BY <1>2
<1>4. /\ Sound(before) /\ Len(before) = IF 1 <= from - 1 THEN ((from - 1) - 1) + 1 ELSE 0
      /\ Sound(within) /\ Len(within) = IF from <= last THEN (last - from) + 1 ELSE 0
      /\ Sound(after) /\ Len(after) = IF last + 1 <= L THEN (L - (last + 1)) + 1 ELSE 0
  <2> HIDE DEF before, within, after
  <2>1. before = SubSeq(lines, 1, from - 1) /\ within = SubSeq(lines, from, last) /\ after = SubSeq(lines, last + 1, L)
    BY DEF before, within, after
  <2> HIDE DEF lines
  <2> DEFINE e == from - 1
      f == last + 1
      N == Len(lines)
  <2>3. IsPart(before, 1, e)
    BY <1>2, <1>3, <2>1, PartSound, Zenon
  <2>4. IsPart(within, from, last)
    BY <1>2, <1>3, <2>1, PartSound, Zenon
  <2>5. IsPart(after, f, N)
    BY <1>2, <1>3, <2>1, PartSound, Zenon
  <2> QED BY <2>3, <2>4, <2>5 DEF IsPart
<1>5. Sound(blk.add)
  <2>1. AreLines(blk.add)
    BY DEF TypedBlock, IsBlock
  <2>2. \A i \in 1..Len(blk.add) : blk.add[i].name \in IntegerFields => Fits(blk.add[i].val)
    BY DEF TypedBlock, KeepsWhole
  <2> QED BY <2>1, <2>2 DEF Sound
<1>6. Sound(vct.lines) /\ Len(vct.lines) = L
  <2> DEFINE scope == [from |-> from, end |-> last + 1]
  <2>1. scope.from \in Int /\ scope.end \in Int /\ vct = ValueChanges(lines, blk, mod, scope)
    BY <1>3
  <2> HIDE DEF scope, vct, lines
  <2> QED BY <1>2, <2>1, ValueChangesSound
<1> HIDE DEF before, within, after, more, vct
<1>7. Sound(less)
  BY <1>4, ConcatSound
<1>8. /\ Sound(one) /\ Len(one) = Len(before) + Len(within)
      /\ Len(before) \in Nat /\ Len(within) \in Nat
  BY <1>4, ConcatSound
<1> HIDE DEF one
<1>9. Sound(two) /\ Len(two) = Len(one) + Len(blk.add) /\ Len(blk.add) \in Nat
  BY <1>5, <1>8, ConcatSound
<1> HIDE DEF two
<1>10. Sound(three) /\ Len(three) = Len(two) + Len(after) /\ Len(after) \in Nat
  BY <1>4, <1>9, ConcatSound
<1> HIDE DEF three, less
<1>11. Len(three) >= L
  <2> DEFINE a == Len(before)
      b == Len(within)
      c == Len(blk.add)
      d == Len(after)
      e == Len(three)
  <2>1. a \in Nat /\ b \in Nat /\ c \in Nat /\ d \in Nat /\ e = ((a + b) + c) + d
    BY <1>8, <1>9, <1>10
  <2>2. /\ a = IF 1 <= from - 1 THEN ((from - 1) - 1) + 1 ELSE 0
        /\ b = IF from <= last THEN (last - from) + 1 ELSE 0
        /\ d = IF last + 1 <= L THEN (L - (last + 1)) + 1 ELSE 0
    BY <1>4
  <2>3. from \in 1..(L + 1) /\ last \in 0..L
    OBVIOUS
  <2> HIDE DEF a, b, c, d, e, L
  <2>4. e >= L
    BY <1>2, <2>1, <2>2, <2>3
  <2> QED BY <2>4 DEF e
<1>12. CASE blk.remove
  <2>1. t = [over |-> TRUE, lines |-> less, events |-> more]
    BY <1>1, <1>12
  <2> QED BY <1>7, <2>1 DEF GroupState
<1>13. CASE ~blk.remove /\ blk.add # << >>
  <2>1. t = [over |-> FALSE, lines |-> three, events |-> more]
    BY <1>1, <1>13
  <2> QED BY <1>10, <1>11, <2>1 DEF GroupState
<1>14. CASE ~blk.remove /\ blk.add = << >>
  <2> DEFINE both == s.events \o vct.events
  <2>1. t = [s EXCEPT !.lines = vct.lines, !.events = both]
    BY <1>1, <1>14
  <2> HIDE DEF both
  <2>2. DOMAIN t = DOMAIN s /\ t.lines = vct.lines /\ t.over = s.over
    BY <2>1 DEF GroupState
  <2>3. Len(t.lines) >= L
    BY <1>2, <1>6, <2>2
  <2> QED BY <1>6, <2>2, <2>3 DEF GroupState
<1> QED BY <1>12, <1>13, <1>14

(* Until a REMOVE, the file is at least as long as it was at first, so the *)
(* end the scopes were found with is inside it.                            *)
GroupSound(s, n) == GroupState(s) /\ Sound(s.lines) /\ s.over \in BOOLEAN /\ (~s.over => Len(s.lines) >= n)

LEMMA OneGroupSound ==
  ASSUME NEW blk, TypedBlock(blk), NEW n \in Nat, NEW s, GroupSound(s, n), NEW mod, NEW kws, IsSequence(kws),
         NEW start \in 1..(n + 1), NEW t, t = OneGroup(s, blk, mod, kws, start, n + 1)
  PROVE  GroupSound(t, n)
<1> DEFINE end == n + 1
    lines == s.lines
    L == Len(lines)
    scope == GroupScope(lines, blk, kws, start, end)
    from == scope.from
    last == Min({scope.end - 1, L})
    more == Append(s.events, Event("warn", mod, 0, ""))
<1>1. t = IF s.over THEN s ELSE IF from = 0 THEN [s EXCEPT !.events = more] ELSE InScope(s, blk, mod, from, last)
  BY DEF OneGroup
<1> HIDE DEF more
<1>2. IsSequence(lines) /\ Sound(lines) /\ GroupState(s) /\ "upTo" \in DOMAIN blk
  BY SoundIs DEF GroupSound, TypedBlock, IsBlock
<1>3. L \in Nat
  BY <1>2, SequenceIs
<1>4. CASE s.over
  BY <1>1, <1>4
<1>5. CASE ~s.over
  <2>1. L >= n
    BY <1>5 DEF GroupSound
  <2>2. end \in 1..(L + 1) /\ start \in 1..end
    BY <1>3, <2>1
  <2>3. from = 0 \/ (from \in 1..(L + 1) /\ scope.end \in Nat \ {0})
    <3> HIDE DEF scope, end
    <3>1. scope = GroupScope(lines, blk, kws, start, end)
      BY DEF scope
    <3> HIDE DEF lines
    <3> QED BY <1>2, <2>2, <3>1, GroupScopeIs
  <2> HIDE DEF scope, from
  <2>4. CASE from = 0
    <3>1. t = [s EXCEPT !.events = more]
      BY <1>1, <1>5, <2>4
    <3>2. DOMAIN t = DOMAIN s /\ t.lines = s.lines /\ t.over = s.over
      BY <1>2, <3>1 DEF GroupState
    <3> QED BY <3>2 DEF GroupSound, GroupState
  <2>5. CASE from # 0
    <3>1. t = InScope(s, blk, mod, from, last)
      BY <1>1, <1>5, <2>5
    <3>2. last \in 0..L
      <4> DEFINE a == scope.end - 1
      <4>1. a \in Nat /\ a \in Int /\ L \in Int
        BY <1>3, <2>3, <2>5
      <4> HIDE DEF a, L
      <4>2. Min({a, L}) \in {a, L} /\ Min({a, L}) <= L
        BY <4>1, OfTwo
      <4>3. Min({a, L}) \in 0..L
        <5> DEFINE m == Min({a, L})
        <5>1. m \in {a, L} /\ m <= L
          BY <4>2
        <5> HIDE DEF m
        <5>2. m \in 0..L
          BY <1>3, <4>1, <5>1
        <5> QED BY <5>2 DEF m
      <4> QED BY <4>3 DEF a
    <3> HIDE DEF last
    <3>3. from \in 1..(Len(s.lines) + 1) /\ last \in 0..Len(s.lines) /\ Sound(s.lines)
      BY <1>2, <2>3, <2>5, <3>2
    <3> HIDE DEF lines
    <3>4. GroupState(t) /\ Sound(t.lines) /\ (t.over = TRUE \/ (t.over \in {FALSE, s.over} /\ Len(t.lines) >= Len(s.lines)))
      BY <1>2, <3>1, <3>3, InScopeSound
    <3>5. IsSequence(t.lines)
      BY <3>4, SoundIs
    <3>6. Len(t.lines) \in Nat
      BY <3>5, SequenceIs
    <3>7. t.over = FALSE => Len(t.lines) >= n
      <4> DEFINE k == Len(t.lines)
      <4>1. k \in Nat /\ L \in Nat /\ L >= n /\ (t.over = FALSE => k >= L)
        BY <1>3, <2>1, <3>4, <3>6 DEF lines
      <4> HIDE DEF k, L
      <4>2. t.over = FALSE => k >= n
        BY <4>1
      <4> QED BY <4>2 DEF k
    <3>8. s.over \in BOOLEAN
      BY DEF GroupSound
    <3> QED BY <3>4, <3>7, <3>8 DEF GroupSound
  <2> QED BY <2>4, <2>5
<1> QED BY <1>4, <1>5

LEMMA GroupsSound ==
  ASSUME NEW blk, TypedBlock(blk), NEW lines, Sound(lines), NEW mod,
         NEW groups, IsSequence(groups), \A kws \in Range(groups) : IsSequence(kws),
         NEW start \in 1..(Len(lines) + 1), NEW t, t = Groups(lines, blk, mod, groups, start)
  PROVE  Sound(t.lines)
<1> DEFINE N == Len(groups)
    size == Len(lines)
<1>1. N \in Nat /\ \A i \in 1..N : IsSequence(groups[i])
  BY SequenceIs
<1>2. size \in Nat
  <2>1. IsSequence(lines)
    BY SoundIs
  <2> QED BY <2>1, SequenceIs
<1>3. PICK f : /\ Grouping(f, N, lines, blk, mod, groups, start)
               /\ t = [lines |-> f[N].lines, events |-> f[N].events]
  BY GroupsSteps, Zenon
<1> HIDE DEF N
<1>4. Grouping(f, N, lines, blk, mod, groups, start)
  BY <1>3
<1>5. /\ f[0] = [over |-> FALSE, lines |-> lines, events |-> << >>]
      /\ \A i \in 1..N : f[i] = OneGroup(f[i - 1], blk, mod, groups[i], start, size + 1)
  <2>1. N \in Nat
    BY <1>1
  <2>2. Grouped(f, N, lines, blk, mod, groups, start)
    BY <1>4, <2>1, GroupingSteps, Zenon
  <2> QED BY <2>2 DEF Grouped
<1> HIDE DEF size
<1> DEFINE Good == {i \in 0..N : GroupSound(f[i], size)}
<1>6. 0 \in Good
  <2>1. DOMAIN f[0] = {"over", "lines", "events"} /\ f[0].over = FALSE /\ f[0].lines = lines
    BY <1>5
  <2>2. size = Len(lines)
    BY DEF size
  <2>3. ~f[0].over => Len(f[0].lines) >= size
    BY <1>2, <2>1, <2>2
  <2>4. GroupSound(f[0], size)
    BY <2>1, <2>3 DEF GroupSound, GroupState
  <2> QED BY <1>1, <2>4
<1>7. ASSUME NEW i \in 0..(N - 1), i \in Good PROVE i + 1 \in Good
  <2> DEFINE u == f[i]
      v == f[i + 1]
      kws == groups[i + 1]
  <2>1. i + 1 \in 1..N /\ i + 1 \in 0..N /\ (i + 1) - 1 = i
    BY <1>1
  <2>2. GroupSound(u, size) /\ start \in 1..(size + 1)
    BY <1>7 DEF size
  <2>3. v = OneGroup(u, blk, mod, kws, start, size + 1) /\ IsSequence(kws)
    BY <1>1, <1>5, <2>1
  <2> HIDE DEF u, v, kws
  <2>4. GroupSound(v, size)
    BY <1>2, <2>2, <2>3, OneGroupSound
  <2> QED BY <2>1, <2>4 DEF v
<1> HIDE DEF Good
<1>8. N \in Good
  <2>1. N \in Nat
    BY <1>1
  <2> HIDE DEF N
  <2>2. 0..N \subseteq Good
    BY <1>6, <1>7, <2>1, InductionUpTo, Zenon
  <2> QED BY <2>1, <2>2
<1>9. Sound(f[N].lines)
  BY <1>8 DEF Good, GroupSound
<1> QED BY <1>3, <1>9

(* Whatever a block does to sound lines leaves sound lines.                *)
LEMMA ApplySound ==
  ASSUME NEW lines, Sound(lines), NEW blk, TypedBlock(blk), NEW mod
  PROVE  Sound(Apply(lines, blk, mod).lines)
<1> DEFINE start == Preceding(lines, blk)
    groups == IF blk.foreach # << >> THEN blk.foreach ELSE <<blk.skw>>
    r == Apply(lines, blk, mod)
    all == AllSections(lines, blk, mod, start)
    some == Groups(lines, blk, mod, groups, start)
<1>1. IsSequence(lines) /\ IsSequence(blk.preceding)
  BY SoundIs DEF TypedBlock, IsBlock
<1>2. start \in 1..(Len(lines) + 1)
  BY <1>1, PrecedingIs
<1>3. start \in Int
  <2> DEFINE L == Len(lines)
  <2>1. L \in Nat /\ start \in 1..(L + 1)
    BY <1>1, <1>2, SequenceIs
  <2> HIDE DEF L, start
  <2> QED BY <2>1
<1>4. Sound(CurrencyMult(lines, blk, mod).lines) /\ Sound(WrapperMult(lines, blk, mod).lines)
  BY MultSound
<1>5. r = CurrencyMult(lines, blk, mod) \/ r = WrapperMult(lines, blk, mod) \/ r = all \/ r = some
  BY Zenon DEF Apply
<1> HIDE DEF start, r
<1>6. Sound(all.lines)
  BY <1>3, AllSectionsSound
<1>7. Sound(some.lines)
  <2>1. IsSequence(groups) /\ \A kws \in Range(groups) : IsSequence(kws)
    <3>1. IsSequence(blk.skw) /\ IsSequence(blk.foreach) /\ \A kws \in Range(blk.foreach) : IsSequence(kws)
      BY DEF TypedBlock, IsBlock
    <3>2. IsSequence(<<blk.skw>>) /\ Range(<<blk.skw>>) = {blk.skw}
      BY OneEvent
    <3> QED BY <3>1, <3>2
  <2> HIDE DEF groups
  <2>2. some = Groups(lines, blk, mod, groups, start)
    OBVIOUS
  <2> HIDE DEF some
  <2> QED BY <1>2, <2>1, <2>2, GroupsSound
<1> HIDE DEF all, some
<1> QED BY <1>4, <1>5, <1>6, <1>7 DEF r

(***************************************************************************)
(* The plan.                                                               *)
(***************************************************************************)
(* The numbers of the settings are whole, and so are those a script reads. *)
IsParams(params) == \A m \in Mods : \A p \in DOMAIN params[m] : params[m][p] \in Int

IsItem(it) == it.source \in DOMAIN KeyOf /\ TypedBlock(it.block)
AreItems(items) == IsSequence(items) /\ \A it \in Range(items) : IsItem(it)

LEMMA GlobalIs ==
  ASSUME NEW m \in Mods, Script[m].kind \in {"builtin", "library"}, NEW params, IsParams(params),
         NEW p, Assigned(Script[m], p)
  PROVE  Global(m, params, p) \in Int
<1> DEFINE head == Script[m].head
    N == Len(head)
    new == Overridden(m, params)
    S == {i \in 1..N : new[i].name = p}
<1>1. /\ N \in Nat /\ DOMAIN head = 1..N
      /\ \A i \in 1..N : {"name", "local", "value"} \subseteq DOMAIN head[i] /\ head[i].value \in Int
  <2>1. IsSequence(head) /\ \A a \in Range(head) : {"name", "local", "value"} \subseteq DOMAIN a /\ a.value \in Int
    BY ScriptsAssumption
  <2> HIDE DEF head
  <2> QED BY <2>1, SequenceIs
<1>2. DOMAIN new = 1..N /\ Len(new) = N /\ \A i \in 1..N : new[i].name = head[i].name /\ new[i].value \in Int
  <2> DEFINE Given(i) == LET a == head[i]
                         IN  IF a.name \in DOMAIN params[m] /\ i = Assignment(m, a.name)
                             THEN [a EXCEPT !.value = params[m][a.name]] ELSE a
  <2>1. new = [i \in 1..N |-> Given(i)]
    BY DEF Overridden
  <2>2. ASSUME NEW i \in 1..N PROVE Given(i).name = head[i].name /\ Given(i).value \in Int
    <3> DEFINE a == head[i]
        v == params[m][a.name]
    <3>1. {"name", "value"} \subseteq DOMAIN a /\ a.value \in Int
      BY <1>1
    <3>2. a.name \in DOMAIN params[m] => v \in Int
      BY DEF IsParams
    <3> HIDE DEF a, v
    <3>3. Given(i) = a \/ (a.name \in DOMAIN params[m] /\ Given(i) = [a EXCEPT !.value = v])
      BY DEF a, v
    <3> HIDE DEF Given
    <3>4. Given(i).name = a.name /\ Given(i).value \in Int
      BY <3>1, <3>2, <3>3
    <3> QED BY <3>4 DEF a
  <2> HIDE DEF Given
  <2>3. DOMAIN new = 1..N /\ new = [i \in 1..N |-> new[i]]
    BY <2>1
  <2> HIDE DEF new
  <2>4. Len(new) = N
    BY <1>1, <2>3, FunctionSequence
  <2> QED BY <2>1, <2>2, <2>3, <2>4
<1>3. S # {}
  BY <1>2 DEF Assigned
<1>4. S \subseteq 1..N /\ 1 \in Int /\ N \in Int
  BY <1>1
<1>5. Global(m, params, p) = new[Max(S)].value
  BY <1>2, Zenon DEF Global
<1> HIDE DEF S
<1>6. Max(S) \in S
  BY <1>3, <1>4, GreatestOf, Zenon
<1>7. Max(S) \in 1..N
  BY <1>4, <1>6, Zenon
<1> HIDE DEF new
<1> QED BY <1>2, <1>5, <1>7

LEMMA DecodedBlock ==
  ASSUME NEW m \in Mods, Script[m].kind \in {"builtin", "library"}, NEW params, IsParams(params),
         NEW ch \in Range(Script[m].changes), NEW blk \in Range(ch.blocks)
  PROVE  TypedBlock(Decoded(m, params, blk))
<1> DEFINE global == Global(m, params, blk.knob)
    mult == <<global, 1>>
    new == [blk EXCEPT !.mult = mult]
<1>1. IsBlock(blk) /\ (blk.knob # "" => Assigned(Script[m], blk.knob))
  BY ScriptsAssumption
<1>2. \A name \in IntegerFields : KeepsWhole(blk, name)
  BY DEF IntegerFields, SpelledWhole
<1>3. Decoded(m, params, blk) = IF blk.knob = "" THEN blk ELSE new
  BY DEF Decoded
<1>4. CASE blk.knob = ""
  BY <1>1, <1>2, <1>3, <1>4 DEF TypedBlock
<1>5. CASE blk.knob # ""
  <2>1. global \in Int
    BY <1>1, <1>5, GlobalIs
  <2> HIDE DEF global
  <2>2. IsNumber(mult)
    BY <2>1 DEF IsNumber
  <2> HIDE DEF mult
  <2>3. DOMAIN new = DOMAIN blk /\ "mult" \in DOMAIN blk
    BY <1>1 DEF IsBlock
  <2>4. /\ new.mult = mult /\ new.changes = blk.changes /\ new.foreach = blk.foreach /\ new.preceding = blk.preceding
        /\ new.skw = blk.skw /\ new.add = blk.add /\ new.cap = blk.cap /\ new.itof = blk.itof
    BY <2>3
  <2> HIDE DEF new
  <2>5. IsBlock(new)
    BY <1>1, <2>2, <2>3, <2>4 DEF IsBlock
  <2>6. \A name \in IntegerFields : KeepsWhole(new, name)
    BY <1>2, <2>4 DEF KeepsWhole
  <2> QED BY <1>3, <1>5, <2>5, <2>6 DEF TypedBlock
<1> QED BY <1>4, <1>5

LEMMA ItemsOfItems ==
  ASSUME NEW m \in Mods, NEW params, IsParams(params)
  PROVE  AreItems(ItemsOf(m, params))
<1> DEFINE OfSource(ch, src) == [b \in 1..Len(ch.blocks) |->
                                   [mod |-> m, source |-> src, block |-> Decoded(m, params, ch.blocks[b])]]
    Sources(ch) == [s \in 1..Len(ch.sources) |-> OfSource(ch, ch.sources[s])]
    changes == Script[m].changes
    Changes == [c \in 1..Len(changes) |-> FlattenSeq(Sources(changes[c]))]
<1>1. ItemsOf(m, params) = IF ~Loads(m, params) THEN << >> ELSE FlattenSeq(Changes)
  BY DEF ItemsOf
<1>2. CASE ~Loads(m, params)
  BY <1>1, <1>2, EmptySequence DEF AreItems
<1>3. CASE Loads(m, params)
  <2>1. /\ IsSequence(changes)
        /\ \A ch \in Range(changes) :
             /\ IsSequence(ch.sources) /\ Range(ch.sources) \subseteq DOMAIN KeyOf
             /\ IsSequence(ch.blocks)
    BY <1>3, ScriptsAssumption DEF Loads
  <2>a. \A ch \in Range(changes) : \A blk \in Range(ch.blocks) : TypedBlock(Decoded(m, params, blk))
    BY <1>3, DecodedBlock DEF Loads
  <2> HIDE DEF changes
  <2>2. ASSUME NEW ch \in Range(changes), NEW src \in DOMAIN KeyOf
        PROVE  AreItems(OfSource(ch, src))
    <3> DEFINE s == OfSource(ch, src)
    <3>1. Len(ch.blocks) \in Nat /\ \A b \in 1..Len(ch.blocks) : ch.blocks[b] \in Range(ch.blocks)
      BY <2>1, SequenceIs
    <3>2. ASSUME NEW b \in 1..Len(ch.blocks) PROVE IsItem(s[b])
      <4> DEFINE blk == Decoded(m, params, ch.blocks[b])
      <4>1. TypedBlock(blk)
        BY <2>a, <3>1
      <4> HIDE DEF blk
      <4>2. s[b] = [mod |-> m, source |-> src, block |-> blk]
        BY DEF blk
      <4> QED BY <4>1, <4>2 DEF IsItem
    <3>3. DOMAIN s = 1..Len(ch.blocks) /\ s = [b \in 1..Len(ch.blocks) |-> s[b]]
      OBVIOUS
    <3> HIDE DEF s
    <3>4. IsSequence(s) /\ Range(s) = {s[b] : b \in 1..Len(ch.blocks)}
      BY <3>1, <3>3, FunctionSequence
    <3>5. AreItems(s)
      BY <3>2, <3>4 DEF AreItems
    <3> QED BY <3>5 DEF s
  <2> HIDE DEF OfSource
  <2>3. ASSUME NEW ch \in Range(changes) PROVE AreItems(FlattenSeq(Sources(ch)))
    <3> DEFINE s == Sources(ch)
    <3>1. Len(ch.sources) \in Nat /\ \A k \in 1..Len(ch.sources) : ch.sources[k] \in DOMAIN KeyOf
      BY <2>1, SequenceIs
    <3>2. \A k \in 1..Len(ch.sources) : AreItems(s[k])
      BY <2>2, <3>1
    <3>3. DOMAIN s = 1..Len(ch.sources) /\ s = [k \in 1..Len(ch.sources) |-> s[k]]
      OBVIOUS
    <3> HIDE DEF s
    <3>4. IsSequence(s) /\ Range(s) = {s[k] : k \in 1..Len(ch.sources)}
      BY <3>1, <3>3, FunctionSequence
    <3>5. \A r \in Range(s) : AreItems(r)
      BY <3>2, <3>4
    <3>6. IsSequence(FlattenSeq(s)) /\ Range(FlattenSeq(s)) = UNION {Range(r) : r \in Range(s)}
      BY <3>4, <3>5, Flattened DEF AreItems
    <3>7. AreItems(FlattenSeq(s))
      BY <3>5, <3>6 DEF AreItems
    <3> QED BY <3>7 DEF s
  <2> HIDE DEF Sources
  <2>4. Len(changes) \in Nat /\ \A c \in 1..Len(changes) : changes[c] \in Range(changes)
    BY <2>1, SequenceIs
  <2>5. \A c \in 1..Len(changes) : AreItems(Changes[c])
    BY <2>3, <2>4
  <2>6. DOMAIN Changes = 1..Len(changes) /\ Changes = [c \in 1..Len(changes) |-> Changes[c]]
    OBVIOUS
  <2> HIDE DEF Changes
  <2>7. IsSequence(Changes) /\ Range(Changes) = {Changes[c] : c \in 1..Len(changes)}
    BY <2>4, <2>6, FunctionSequence
  <2>8. \A r \in Range(Changes) : AreItems(r)
    BY <2>5, <2>7
  <2>9. IsSequence(FlattenSeq(Changes)) /\ Range(FlattenSeq(Changes)) = UNION {Range(r) : r \in Range(Changes)}
    BY <2>7, <2>8, Flattened DEF AreItems
  <2>10. AreItems(FlattenSeq(Changes))
    BY <2>8, <2>9 DEF AreItems
  <2> QED BY <1>1, <1>3, <2>10
<1> QED BY <1>2, <1>3

LEMMA EnabledMods ==
  ASSUME NEW order \in Seq(Mods), NEW on
  PROVE  Those(order, on) \in Seq(Mods)
<1>1. PICK f \in [0..Len(order) -> Seq(Mods)] : Selects(f, order, on)
  BY ThoseSteps, Zenon
<1>2. Those(order, on) = f[Len(order)]
  BY <1>1 DEF Selects
<1>3. Len(order) \in 0..Len(order)
  OBVIOUS
<1> QED BY <1>1, <1>2, <1>3

(* The edits of any settings whose order is of mods.                       *)
LEMMA EditsOfItems ==
  ASSUME NEW c, c.order \in Seq(Mods), IsParams(c.params)
  PROVE  AreItems(EditsOf(c))
<1> DEFINE on == Enabled(c)
    Each == [i \in 1..Len(on) |-> ItemsOf(on[i], c.params)]
<1>1. EditsOf(c) = FlattenSeq(Each)
  BY DEF EditsOf
<1>2. on \in Seq(Mods)
  BY EnabledMods DEF Enabled
<1> HIDE DEF on
<1>3. Len(on) \in Nat /\ \A i \in 1..Len(on) : on[i] \in Mods
  BY <1>2
<1>4. \A i \in 1..Len(on) : AreItems(Each[i])
  BY <1>3, ItemsOfItems
<1>5. DOMAIN Each = 1..Len(on) /\ Each = [i \in 1..Len(on) |-> Each[i]]
  OBVIOUS
<1> HIDE DEF Each
<1>6. IsSequence(Each) /\ Range(Each) = {Each[i] : i \in 1..Len(on)}
  BY <1>3, <1>5, FunctionSequence
<1>7. \A r \in Range(Each) : AreItems(r)
  BY <1>4, <1>6
<1>8. IsSequence(FlattenSeq(Each)) /\ Range(FlattenSeq(Each)) = UNION {Range(r) : r \in Range(Each)}
  BY <1>6, <1>7, Flattened DEF AreItems
<1>9. AreItems(FlattenSeq(Each))
  BY <1>7, <1>8 DEF AreItems
<1> QED BY <1>1, <1>9

LEMMA FirstOfIs ==
  ASSUME NEW S \in SUBSET Nat
  PROVE  (S = {} => FirstOf(S) = 0) /\ (S # {} => FirstOf(S) \in S)
<1>1. ASSUME S # {} PROVE Min(S) \in S
  <2>1. PICK n \in S : \A m \in S : n <= m
    BY <1>1, LeastNatural
  <2>2. \E n1 \in S : \A m \in S : n1 <= m
    BY <2>1
  <2> QED BY <2>2, Zenon DEF Min
<1> QED BY <1>1, Zenon DEF FirstOf

(* What is selected is of the sequence, and of the set.                    *)
LEMMA ThoseMembers ==
  ASSUME NEW s, IsSequence(s), NEW S
  PROVE  IsSequence(Those(s, S)) /\ Range(Those(s, S)) \subseteq Range(s) \cap S
<1> DEFINE T == Range(s)
    N == Len(s)
<1>1. s \in Seq(T)
  BY DEF IsSequence
<1>2. N \in Nat /\ \A i \in 1..N : s[i] \in T
  BY SequenceIs
<1> HIDE DEF T
<1>3. PICK f \in [0..N -> Seq(T)] : Selects(f, s, S)
  BY <1>1, ThoseSteps, Zenon
<1>4. /\ f[0] = << >>
      /\ \A i \in 1..N : f[i] = IF s[i] \in S THEN Append(f[i - 1], s[i]) ELSE f[i - 1]
      /\ Those(s, S) = f[N]
  BY <1>3, Zenon DEF Selects
<1> HIDE DEF N
<1> DEFINE Good == {i \in 0..N : IsSequence(f[i]) /\ Range(f[i]) \subseteq T \cap S}
<1>5. 0 \in Good
  BY <1>2, <1>4, EmptySequence
<1>6. ASSUME NEW n \in 0..(N - 1), n \in Good PROVE n + 1 \in Good
  <2>1. n + 1 \in 1..N /\ (n + 1) - 1 = n /\ n + 1 \in 0..N
    BY <1>2
  <2>2. IsSequence(f[n]) /\ Range(f[n]) \subseteq T \cap S
    BY <1>6
  <2>3. f[n + 1] = IF s[n + 1] \in S THEN Append(f[n], s[n + 1]) ELSE f[n]
    BY <1>4, <2>1
  <2>4. IsSequence(Append(f[n], s[n + 1])) /\ Range(Append(f[n], s[n + 1])) = Range(f[n]) \cup {s[n + 1]}
    BY <2>2, MembersOfAppend
  <2>5. s[n + 1] \in T
    BY <1>2, <2>1
  <2>6. IsSequence(f[n + 1]) /\ Range(f[n + 1]) \subseteq T \cap S
    BY <2>2, <2>3, <2>4, <2>5
  <2> QED BY <2>1, <2>6
<1>7. N \in Good
  <2> HIDE DEF Good
  <2>1. 0..N \subseteq Good
    BY <1>2, <1>5, <1>6, InductionUpTo
  <2> QED BY <1>2, <2>1
<1> QED BY <1>4, <1>7 DEF T

(* Grouping by key: the edits of the key, one after the other.             *)
OfKey(items, key) == {it \in Range(items) : KeyOf[it.source] = key}
Upto(items, key, i) ==
  (CHOOSE f \in [0..Len(items) -> Seq(Range(items))] : Selects(f, items, OfKey(items, key)))[i]

LEMMA UptoSteps ==
  ASSUME NEW items, AreItems(items), NEW key
  PROVE  /\ Upto(items, key, 0) = << >>
         /\ \A i \in 1..Len(items) :
              Upto(items, key, i) = IF KeyOf[items[i].source] = key
                                    THEN Append(Upto(items, key, i - 1), items[i])
                                    ELSE Upto(items, key, i - 1)
         /\ \A i \in 0..Len(items) : Upto(items, key, i) \in Seq(Range(items))
         /\ Upto(items, key, Len(items)) = Those(items, OfKey(items, key))
<1> DEFINE T == Range(items)
    S == OfKey(items, key)
    f == CHOOSE f \in [0..Len(items) -> Seq(T)] : Selects(f, items, S)
<1>1. items \in Seq(T)
  BY DEF AreItems, IsSequence
<1>2. \A i \in 1..Len(items) : items[i] \in S <=> KeyOf[items[i].source] = key
  BY SequenceIs DEF AreItems, OfKey
<1> HIDE DEF S
<1>3. f \in [0..Len(items) -> Seq(T)] /\ Selects(f, items, S)
  <2>1. \E g \in [0..Len(items) -> Seq(T)] : Selects(g, items, S)
    <3> HIDE DEF T
    <3> QED BY <1>1, ThoseSteps, Zenon
  <2> QED BY <2>1, Zenon
<1>4. \A i : Upto(items, key, i) = f[i]
  BY DEF Upto, S
<1> HIDE DEF f, T
<1>5. /\ f[0] = << >>
      /\ \A i \in 1..Len(items) : f[i] = IF items[i] \in S THEN Append(f[i - 1], items[i]) ELSE f[i - 1]
      /\ Those(items, S) = f[Len(items)]
  BY <1>3, Zenon DEF Selects
<1>6. \A i \in 0..Len(items) : f[i] \in Seq(Range(items))
  BY <1>3 DEF T
<1>7. f[Len(items)] = Those(items, OfKey(items, key))
  BY <1>5 DEF S
<1>8. \A i \in 1..Len(items) : f[i] = IF KeyOf[items[i].source] = key THEN Append(f[i - 1], items[i]) ELSE f[i - 1]
  BY <1>2, <1>5
<1> QED BY <1>4, <1>5, <1>6, <1>7, <1>8

(* The targets of the first i edits.                                       *)
Target(items) == [key : DOMAIN Internal, items : Seq(Range(items))]
Targeted(targets, items, i) ==
  /\ targets \in Seq(Target(items))
  /\ \A j \in 1..Len(targets) : targets[j].items = Upto(items, targets[j].key, i) /\ targets[j].items # << >>
  /\ \A j, k \in 1..Len(targets) : targets[j].key = targets[k].key => j = k
  /\ \A key : (\A j \in 1..Len(targets) : targets[j].key # key) => Upto(items, key, i) = << >>

LEMMA MembersTyped ==
  ASSUME NEW T, NEW s \in Seq(T)
  PROVE  Len(s) \in Nat /\ \A j \in 1..Len(s) : s[j] \in T
OBVIOUS

LEMMA AddItemTyped ==
  ASSUME NEW items, AreItems(items), NEW targets \in Seq(Target(items)), NEW item \in Range(items)
  PROVE  AddItem(targets, item) \in Seq(Target(items))
<1> DEFINE R == Range(items)
    N == Len(targets)
    key == KeyOf[item.source]
    S == {j \in 1..N : targets[j].key = key}
    at == FirstOf(S)
<1>1. key \in DOMAIN Internal
  BY ScriptsAssumption DEF AreItems, IsItem
<1>2. AddItem(targets, item) = IF at = 0 THEN Append(targets, [key |-> key, items |-> <<item>>])
                               ELSE [targets EXCEPT ![at].items = Append(@, item)]
  BY DEF AddItem
<1>3. N \in Nat /\ \A j \in 1..N : targets[j] \in [key : DOMAIN Internal, items : Seq(R)]
  BY MembersTyped DEF Target
<1>4. S \in SUBSET Nat
  BY <1>3
<1>5. (S = {} => at = 0) /\ (S # {} => at \in S)
  BY <1>4, FirstOfIs
<1> HIDE DEF S, at, key, R
<1>6. CASE at = 0
  <2>1. <<item>> \in Seq(R)
    BY DEF R
  <2>2. [key |-> key, items |-> <<item>>] \in Target(items)
    BY <1>1, <2>1 DEF Target, R
  <2> QED BY <1>2, <1>6, <2>2
<1>7. CASE at # 0
  <2>1. at \in 1..N
    BY <1>5, <1>7 DEF S
  <2>2. targets[at] \in [key : DOMAIN Internal, items : Seq(R)]
    BY <1>3, <2>1
  <2>3. Append(targets[at].items, item) \in Seq(R)
    BY <2>2 DEF R
  <2>4. [targets[at] EXCEPT !.items = Append(@, item)] \in Target(items)
    BY <2>2, <2>3 DEF Target, R
  <2> DEFINE new == [targets[at] EXCEPT !.items = Append(@, item)]
  <2>5. [targets EXCEPT ![at].items = Append(@, item)] = [targets EXCEPT ![at] = new]
    OBVIOUS
  <2> HIDE DEF new
  <2>6. [targets EXCEPT ![at] = new] \in Seq(Target(items))
    BY <2>1, <2>4 DEF new
  <2> QED BY <1>2, <1>7, <2>5, <2>6
<1> QED BY <1>6, <1>7

LEMMA AddItemTargets ==
  ASSUME NEW items, AreItems(items), NEW i \in 1..Len(items), NEW targets, Targeted(targets, items, i - 1)
  PROVE  Targeted(AddItem(targets, items[i]), items, i)
<1> DEFINE N == Len(targets)
    item == items[i]
    key == KeyOf[item.source]
    S == {j \in 1..N : targets[j].key = key}
    at == FirstOf(S)
    U(k, n) == Upto(items, k, n)
    new == AddItem(targets, item)
<1>1. new = IF at = 0 THEN Append(targets, [key |-> key, items |-> <<item>>])
            ELSE [targets EXCEPT ![at].items = Append(@, item)]
  BY DEF AddItem
<1>2. \A k : U(k, i) = IF key = k THEN Append(U(k, i - 1), item) ELSE U(k, i - 1)
  BY UptoSteps
<1>3. /\ targets \in Seq(Target(items))
      /\ \A j \in 1..N : targets[j].items = U(targets[j].key, i - 1) /\ targets[j].items # << >>
      /\ \A j, k \in 1..N : targets[j].key = targets[k].key => j = k
      /\ \A k : (\A j \in 1..N : targets[j].key # k) => U(k, i - 1) = << >>
  BY DEF Targeted
<1>4. N \in Nat /\ \A j \in 1..N : targets[j] \in [key : DOMAIN Internal, items : Seq(Range(items))]
  BY <1>3, MembersTyped DEF Target
<1>5. (S = {} => at = 0) /\ (S # {} => at \in S)
  <2>1. S \in SUBSET Nat
    BY <1>4
  <2> QED BY <2>1, FirstOfIs
<1>6. item \in Range(items)
  BY SequenceIs DEF AreItems
<1>7. new \in Seq(Target(items))
  BY <1>3, <1>6, AddItemTyped
<1>8. IsSequence(items)
  BY DEF AreItems
<1> HIDE DEF at, key, item
<1>9. CASE at = 0
  <2> DEFINE t == [key |-> key, items |-> <<item>>]
  <2>1. new = Append(targets, t)
    BY <1>1, <1>9
  <2>2. t.key = key /\ t.items = <<item>> /\ <<item>> # << >>
    OBVIOUS
  <2> HIDE DEF t
  <2>3. Len(new) = N + 1 /\ new[N + 1] = t /\ \A j \in 1..N : new[j] = targets[j]
    BY <1>3, <2>1
  <2>4. \A j \in 1..N : targets[j].key # key
    BY <1>4, <1>5, <1>9 DEF S
  <2>5. U(key, i) = <<item>>
    <3>1. U(key, i - 1) = << >>
      BY <1>3, <2>4
    <3>2. <<item>> = Append(<< >>, item)
      OBVIOUS
    <3> QED BY <1>2, <3>1, <3>2
  <2> HIDE DEF new, U, S
  <2>6. \A j \in 1..(N + 1) : j \in 1..N \/ j = N + 1
    BY <1>4
  <2>7. \A j \in 1..Len(new) : new[j].items = U(new[j].key, i) /\ new[j].items # << >>
    BY <1>2, <1>3, <2>2, <2>3, <2>4, <2>5, <2>6
  <2>8. \A j, k \in 1..Len(new) : new[j].key = new[k].key => j = k
    BY <1>3, <2>2, <2>3, <2>4, <2>6
  <2>9. \A k : (\A j \in 1..Len(new) : new[j].key # k) => U(k, i) = << >>
    <3>1. ASSUME NEW k, \A j \in 1..Len(new) : new[j].key # k PROVE U(k, i) = << >>
      <4>1. k # key
        BY <1>4, <2>2, <2>3, <3>1
      <4>2. \A j \in 1..N : targets[j].key # k
        BY <1>4, <2>3, <3>1
      <4> QED BY <1>2, <1>3, <4>1, <4>2
    <3> QED BY <3>1
  <2> QED BY <1>7, <2>7, <2>8, <2>9 DEF Targeted, U, new, item
<1>10. CASE at # 0
  <2> DEFINE more == Append(targets[at].items, item)
      t == [targets[at] EXCEPT !.items = more]
  <2>1. at \in 1..N /\ targets[at].key = key
    BY <1>5, <1>10 DEF S
  <2>2. new = [targets EXCEPT ![at] = t]
    BY <1>1, <1>10
  <2> HIDE DEF more
  <2>3. t.key = key /\ t.items = more
    BY <1>4, <2>1
  <2>4. more # << >>
    <3>1. targets[at].items \in Seq(Range(items))
      BY <1>4, <2>1
    <3> QED BY <3>1 DEF more
  <2> HIDE DEF t
  <2>5. Len(new) = N /\ new[at] = t /\ \A j \in 1..N : j # at => new[j] = targets[j]
    BY <1>3, <2>1, <2>2
  <2> HIDE DEF new, U, S
  <2>6. U(key, i) = more
    BY <1>2, <1>3, <2>1 DEF more
  <2>7. \A j \in 1..N : j # at => targets[j].key # key
    BY <1>3, <2>1
  <2>8. \A j \in 1..N : new[j].key = targets[j].key
    BY <2>1, <2>3, <2>5
  <2>9. \A j \in 1..Len(new) : new[j].items = U(new[j].key, i) /\ new[j].items # << >>
    <3>1. ASSUME NEW j \in 1..N PROVE new[j].items = U(new[j].key, i) /\ new[j].items # << >>
      <4>1. CASE j = at
        BY <2>3, <2>4, <2>5, <2>6, <4>1
      <4>2. CASE j # at
        BY <1>2, <1>3, <2>5, <2>7, <4>2
      <4> QED BY <4>1, <4>2
    <3> QED BY <2>5, <3>1
  <2>10. \A j, k \in 1..Len(new) : new[j].key = new[k].key => j = k
    BY <1>3, <2>5, <2>8
  <2>11. \A k : (\A j \in 1..Len(new) : new[j].key # k) => U(k, i) = << >>
    <3>1. ASSUME NEW k, \A j \in 1..Len(new) : new[j].key # k PROVE U(k, i) = << >>
      <4>1. \A j \in 1..N : targets[j].key # k
        BY <2>5, <2>8, <3>1
      <4>2. k # key
        BY <2>1, <4>1
      <4> QED BY <1>2, <1>3, <4>1, <4>2
    <3> QED BY <3>1
  <2> QED BY <1>7, <2>9, <2>10, <2>11 DEF Targeted, U, new, item
<1> QED BY <1>9, <1>10

Targeting(f, items) ==
  f = [i \in 0..Len(items) |-> IF i = 0 THEN << >> ELSE AddItem(f[i - 1], items[i])]

LEMMA TargetingExists ==
  ASSUME NEW items, AreItems(items)
  PROVE  \E f : Targeting(f, items)
<1> DEFINE N == Len(items)
    U == Seq(Target(items))
    G == [p \in (1..N) \X U |-> AddItem(p[2], items[p[1]])]
<1>1. N \in Nat /\ \A i \in 1..N : items[i] \in Range(items)
  BY SequenceIs DEF AreItems
<1>2. << >> \in U
  OBVIOUS
<1>3. \A t \in U, i \in 1..N : AddItem(t, items[i]) \in U
  BY <1>1, AddItemTyped
<1> HIDE DEF U, N
<1>4. G \in [(1..N) \X U -> U]
  BY <1>3
<1>5. \A i \in 1..N, t \in U : G[<<i, t>>] = AddItem(t, items[i])
  OBVIOUS
<1> HIDE DEF G
<1>6. PICK f \in [0..N -> U] : Recurs(f, N, << >>, G)
  BY <1>1, <1>2, <1>4, Recursion, Zenon
<1>7. f[0] = << >> /\ \A i \in 1..N : f[i] = G[<<i, f[i - 1]>>]
  BY <1>6 DEF Recurs
<1>8. \A i \in 1..N : i \in 0..N /\ i - 1 \in 0..N /\ i # 0
  BY <1>1
<1>9. \A i \in 1..N : f[i] = AddItem(f[i - 1], items[i])
  BY <1>5, <1>7, <1>8
<1> DEFINE F == [i \in 0..N |-> IF i = 0 THEN << >> ELSE AddItem(f[i - 1], items[i])]
<1>10. \A i \in 0..N : F[i] = f[i]
  <2>1. \A i \in 0..N : i = 0 \/ i \in 1..N
    BY <1>1
  <2> QED BY <1>7, <1>9, <2>1
<1>11. f = F
  BY <1>10
<1>12. Targeting(f, items)
  BY <1>11 DEF Targeting, N
<1> QED BY <1>12

LEMMA TargetsAreTargeted ==
  ASSUME NEW items, AreItems(items)
  PROVE  Targeted(TargetsOf(items), items, Len(items))
<1> DEFINE N == Len(items)
    H == CHOOSE f : Targeting(f, items)
<1>1. N \in Nat
  BY SequenceIs DEF AreItems
<1>2. Targeting(H, items)
  BY TargetingExists, Zenon
<1>3. TargetsOf(items) = H[N]
  BY DEF TargetsOf, Targeting
<1> HIDE DEF H
<1>4. \A i \in 0..N : H[i] = IF i = 0 THEN << >> ELSE AddItem(H[i - 1], items[i])
  <2> DEFINE F == [i \in 0..N |-> IF i = 0 THEN << >> ELSE AddItem(H[i - 1], items[i])]
  <2>1. H = F
    BY <1>2 DEF Targeting
  <2>2. \A i \in 0..N : F[i] = IF i = 0 THEN << >> ELSE AddItem(H[i - 1], items[i])
    OBVIOUS
  <2> HIDE DEF F
  <2> QED BY <2>1, <2>2
<1> DEFINE Good == {i \in 0..N : Targeted(H[i], items, i)}
<1>5. 0 \in Good
  <2>1. H[0] = << >> /\ 0 \in 0..N
    BY <1>1, <1>4
  <2>2. << >> \in Seq(Target(items)) /\ Len(<< >>) = 0 /\ 1..0 = {}
    OBVIOUS
  <2>3. \A key : Upto(items, key, 0) = << >>
    BY UptoSteps
  <2> QED BY <2>1, <2>2, <2>3 DEF Targeted
<1>6. ASSUME NEW n \in 0..(N - 1), n \in Good PROVE n + 1 \in Good
  <2>1. n + 1 \in 1..N /\ (n + 1) - 1 = n /\ n + 1 \in 0..N /\ n + 1 # 0
    BY <1>1
  <2>2. H[n + 1] = AddItem(H[n], items[n + 1])
    BY <1>4, <2>1
  <2>3. Targeted(H[n], items, n)
    BY <1>6
  <2>4. Targeted(AddItem(H[n], items[n + 1]), items, n + 1)
    BY <2>1, <2>3, AddItemTargets
  <2> QED BY <2>1, <2>2, <2>4
<1>7. N \in Good
  <2> HIDE DEF Good
  <2>1. 0..N \subseteq Good
    BY <1>1, <1>5, <1>6, InductionUpTo
  <2> QED BY <1>1, <2>1
<1> QED BY <1>3, <1>7

(* What the plan makes of a build's edits: targets of distinct keys, and   *)
(* under each the edits of its key, in build order.                        *)
LEMMA TargetsOfEdits ==
  ASSUME NEW items, AreItems(items)
  PROVE  LET targets == TargetsOf(items)
         IN  /\ IsSequence(targets)
             /\ \A j \in 1..Len(targets) :
                  /\ targets[j].key \in DOMAIN Internal
                  /\ targets[j].items = Those(items, OfKey(items, targets[j].key))
                  /\ AreItems(targets[j].items) /\ targets[j].items # << >>
                  /\ \A it \in Range(targets[j].items) : it \in Range(items) /\ KeyOf[it.source] = targets[j].key
             /\ \A j, k \in 1..Len(targets) : targets[j].key = targets[k].key => j = k
<1> DEFINE targets == TargetsOf(items)
<1>1. Targeted(targets, items, Len(items))
  BY TargetsAreTargeted
<1> HIDE DEF targets
<1>2. /\ targets \in Seq(Target(items))
      /\ \A j \in 1..Len(targets) :
           targets[j].items = Upto(items, targets[j].key, Len(items)) /\ targets[j].items # << >>
      /\ \A j, k \in 1..Len(targets) : targets[j].key = targets[k].key => j = k
  BY <1>1 DEF Targeted
<1>3. IsSequence(targets)
  BY <1>2, SequenceOfMembers
<1>4. \A j \in 1..Len(targets) : targets[j].key \in DOMAIN Internal
  <2>1. \A j \in 1..Len(targets) : targets[j] \in Target(items)
    BY <1>2, MembersTyped, Zenon
  <2> QED BY <2>1 DEF Target
<1>5. ASSUME NEW j \in 1..Len(targets)
      PROVE  /\ targets[j].items = Those(items, OfKey(items, targets[j].key))
             /\ AreItems(targets[j].items)
             /\ \A it \in Range(targets[j].items) : it \in Range(items) /\ KeyOf[it.source] = targets[j].key
  <2> DEFINE key == targets[j].key
      S == OfKey(items, key)
  <2>1. targets[j].items = Those(items, S)
    BY <1>2, UptoSteps
  <2>2. IsSequence(Those(items, S)) /\ Range(Those(items, S)) \subseteq Range(items) \cap S
    BY ThoseMembers DEF AreItems
  <2>3. \A it \in S : KeyOf[it.source] = key
    BY DEF OfKey
  <2> HIDE DEF S
  <2>4. AreItems(targets[j].items)
    BY <2>1, <2>2 DEF AreItems
  <2> QED BY <2>1, <2>2, <2>3, <2>4 DEF S
<1>6. /\ IsSequence(targets)
      /\ \A j \in 1..Len(targets) :
           /\ targets[j].key \in DOMAIN Internal
           /\ targets[j].items = Those(items, OfKey(items, targets[j].key))
           /\ AreItems(targets[j].items) /\ targets[j].items # << >>
           /\ \A it \in Range(targets[j].items) : it \in Range(items) /\ KeyOf[it.source] = targets[j].key
      /\ \A j, k \in 1..Len(targets) : targets[j].key = targets[k].key => j = k
  BY <1>2, <1>3, <1>4, <1>5
<1> QED BY <1>6 DEF targets

(***************************************************************************)
(* The audit works on sequences, and its fix on whole numbers.             *)
(***************************************************************************)
LEMMA FewBlocks ==
  ASSUME NEW lines, NEW i, NEW entry
  PROVE  IsSequence(ItemBlock(lines, i, entry)) /\ IsSequence(SimpleBlock(lines, i, entry))
<1>1. IsSequence(<< >>)
  BY EmptySequence
<1>2. \A b : IsSequence(<<b>>)
  BY OneEvent
<1>3. ItemBlock(lines, i, entry) = << >> \/ \E b : ItemBlock(lines, i, entry) = <<b>>
  BY Zenon DEF ItemBlock
<1>4. SimpleBlock(lines, i, entry) = << >> \/ \E b : SimpleBlock(lines, i, entry) = <<b>>
  BY Zenon DEF SimpleBlock
<1> QED BY <1>1, <1>2, <1>3, <1>4, Zenon

LEMMA LastIs ==
  ASSUME NEW lines, IsSequence(lines), NEW from \in 1..Len(lines)
  PROVE  CloseIndex(lines, from) - from \in Nat
<1> DEFINE c == CloseIndex(lines, from)
    L == Len(lines)
<1>1. L \in Nat
  BY SequenceIs
<1>2. from \in Int /\ from <= L
  BY <1>1
<1>3. c \in from..L
  BY <1>2, CloseIndexInt
<1> HIDE DEF c, L
<1>4. c - from \in Nat
  BY <1>1, <1>2, <1>3
<1> QED BY <1>4 DEF c

(* Item after item.                                                        *)
ReadingItems(f, n, lines, from, entry) ==
  /\ f = [i \in 0..n |-> f[i]]
  /\ f[0] = [next |-> from + 1, out |-> << >>]
  /\ \A i \in 1..n : f[i] = ReadItem(f[i - 1], lines, from + i, entry)
LEMMA ReadingItemsIs ==
  ASSUME NEW lines, NEW from, NEW entry, CloseIndex(lines, from) - from \in Nat
  PROVE  \E f : ReadingItems(f, (CloseIndex(lines, from) - from), lines, from, entry)
                /\ ItemBlocks(lines, from, entry) = f[CloseIndex(lines, from) - from].out
<1> DEFINE N == (CloseIndex(lines, from) - from)
    Base == [next |-> from + 1, out |-> << >>]
    Step(s, i) == ReadItem(s, lines, from + i, entry)
    Recursive(f) == f = [i \in 0..N |-> IF i = 0 THEN Base ELSE Step(f[i - 1], i)]
    Steps(f, n) == f = [i \in 0..n |-> f[i]] /\ f[0] = Base /\ \A i \in 1..n : f[i] = Step(f[i - 1], i)
    Has == {n \in 0..N : \E f : Steps(f, n)}
    H == CHOOSE f : Recursive(f)
<1>1. N \in Nat
  OBVIOUS
<1>2. ItemBlocks(lines, from, entry) = H[N].out
  BY Zenon DEF ItemBlocks
<1>3. \A f : Steps(f, N) <=> ReadingItems(f, N, lines, from, entry)
  BY Zenon DEF ReadingItems
<1> HIDE DEF Base, Step, N
<1>4. 0 \in Has
  <2>1. PICK g : Begins(g, Base)
    BY Beginning
  <2> QED BY <1>1, <2>1 DEF Begins
<1>5. ASSUME NEW n \in 0..(N - 1), n \in Has PROVE n + 1 \in Has
  <2>1. /\ n \in Nat /\ n + 1 \in 0..N /\ n \in 0..n /\ 0 \in 0..n /\ (n + 1) - 1 = n
        /\ \A i \in 1..(n + 1) : i # n + 1 => i \in 1..n /\ i \in 0..n /\ i - 1 \in 0..n
    BY <1>1
  <2>2. PICK f : Steps(f, n)
    BY <1>5
  <2>3. PICK g : Extends(g, f, n, Step(f[n], n + 1))
    BY <2>1, Extension
  <2>4. /\ g = [i \in 0..(n + 1) |-> g[i]] /\ g[n + 1] = Step(f[n], n + 1)
        /\ \A i \in 0..n : g[i] = f[i]
    BY <2>3 DEF Extends
  <2>5. ASSUME NEW i \in 1..(n + 1) PROVE g[i] = Step(g[i - 1], i)
    <3>1. CASE i = n + 1
      BY <2>1, <2>4, <3>1
    <3>2. CASE i # n + 1
      <4>1. f[i] = Step(f[i - 1], i)
        BY <2>1, <2>2, <3>2
      <4> QED BY <2>1, <2>4, <3>2, <4>1
    <3> QED BY <3>1, <3>2
  <2>6. Steps(g, n + 1)
    BY <2>1, <2>2, <2>4, <2>5
  <2> HIDE DEF Steps
  <2> QED BY <2>1, <2>6
<1>6. \E f : Steps(f, N)
  <2> HIDE DEF Has
  <2>1. N \in Has
    BY <1>1, <1>4, <1>5, InductionUpTo
  <2> QED BY <2>1 DEF Has
<1>7. ASSUME NEW f PROVE Recursive(f) <=> Steps(f, N)
  <2> DEFINE F == [i \in 0..N |-> IF i = 0 THEN Base ELSE Step(f[i - 1], i)]
  <2>1. /\ \A i \in 0..N : F[i] = IF i = 0 THEN Base ELSE Step(f[i - 1], i)
        /\ F = [i \in 0..N |-> F[i]] /\ (Recursive(f) <=> f = F)
    OBVIOUS
  <2> HIDE DEF F, Recursive
  <2>2. 0 \in 0..N /\ \A i \in 0..N : i = 0 \/ i \in 1..N
    BY <1>1
  <2>3. \A i \in 1..N : i \in 0..N /\ i # 0
    OBVIOUS
  <2> QED BY <2>1, <2>2, <2>3
<1>8. Recursive(H)
  <2> HIDE DEF Recursive, Steps
  <2> QED BY <1>6, <1>7, Zenon DEF H
<1> HIDE DEF H, Recursive, Steps
<1> QED BY <1>2, <1>3, <1>7, <1>8, Zenon DEF N

LEMMA ItemBlocksSequence ==
  ASSUME NEW lines, IsSequence(lines), NEW from \in 1..Len(lines), NEW entry
  PROVE  IsSequence(ItemBlocks(lines, from, entry))
<1> DEFINE N == CloseIndex(lines, from) - from
    State(s) == DOMAIN s = {"next", "out"} /\ IsSequence(s.out)
<1>1. N \in Nat
  BY LastIs
<1>2. PICK f : ReadingItems(f, N, lines, from, entry) /\ ItemBlocks(lines, from, entry) = f[N].out
  BY <1>1, ReadingItemsIs, Zenon
<1>3. /\ f[0] = [next |-> from + 1, out |-> << >>]
      /\ \A i \in 1..N : f[i] = ReadItem(f[i - 1], lines, from + i, entry)
  BY <1>2 DEF ReadingItems
<1> HIDE DEF N
<1> DEFINE Good == {n \in 0..N : State(f[n])}
<1>4. 0 \in Good
  BY <1>1, <1>3, EmptySequence
<1>5. ASSUME NEW n \in 0..(N - 1), n \in Good PROVE n + 1 \in Good
  <2> DEFINE s == f[n]
      t == f[n + 1]
      j == from + (n + 1)
      more == s.out \o ItemBlock(lines, j, entry)
  <2>1. n + 1 \in 1..N /\ n + 1 \in 0..N /\ (n + 1) - 1 = n
    BY <1>1
  <2>2. State(s) /\ t = ReadItem(s, lines, j, entry)
    BY <1>3, <1>5, <2>1
  <2> HIDE DEF t, s, j
  <2>3. IsSequence(more)
    BY <2>2, FewBlocks, MembersOfConcat
  <2> HIDE DEF more
  <2>4. t = s \/ t = [next |-> CloseIndex(lines, j) + 1, out |-> more]
    BY <2>2 DEF ReadItem, more
  <2>5. State(t)
    BY <2>2, <2>3, <2>4
  <2> HIDE DEF State
  <2> QED BY <2>1, <2>5 DEF t
<1> HIDE DEF Good
<1>6. N \in Nat
  BY <1>1 DEF N
<1> HIDE DEF N
<1>7. 0..N \subseteq Good
  BY <1>4, <1>5, <1>6, InductionUpTo, Zenon
<1>8. N \in Good
  BY <1>6, <1>7
<1> QED BY <1>2, <1>8 DEF Good, N

(* Line after line.                                                        *)
ReadingLines(f, n, lines) ==
  /\ f = [i \in 0..n |-> f[i]]
  /\ f[0] = [next |-> 1, ids |-> {}, out |-> << >>]
  /\ \A i \in 1..n : f[i] = ReadLine(f[i - 1], lines, i)
LEMMA ReadingLinesIs ==
  ASSUME NEW lines, IsSequence(lines)
  PROVE  \E f : ReadingLines(f, Len(lines), lines) /\ Parse(lines) = f[Len(lines)].out
<1> DEFINE N == Len(lines)
    Base == [next |-> 1, ids |-> {}, out |-> << >>]
    Step(s, i) == ReadLine(s, lines, i)
    Recursive(f) == f = [i \in 0..N |-> IF i = 0 THEN Base ELSE Step(f[i - 1], i)]
    Steps(f, n) == f = [i \in 0..n |-> f[i]] /\ f[0] = Base /\ \A i \in 1..n : f[i] = Step(f[i - 1], i)
    Has == {n \in 0..N : \E f : Steps(f, n)}
    H == CHOOSE f : Recursive(f)
<1>1. N \in Nat
  BY SequenceIs
<1>2. Parse(lines) = H[N].out
  BY Zenon DEF Parse
<1>3. \A f : Steps(f, N) <=> ReadingLines(f, N, lines)
  BY Zenon DEF ReadingLines
<1> HIDE DEF Base, Step, N
<1>4. 0 \in Has
  <2>1. PICK g : Begins(g, Base)
    BY Beginning
  <2> QED BY <1>1, <2>1 DEF Begins
<1>5. ASSUME NEW n \in 0..(N - 1), n \in Has PROVE n + 1 \in Has
  <2>1. /\ n \in Nat /\ n + 1 \in 0..N /\ n \in 0..n /\ 0 \in 0..n /\ (n + 1) - 1 = n
        /\ \A i \in 1..(n + 1) : i # n + 1 => i \in 1..n /\ i \in 0..n /\ i - 1 \in 0..n
    BY <1>1
  <2>2. PICK f : Steps(f, n)
    BY <1>5
  <2>3. PICK g : Extends(g, f, n, Step(f[n], n + 1))
    BY <2>1, Extension
  <2>4. /\ g = [i \in 0..(n + 1) |-> g[i]] /\ g[n + 1] = Step(f[n], n + 1)
        /\ \A i \in 0..n : g[i] = f[i]
    BY <2>3 DEF Extends
  <2>5. ASSUME NEW i \in 1..(n + 1) PROVE g[i] = Step(g[i - 1], i)
    <3>1. CASE i = n + 1
      BY <2>1, <2>4, <3>1
    <3>2. CASE i # n + 1
      <4>1. f[i] = Step(f[i - 1], i)
        BY <2>1, <2>2, <3>2
      <4> QED BY <2>1, <2>4, <3>2, <4>1
    <3> QED BY <3>1, <3>2
  <2>6. Steps(g, n + 1)
    BY <2>1, <2>2, <2>4, <2>5
  <2> HIDE DEF Steps
  <2> QED BY <2>1, <2>6
<1>6. \E f : Steps(f, N)
  <2> HIDE DEF Has
  <2>1. N \in Has
    BY <1>1, <1>4, <1>5, InductionUpTo
  <2> QED BY <2>1 DEF Has
<1>7. ASSUME NEW f PROVE Recursive(f) <=> Steps(f, N)
  <2> DEFINE F == [i \in 0..N |-> IF i = 0 THEN Base ELSE Step(f[i - 1], i)]
  <2>1. /\ \A i \in 0..N : F[i] = IF i = 0 THEN Base ELSE Step(f[i - 1], i)
        /\ F = [i \in 0..N |-> F[i]] /\ (Recursive(f) <=> f = F)
    OBVIOUS
  <2> HIDE DEF F, Recursive
  <2>2. 0 \in 0..N /\ \A i \in 0..N : i = 0 \/ i \in 1..N
    BY <1>1
  <2>3. \A i \in 1..N : i \in 0..N /\ i # 0
    OBVIOUS
  <2> QED BY <2>1, <2>2, <2>3
<1>8. Recursive(H)
  <2> HIDE DEF Recursive, Steps
  <2> QED BY <1>6, <1>7, Zenon DEF H
<1> HIDE DEF H, Recursive, Steps
<1> QED BY <1>2, <1>3, <1>7, <1>8, Zenon DEF N

LEMMA ParseSequence ==
  ASSUME NEW lines, IsSequence(lines)
  PROVE  IsSequence(Parse(lines))
<1> DEFINE N == Len(lines)
    State(s) == DOMAIN s = {"next", "ids", "out"} /\ IsSequence(s.out)
<1>1. N \in Nat
  BY SequenceIs
<1>2. PICK f : ReadingLines(f, N, lines) /\ Parse(lines) = f[N].out
  BY ReadingLinesIs, Zenon
<1>3. /\ f[0] = [next |-> 1, ids |-> {}, out |-> << >>]
      /\ \A i \in 1..N : f[i] = ReadLine(f[i - 1], lines, i)
  BY <1>2 DEF ReadingLines
<1>a. \A i \in 1..N : \A entry : IsSequence(ItemBlocks(lines, i, entry)) /\ IsSequence(SimpleBlock(lines, i, entry))
  BY ItemBlocksSequence, FewBlocks
<1> HIDE DEF N
<1> DEFINE Good == {n \in 0..N : State(f[n])}
<1>4. 0 \in Good
  BY <1>1, <1>3, EmptySequence
<1>5. ASSUME NEW n \in 0..(N - 1), n \in Good PROVE n + 1 \in Good
  <2> DEFINE s == f[n]
      t == f[n + 1]
      i == n + 1
      entry == EnclosingId(lines, s.ids, i)
      read == IF lines[i].name = MultiItems THEN ItemBlocks(lines, i, entry) ELSE SimpleBlock(lines, i, entry)
      more == s.out \o read
      ids == s.ids \cup {i}
  <2>1. i \in 1..N /\ i \in 0..N /\ i - 1 = n
    BY <1>1
  <2>2. State(s) /\ t = ReadLine(s, lines, i)
    BY <1>3, <1>5, <2>1
  <2>3. IsSequence(read)
    BY <1>a, <2>1
  <2>4. t = s \/ t = [s EXCEPT !.ids = ids] \/ t = [next |-> CloseIndex(lines, i) + 1, ids |-> s.ids, out |-> more]
    BY <2>2, Zenon DEF ReadLine
  <2> HIDE DEF t, s, read, ids, i
  <2>5. IsSequence(more)
    BY <2>2, <2>3, MembersOfConcat
  <2> HIDE DEF more
  <2>6. State(t)
    BY <2>2, <2>4, <2>5
  <2> HIDE DEF State
  <2> QED BY <2>1, <2>6 DEF t, i
<1> HIDE DEF Good
<1>6. N \in Nat
  BY <1>1 DEF N
<1> HIDE DEF N
<1>7. 0..N \subseteq Good
  BY <1>4, <1>5, <1>6, InductionUpTo, Zenon
<1>8. N \in Good
  BY <1>6, <1>7
<1> QED BY <1>2, <1>8 DEF Good, N

(* A flag says who moved it.                                               *)
IsFlag(f) == "by" \in DOMAIN f /\ IsSequence(f.by)
AreFlags(flags) == IsSequence(flags) /\ \A f \in Range(flags) : IsFlag(f)

LEMMA CompareFlags ==
  ASSUME NEW stock, NEW built, IsSequence(built), NEW limits
  PROVE  AreFlags(Compare(stock, built, limits))
<1> DEFINE pairs == Pair(stock, built)
    N == Len(built)
    all == [i \in 1..N |-> i]
    flagged == {i \in 1..N : pairs[i] # 0 /\ Judge(stock[pairs[i]], built[i], limits) # {}}
    order == Those(all, flagged)
    flags == Compare(stock, built, limits)
<1>1. N \in Nat
  BY SequenceIs
<1>2. IsSequence(all)
  <2>1. DOMAIN all = 1..N /\ all = [i \in 1..N |-> all[i]]
    OBVIOUS
  <2> HIDE DEF all
  <2> QED BY <1>1, <2>1, FunctionSequence
<1> HIDE DEF all
<1>3. Len(order) \in Nat
  <2>1. IsSequence(order)
    BY <1>2, ThoseMembers
  <2> HIDE DEF order
  <2> QED BY <2>1, SequenceIs
<1>4. \E g : flags = [k \in 1..Len(order) |-> g[k]] /\ \A k \in 1..Len(order) : IsFlag(g[k])
  <2> DEFINE Flag(i) ==
          [entry |-> built[i].entry, item |-> built[i].item, category |-> built[i].category,
           stock |-> stock[pairs[i]], built |-> built[i], reasons |-> Judge(stock[pairs[i]], built[i], limits),
           at |-> i, stockAt |-> pairs[i], by |-> << >>]
      g == [k \in 1..Len(order) |-> Flag(order[k])]
  <2>1. flags = g
    BY Zenon DEF Compare, all
  <2>2. \A i : IsFlag(Flag(i))
    <3> SUFFICES ASSUME NEW i PROVE IsFlag(Flag(i))
      OBVIOUS
    <3>1. "by" \in DOMAIN Flag(i) /\ Flag(i).by = << >>
      OBVIOUS
    <3> HIDE DEF Flag
    <3> QED BY <3>1, EmptySequence DEF IsFlag
  <2> HIDE DEF Flag
  <2>3. g = [k \in 1..Len(order) |-> g[k]] /\ \A k \in 1..Len(order) : IsFlag(g[k])
    BY <2>2
  <2> HIDE DEF g
  <2> QED BY <2>1, <2>3
<1> HIDE DEF order, flags
<1>5. DOMAIN flags = 1..Len(order) /\ flags = [k \in 1..Len(order) |-> flags[k]]
      /\ \A k \in 1..Len(order) : IsFlag(flags[k])
  BY <1>4
<1>6. IsSequence(flags) /\ Range(flags) = {flags[k] : k \in 1..Len(order)}
  BY <1>3, <1>5, FunctionSequence
<1>7. AreFlags(flags)
  BY <1>5, <1>6 DEF AreFlags
<1> QED BY <1>7 DEF flags

LEMMA ObserveFlags ==
  ASSUME NEW s, DOMAIN s = {"flags", "last", "lines"}, AreFlags(s.flags), NEW mod, NEW next, NEW now,
         NEW t, t = Observe(s, mod, next, now)
  PROVE  DOMAIN t = {"flags", "last", "lines"} /\ AreFlags(t.flags)
<1> DEFINE N == Len(s.flags)
    Moved(i) == <<now[i].min, now[i].max>> # <<s.last[i].min, s.last[i].max>>
    By(i) == [mod |-> mod, factor |-> RatioOf(s.last[i], now[i]), max |-> now[i].max]
    flags == [i \in 1..N |-> IF Moved(i) THEN [s.flags[i] EXCEPT !.by = Append(@, By(i))] ELSE s.flags[i]]
    last == [i \in 1..N |-> IF Moved(i) THEN now[i] ELSE s.last[i]]
<1>1. N \in Nat /\ Range(s.flags) = {s.flags[i] : i \in 1..N}
  BY SequenceIs DEF AreFlags
<1>2. t = IF now = << >> THEN [s EXCEPT !.lines = next] ELSE [flags |-> flags, last |-> last, lines |-> next]
  BY Zenon DEF Observe
<1>3. DOMAIN flags = 1..N /\ flags = [i \in 1..N |-> flags[i]]
  OBVIOUS
<1>4. ASSUME NEW i \in 1..N PROVE IsFlag(flags[i])
  <2> DEFINE f == s.flags[i]
      by == Append(f.by, By(i))
      new == [f EXCEPT !.by = by]
  <2>1. IsFlag(f)
    BY <1>1 DEF AreFlags
  <2>2. flags[i] = f \/ flags[i] = new
    BY Zenon
  <2> HIDE DEF f, flags, By
  <2>3. IsSequence(by)
    BY <2>1, MembersOfAppend DEF IsFlag
  <2> HIDE DEF by
  <2>4. DOMAIN new = DOMAIN f /\ new.by = by
    BY <2>1 DEF IsFlag
  <2> HIDE DEF new
  <2>5. IsFlag(new)
    BY <2>1, <2>3, <2>4 DEF IsFlag
  <2> QED BY <2>1, <2>2, <2>5
<1> HIDE DEF flags, last
<1>5. IsSequence(flags) /\ Range(flags) = {flags[i] : i \in 1..N}
  BY <1>1, <1>3, FunctionSequence
<1>6. AreFlags(flags)
  BY <1>4, <1>5 DEF AreFlags
<1>7. CASE now = << >>
  BY <1>2, <1>7
<1>8. CASE now # << >>
  <2>1. t = [flags |-> flags, last |-> last, lines |-> next]
    BY <1>2, <1>8
  <2> QED BY <1>6, <2>1
<1> QED BY <1>7, <1>8

(* No flag is attributed when there is none. *)
FlagsOf(flags, s) == IF flags = << >> THEN << >> ELSE s.flags

(* Edit after edit.                                                        *)
Watching(f, n, flags, stock, total, lines, items) ==
  /\ f = [i \in 0..n |-> f[i]]
  /\ f[0] = [flags |-> flags, last |-> [i \in 1..Len(flags) |-> flags[i].stock], lines |-> lines]
  /\ \A i \in 1..n : f[i] = Watch(f[i - 1], flags, stock, total, lines, items[i])
LEMMA WatchingIs ==
  ASSUME NEW flags, NEW stock, NEW total, NEW lines, NEW items, IsSequence(items)
  PROVE  \E f : Watching(f, Len(items), flags, stock, total, lines, items)
                /\ Attribute(flags, stock, total, lines, items) = FlagsOf(flags, f[Len(items)])
<1> DEFINE N == Len(items)
    Base == [flags |-> flags, last |-> [i \in 1..Len(flags) |-> flags[i].stock], lines |-> lines]
    Step(s, i) == Watch(s, flags, stock, total, lines, items[i])
    Recursive(f) == f = [i \in 0..N |-> IF i = 0 THEN Base ELSE Step(f[i - 1], i)]
    Steps(f, n) == f = [i \in 0..n |-> f[i]] /\ f[0] = Base /\ \A i \in 1..n : f[i] = Step(f[i - 1], i)
    Has == {n \in 0..N : \E f : Steps(f, n)}
    H == CHOOSE f : Recursive(f)
<1>1. N \in Nat
  BY SequenceIs
<1>2. Attribute(flags, stock, total, lines, items) = FlagsOf(flags, H[N])
  BY Zenon DEF Attribute, FlagsOf
<1>3. \A f : Steps(f, N) <=> Watching(f, N, flags, stock, total, lines, items)
  BY Zenon DEF Watching
<1> HIDE DEF Base, Step, N
<1>4. 0 \in Has
  <2>1. PICK g : Begins(g, Base)
    BY Beginning
  <2> QED BY <1>1, <2>1 DEF Begins
<1>5. ASSUME NEW n \in 0..(N - 1), n \in Has PROVE n + 1 \in Has
  <2>1. /\ n \in Nat /\ n + 1 \in 0..N /\ n \in 0..n /\ 0 \in 0..n /\ (n + 1) - 1 = n
        /\ \A i \in 1..(n + 1) : i # n + 1 => i \in 1..n /\ i \in 0..n /\ i - 1 \in 0..n
    BY <1>1
  <2>2. PICK f : Steps(f, n)
    BY <1>5
  <2>3. PICK g : Extends(g, f, n, Step(f[n], n + 1))
    BY <2>1, Extension
  <2>4. /\ g = [i \in 0..(n + 1) |-> g[i]] /\ g[n + 1] = Step(f[n], n + 1)
        /\ \A i \in 0..n : g[i] = f[i]
    BY <2>3 DEF Extends
  <2>5. ASSUME NEW i \in 1..(n + 1) PROVE g[i] = Step(g[i - 1], i)
    <3>1. CASE i = n + 1
      BY <2>1, <2>4, <3>1
    <3>2. CASE i # n + 1
      <4>1. f[i] = Step(f[i - 1], i)
        BY <2>1, <2>2, <3>2
      <4> QED BY <2>1, <2>4, <3>2, <4>1
    <3> QED BY <3>1, <3>2
  <2>6. Steps(g, n + 1)
    BY <2>1, <2>2, <2>4, <2>5
  <2> HIDE DEF Steps
  <2> QED BY <2>1, <2>6
<1>6. \E f : Steps(f, N)
  <2> HIDE DEF Has
  <2>1. N \in Has
    BY <1>1, <1>4, <1>5, InductionUpTo
  <2> QED BY <2>1 DEF Has
<1>7. ASSUME NEW f PROVE Recursive(f) <=> Steps(f, N)
  <2> DEFINE F == [i \in 0..N |-> IF i = 0 THEN Base ELSE Step(f[i - 1], i)]
  <2>1. /\ \A i \in 0..N : F[i] = IF i = 0 THEN Base ELSE Step(f[i - 1], i)
        /\ F = [i \in 0..N |-> F[i]] /\ (Recursive(f) <=> f = F)
    OBVIOUS
  <2> HIDE DEF F, Recursive
  <2>2. 0 \in 0..N /\ \A i \in 0..N : i = 0 \/ i \in 1..N
    BY <1>1
  <2>3. \A i \in 1..N : i \in 0..N /\ i # 0
    OBVIOUS
  <2> QED BY <2>1, <2>2, <2>3
<1>8. Recursive(H)
  <2> HIDE DEF Recursive, Steps
  <2> QED BY <1>6, <1>7, Zenon DEF H
<1> HIDE DEF H, Recursive, Steps
<1> QED BY <1>2, <1>3, <1>7, <1>8, Zenon DEF N

LEMMA AttributeFlags ==
  ASSUME NEW flags, AreFlags(flags), NEW stock, NEW total, NEW lines, NEW items, IsSequence(items)
  PROVE  AreFlags(Attribute(flags, stock, total, lines, items))
<1> DEFINE N == Len(items)
    State(s) == DOMAIN s = {"flags", "last", "lines"} /\ AreFlags(s.flags)
<1>1. N \in Nat
  BY SequenceIs
<1>2. PICK f : Watching(f, N, flags, stock, total, lines, items)
               /\ Attribute(flags, stock, total, lines, items) = FlagsOf(flags, f[N])
  BY WatchingIs, Zenon
<1>3. /\ f[0] = [flags |-> flags, last |-> [i \in 1..Len(flags) |-> flags[i].stock], lines |-> lines]
      /\ \A i \in 1..N : f[i] = Watch(f[i - 1], flags, stock, total, lines, items[i])
  BY <1>2, Zenon DEF Watching
<1> HIDE DEF N
<1> DEFINE Good == {n \in 0..N : State(f[n])}
<1>4. 0 \in Good
  <2> DEFINE last == [i \in 1..Len(flags) |-> flags[i].stock]
  <2>1. f[0] = [flags |-> flags, last |-> last, lines |-> lines]
    BY <1>3
  <2> HIDE DEF last
  <2> QED BY <1>1, <2>1
<1>5. ASSUME NEW n \in 0..(N - 1), n \in Good PROVE n + 1 \in Good
  <2> DEFINE s == f[n]
      t == f[n + 1]
      it == items[n + 1]
      next == Apply(s.lines, it.block, it.mod).lines
      now == Read(flags, next, Len(lines), Len(stock), total)
  <2>1. n + 1 \in 1..N /\ n + 1 \in 0..N /\ (n + 1) - 1 = n
    BY <1>1
  <2>2. State(s)
    BY <1>5
  <2>3. t = Observe(s, it.mod, next, now)
    <3>1. t = Watch(s, flags, stock, total, lines, it)
      BY <1>3, <2>1
    <3> HIDE DEF t, s, it
    <3> QED BY <3>1, Zenon DEF Watch, After
  <2> HIDE DEF s, t, it, now, next
  <2>4. State(t)
    BY <2>2, <2>3, ObserveFlags
  <2> HIDE DEF State
  <2> QED BY <2>1, <2>4 DEF t
<1> HIDE DEF Good
<1>6. N \in Good
  BY <1>1, <1>4, <1>5, InductionUpTo
<1>7. AreFlags(f[N].flags)
  BY <1>6 DEF Good
<1>8. AreFlags(<< >>)
  BY EmptySequence DEF AreFlags
<1> QED BY <1>2, <1>7, <1>8 DEF FlagsOf

LEMMA AuditTableFlags ==
  ASSUME NEW stock, NEW built, IsSequence(built), NEW lines, NEW items, IsSequence(items), NEW limits
  PROVE  AreFlags(AuditTable(stock, built, lines, items, limits))
BY CompareFlags, AttributeFlags DEF AuditTable

LEMMA PlaceFlags ==
  ASSUME NEW s, AreFlags(s), NEW f, IsFlag(f)
  PROVE  AreFlags(Place(s, f))
<1> DEFINE after == {g \in Range(s) : Worse(f, g)}
    a == Those(s, Range(s) \ after)
    b == Those(s, after)
<1>1. Place(s, f) = (a \o <<f>>) \o b
  BY Zenon DEF Place
<1>2. /\ IsSequence(a) /\ Range(a) \subseteq Range(s) \cap (Range(s) \ after)
      /\ IsSequence(b) /\ Range(b) \subseteq Range(s) \cap after
  BY ThoseMembers DEF AreFlags
<1> HIDE DEF a, b, after
<1>3. IsSequence(<<f>>) /\ Range(<<f>>) = {f}
  BY OneEvent
<1> DEFINE c == <<f>>
<1> HIDE DEF c
<1>4. IsSequence(a \o c) /\ Range(a \o c) = Range(a) \cup {f}
  BY <1>2, <1>3, MembersOfConcat DEF c
<1> DEFINE d == a \o c
<1> HIDE DEF d
<1>5. IsSequence(d \o b) /\ Range(d \o b) = Range(d) \cup Range(b)
  BY <1>2, <1>4, MembersOfConcat DEF d
<1>6. AreFlags(d \o b)
  BY <1>2, <1>4, <1>5 DEF AreFlags, d
<1> QED BY <1>1, <1>6 DEF c, d

(* Flag after flag, each in its place.                                     *)
Placing(f, n, flags) ==
  /\ f = [i \in 0..n |-> f[i]]
  /\ f[0] = << >>
  /\ \A i \in 1..n : f[i] = Place(f[i - 1], flags[i])
LEMMA PlacingIs ==
  ASSUME NEW flags, IsSequence(flags)
  PROVE  \E f : Placing(f, Len(flags), flags) /\ Sorted(flags) = f[Len(flags)]
<1> DEFINE N == Len(flags)
    Base == << >>
    Step(s, i) == Place(s, flags[i])
    Recursive(f) == f = [i \in 0..N |-> IF i = 0 THEN Base ELSE Step(f[i - 1], i)]
    Steps(f, n) == f = [i \in 0..n |-> f[i]] /\ f[0] = Base /\ \A i \in 1..n : f[i] = Step(f[i - 1], i)
    Has == {n \in 0..N : \E f : Steps(f, n)}
    H == CHOOSE f : Recursive(f)
<1>1. N \in Nat
  BY SequenceIs
<1>2. Sorted(flags) = H[N]
  BY Zenon DEF Sorted
<1>3. \A f : Steps(f, N) <=> Placing(f, N, flags)
  BY Zenon DEF Placing
<1> HIDE DEF Base, Step, N
<1>4. 0 \in Has
  <2>1. PICK g : Begins(g, Base)
    BY Beginning
  <2> QED BY <1>1, <2>1 DEF Begins
<1>5. ASSUME NEW n \in 0..(N - 1), n \in Has PROVE n + 1 \in Has
  <2>1. /\ n \in Nat /\ n + 1 \in 0..N /\ n \in 0..n /\ 0 \in 0..n /\ (n + 1) - 1 = n
        /\ \A i \in 1..(n + 1) : i # n + 1 => i \in 1..n /\ i \in 0..n /\ i - 1 \in 0..n
    BY <1>1
  <2>2. PICK f : Steps(f, n)
    BY <1>5
  <2>3. PICK g : Extends(g, f, n, Step(f[n], n + 1))
    BY <2>1, Extension
  <2>4. /\ g = [i \in 0..(n + 1) |-> g[i]] /\ g[n + 1] = Step(f[n], n + 1)
        /\ \A i \in 0..n : g[i] = f[i]
    BY <2>3 DEF Extends
  <2>5. ASSUME NEW i \in 1..(n + 1) PROVE g[i] = Step(g[i - 1], i)
    <3>1. CASE i = n + 1
      BY <2>1, <2>4, <3>1
    <3>2. CASE i # n + 1
      <4>1. f[i] = Step(f[i - 1], i)
        BY <2>1, <2>2, <3>2
      <4> QED BY <2>1, <2>4, <3>2, <4>1
    <3> QED BY <3>1, <3>2
  <2>6. Steps(g, n + 1)
    BY <2>1, <2>2, <2>4, <2>5
  <2> HIDE DEF Steps
  <2> QED BY <2>1, <2>6
<1>6. \E f : Steps(f, N)
  <2> HIDE DEF Has
  <2>1. N \in Has
    BY <1>1, <1>4, <1>5, InductionUpTo
  <2> QED BY <2>1 DEF Has
<1>7. ASSUME NEW f PROVE Recursive(f) <=> Steps(f, N)
  <2> DEFINE F == [i \in 0..N |-> IF i = 0 THEN Base ELSE Step(f[i - 1], i)]
  <2>1. /\ \A i \in 0..N : F[i] = IF i = 0 THEN Base ELSE Step(f[i - 1], i)
        /\ F = [i \in 0..N |-> F[i]] /\ (Recursive(f) <=> f = F)
    OBVIOUS
  <2> HIDE DEF F, Recursive
  <2>2. 0 \in 0..N /\ \A i \in 0..N : i = 0 \/ i \in 1..N
    BY <1>1
  <2>3. \A i \in 1..N : i \in 0..N /\ i # 0
    OBVIOUS
  <2> QED BY <2>1, <2>2, <2>3
<1>8. Recursive(H)
  <2> HIDE DEF Recursive, Steps
  <2> QED BY <1>6, <1>7, Zenon DEF H
<1> HIDE DEF H, Recursive, Steps
<1> QED BY <1>2, <1>3, <1>7, <1>8, Zenon DEF N

LEMMA SortedFlags ==
  ASSUME NEW flags, AreFlags(flags)
  PROVE  AreFlags(Sorted(flags))
<1> DEFINE N == Len(flags)
<1>1. N \in Nat /\ IsSequence(flags) /\ \A i \in 1..N : IsFlag(flags[i])
  BY SequenceIs DEF AreFlags
<1>2. PICK f : Placing(f, N, flags) /\ Sorted(flags) = f[N]
  BY <1>1, PlacingIs, Zenon
<1>3. f[0] = << >> /\ \A i \in 1..N : f[i] = Place(f[i - 1], flags[i])
  BY <1>2, Zenon DEF Placing
<1> HIDE DEF N
<1> DEFINE Good == {n \in 0..N : AreFlags(f[n])}
<1>4. 0 \in Good
  BY <1>1, <1>3, EmptySequence DEF AreFlags
<1>5. ASSUME NEW n \in 0..(N - 1), n \in Good PROVE n + 1 \in Good
  <2>1. n + 1 \in 1..N /\ n + 1 \in 0..N /\ (n + 1) - 1 = n
    BY <1>1
  <2>2. AreFlags(f[n]) /\ IsFlag(flags[n + 1]) /\ f[n + 1] = Place(f[n], flags[n + 1])
    BY <1>1, <1>3, <1>5, <2>1
  <2>3. AreFlags(f[n + 1])
    BY <2>2, PlaceFlags
  <2> QED BY <2>1, <2>3
<1> HIDE DEF Good
<1>6. 0..N \subseteq Good
  BY <1>1, <1>4, <1>5, InductionUpTo, Zenon
<1>7. N \in Good
  BY <1>1, <1>6
<1> QED BY <1>2, <1>7 DEF Good

(***************************************************************************)
(* The fix: its knobs are whole numbers, and it only lowers them.           *)
(***************************************************************************)
AreKnobs(knobs) == IsSequence(knobs) /\ \A k \in Range(knobs) : k.current \in Int /\ k.min \in Int

(* What a fix may make of the knobs: no higher than they are, and no lower *)
(* than they may be.                                                       *)
Between(knobs) ==
  {value \in [1..Len(knobs) -> Int] :
     \A i \in 1..Len(knobs) : value[i] = knobs[i].current \/ value[i] \in knobs[i].min..knobs[i].current}

LEMMA LowerBetween ==
  ASSUME NEW knobs, AreKnobs(knobs), NEW value \in Between(knobs), NEW flag, IsSequence(flag.by), NEW limits
  PROVE  Lower(value, flag, knobs, limits) \in Between(knobs)
<1> DEFINE need == Excess(flag, Predict(flag, knobs, value), limits)
    Knob(k) == KnobOf(knobs, flag.by[k].mod, flag.category)
    room == {k \in 1..Len(flag.by) : Knob(k) # 0 /\ value[Knob(k)] > knobs[Knob(k)].min}
    i == Knob(Max(room))
    S == {knobs[i].min} \cup {v \in knobs[i].min..value[i] : v * need[1] <= value[i] * need[2]}
    new == [value EXCEPT ![i] = Max(S)]
<1>1. Lower(value, flag, knobs, limits) = value \/ (room # {} /\ Lower(value, flag, knobs, limits) = new)
  BY Zenon DEF Lower
<1>2. room # {} => value[i] > knobs[i].min
  <2> SUFFICES ASSUME room # {} PROVE value[i] > knobs[i].min
    OBVIOUS
  <2> DEFINE R == {k \in 1..Len(flag.by) : Knob(k) # 0 /\ value[Knob(k)] > knobs[Knob(k)].min}
  <2>1. Len(flag.by) \in Nat
    BY SequenceIs
  <2>2. R = room
    OBVIOUS
  <2>3. 1 \in Int /\ Len(flag.by) \in Int /\ R \subseteq 1..Len(flag.by) /\ R # {}
    BY <2>1, <2>2
  <2> HIDE DEF R
  <2>4. Max(R) \in R
    BY <2>3, GreatestOf, Zenon
  <2> HIDE DEF Knob
  <2> QED BY <2>4 DEF R
<1>3. Len(knobs) \in Nat /\ \A k \in 1..Len(knobs) : knobs[k].min \in Int /\ knobs[k].current \in Int
  BY SequenceIs DEF AreKnobs
<1>4. ASSUME room # {} PROVE new \in Between(knobs)
  <2> DEFINE low == knobs[i].min
      high == value[i]
      m == Max(S)
  <2>1. value \in [1..Len(knobs) -> Int] /\ high > low
    BY <1>2, <1>4 DEF Between
  <2>2. CASE i \in 1..Len(knobs)
    <3>1. low \in Int /\ high \in Int /\ knobs[i].current \in Int
          /\ (high = knobs[i].current \/ high \in low..knobs[i].current)
      <4> HIDE DEF i
      <4> QED BY <1>3, <2>1, <2>2 DEF Between
    <3> HIDE DEF need, i
    <3>2. low \in S /\ S \subseteq low..high
      <4>1. low \in low..high
        BY <2>1, <3>1
      <4> QED BY <4>1
    <3>3. low \in Int /\ high \in Int /\ S \subseteq low..high /\ S # {}
      BY <3>1, <3>2
    <3> HIDE DEF S
    <3>4. m \in S
      BY <3>3, GreatestOf, Zenon
    <3>5. m \in low..high
      BY <3>3, <3>4, Zenon
    <3> HIDE DEF m
    <3>6. m \in Int /\ m \in low..knobs[i].current
      BY <3>1, <3>5
    <3>7. new = [value EXCEPT ![i] = m]
      BY DEF m
    <3> HIDE DEF new, low, high
    <3>8. new \in [1..Len(knobs) -> Int] /\ new[i] = m /\ \A k \in 1..Len(knobs) : k # i => new[k] = value[k]
      BY <2>1, <2>2, <3>6, <3>7
    <3> QED BY <3>6, <3>8 DEF Between, low
  <2>3. CASE i \notin 1..Len(knobs)
    <3> HIDE DEF i, S
    <3>1. new = value
      BY <2>1, <2>3
    <3> QED BY <3>1
  <2> QED BY <2>2, <2>3
<1> HIDE DEF room, new
<1> QED BY <1>1, <1>4, Zenon

(* Flag after flag.                                                        *)
Lowering(f, n, value, flags, knobs, limits) ==
  /\ f = [i \in 0..n |-> f[i]]
  /\ f[0] = value
  /\ \A i \in 1..n : f[i] = Lower(f[i - 1], flags[i], knobs, limits)
LEMMA LoweringIs ==
  ASSUME NEW value, NEW flags, NEW knobs, NEW limits, Len(flags) \in Nat
  PROVE  \E f : Lowering(f, Len(flags), value, flags, knobs, limits)
                /\ LowerAll(value, flags, knobs, limits) = f[Len(flags)]
<1> DEFINE N == Len(flags)
    Base == value
    Step(s, i) == Lower(s, flags[i], knobs, limits)
    Recursive(f) == f = [i \in 0..N |-> IF i = 0 THEN Base ELSE Step(f[i - 1], i)]
    Steps(f, n) == f = [i \in 0..n |-> f[i]] /\ f[0] = Base /\ \A i \in 1..n : f[i] = Step(f[i - 1], i)
    Has == {n \in 0..N : \E f : Steps(f, n)}
    H == CHOOSE f : Recursive(f)
<1>1. N \in Nat
  OBVIOUS
<1>2. LowerAll(value, flags, knobs, limits) = H[N]
  BY Zenon DEF LowerAll
<1>3. \A f : Steps(f, N) <=> Lowering(f, N, value, flags, knobs, limits)
  BY Zenon DEF Lowering
<1> HIDE DEF Base, Step, N
<1>4. 0 \in Has
  <2>1. PICK g : Begins(g, Base)
    BY Beginning
  <2> QED BY <1>1, <2>1 DEF Begins
<1>5. ASSUME NEW n \in 0..(N - 1), n \in Has PROVE n + 1 \in Has
  <2>1. /\ n \in Nat /\ n + 1 \in 0..N /\ n \in 0..n /\ 0 \in 0..n /\ (n + 1) - 1 = n
        /\ \A i \in 1..(n + 1) : i # n + 1 => i \in 1..n /\ i \in 0..n /\ i - 1 \in 0..n
    BY <1>1
  <2>2. PICK f : Steps(f, n)
    BY <1>5
  <2>3. PICK g : Extends(g, f, n, Step(f[n], n + 1))
    BY <2>1, Extension
  <2>4. /\ g = [i \in 0..(n + 1) |-> g[i]] /\ g[n + 1] = Step(f[n], n + 1)
        /\ \A i \in 0..n : g[i] = f[i]
    BY <2>3 DEF Extends
  <2>5. ASSUME NEW i \in 1..(n + 1) PROVE g[i] = Step(g[i - 1], i)
    <3>1. CASE i = n + 1
      BY <2>1, <2>4, <3>1
    <3>2. CASE i # n + 1
      <4>1. f[i] = Step(f[i - 1], i)
        BY <2>1, <2>2, <3>2
      <4> QED BY <2>1, <2>4, <3>2, <4>1
    <3> QED BY <3>1, <3>2
  <2>6. Steps(g, n + 1)
    BY <2>1, <2>2, <2>4, <2>5
  <2> HIDE DEF Steps
  <2> QED BY <2>1, <2>6
<1>6. \E f : Steps(f, N)
  <2> HIDE DEF Has
  <2>1. 0..N \subseteq Has
    BY <1>1, <1>4, <1>5, InductionUpTo, Zenon
  <2>2. N \in Has
    BY <1>1, <2>1
  <2> QED BY <2>2 DEF Has
<1>7. ASSUME NEW f PROVE Recursive(f) <=> Steps(f, N)
  <2> DEFINE F == [i \in 0..N |-> IF i = 0 THEN Base ELSE Step(f[i - 1], i)]
  <2>1. /\ \A i \in 0..N : F[i] = IF i = 0 THEN Base ELSE Step(f[i - 1], i)
        /\ F = [i \in 0..N |-> F[i]] /\ (Recursive(f) <=> f = F)
    OBVIOUS
  <2> HIDE DEF F, Recursive
  <2>2. 0 \in 0..N /\ \A i \in 0..N : i = 0 \/ i \in 1..N
    BY <1>1
  <2>3. \A i \in 1..N : i \in 0..N /\ i # 0
    OBVIOUS
  <2> QED BY <2>1, <2>2, <2>3
<1>8. Recursive(H)
  <2> HIDE DEF Recursive, Steps
  <2> QED BY <1>6, <1>7, Zenon DEF H
<1> HIDE DEF H, Recursive, Steps
<1> QED BY <1>2, <1>3, <1>7, <1>8, Zenon DEF N

LEMMA LowerAllBetween ==
  ASSUME NEW knobs, AreKnobs(knobs), NEW value \in Between(knobs), NEW flags, AreFlags(flags), NEW limits
  PROVE  LowerAll(value, flags, knobs, limits) \in Between(knobs)
<1> DEFINE N == Len(flags)
<1>1. N \in Nat /\ Len(flags) \in Nat
  BY SequenceIs DEF AreFlags
<1>a. \A i \in 1..N : IsFlag(flags[i])
  BY SequenceIs DEF AreFlags
<1>2. PICK f : Lowering(f, N, value, flags, knobs, limits) /\ LowerAll(value, flags, knobs, limits) = f[N]
  BY <1>1, LoweringIs, Zenon
<1>3. f[0] = value /\ \A i \in 1..N : f[i] = Lower(f[i - 1], flags[i], knobs, limits)
  BY <1>2, Zenon DEF Lowering
<1> HIDE DEF N
<1> DEFINE Good == {n \in 0..N : f[n] \in Between(knobs)}
<1>4. 0 \in Good
  BY <1>1, <1>3
<1>5. ASSUME NEW n \in 0..(N - 1), n \in Good PROVE n + 1 \in Good
  <2>1. n + 1 \in 1..N /\ n + 1 \in 0..N /\ (n + 1) - 1 = n
    BY <1>1
  <2>2. f[n] \in Between(knobs) /\ f[n + 1] = Lower(f[n], flags[n + 1], knobs, limits)
    BY <1>3, <1>5, <2>1
  <2>a. IsSequence(flags[n + 1].by)
    BY <1>a, <2>1 DEF IsFlag
  <2>3. f[n + 1] \in Between(knobs)
    BY <2>2, <2>a, LowerBetween
  <2> QED BY <2>1, <2>3
<1> HIDE DEF Good
<1>6. 0..N \subseteq Good
  BY <1>1, <1>4, <1>5, InductionUpTo, Zenon
<1>7. N \in Good
  BY <1>1, <1>6
<1> QED BY <1>2, <1>7 DEF Good

(* Pass after pass.                                                        *)
Recommending(f, n, flags, limits, knobs) ==
  /\ f = [i \in 0..n |-> f[i]]
  /\ f[0] = [value |-> [k \in 1..Len(knobs) |-> knobs[k].current], done |-> FALSE]
  /\ \A i \in 1..n : f[i] = NextPass(f[i - 1], flags, knobs, limits)
LEMMA RecommendingIs ==
  ASSUME NEW flags, NEW limits, NEW knobs
  PROVE  \E f : Recommending(f, Passes, flags, limits, knobs) /\ Recommend(flags, limits, knobs) = f[Passes].value
<1> DEFINE N == Passes
    Base == [value |-> [k \in 1..Len(knobs) |-> knobs[k].current], done |-> FALSE]
    Step(s, i) == NextPass(s, flags, knobs, limits)
    Recursive(f) == f = [i \in 0..N |-> IF i = 0 THEN Base ELSE Step(f[i - 1], i)]
    Steps(f, n) == f = [i \in 0..n |-> f[i]] /\ f[0] = Base /\ \A i \in 1..n : f[i] = Step(f[i - 1], i)
    Has == {n \in 0..N : \E f : Steps(f, n)}
    H == CHOOSE f : Recursive(f)
<1>1. N \in Nat
  BY DEF Passes
<1>2. Recommend(flags, limits, knobs) = H[N].value
  BY Zenon DEF Recommend
<1>3. \A f : Steps(f, N) <=> Recommending(f, N, flags, limits, knobs)
  BY Zenon DEF Recommending
<1> HIDE DEF Base, Step, N
<1>4. 0 \in Has
  <2>1. PICK g : Begins(g, Base)
    BY Beginning
  <2> QED BY <1>1, <2>1 DEF Begins
<1>5. ASSUME NEW n \in 0..(N - 1), n \in Has PROVE n + 1 \in Has
  <2>1. /\ n \in Nat /\ n + 1 \in 0..N /\ n \in 0..n /\ 0 \in 0..n /\ (n + 1) - 1 = n
        /\ \A i \in 1..(n + 1) : i # n + 1 => i \in 1..n /\ i \in 0..n /\ i - 1 \in 0..n
    BY <1>1
  <2>2. PICK f : Steps(f, n)
    BY <1>5
  <2>3. PICK g : Extends(g, f, n, Step(f[n], n + 1))
    BY <2>1, Extension
  <2>4. /\ g = [i \in 0..(n + 1) |-> g[i]] /\ g[n + 1] = Step(f[n], n + 1)
        /\ \A i \in 0..n : g[i] = f[i]
    BY <2>3 DEF Extends
  <2>5. ASSUME NEW i \in 1..(n + 1) PROVE g[i] = Step(g[i - 1], i)
    <3>1. CASE i = n + 1
      BY <2>1, <2>4, <3>1
    <3>2. CASE i # n + 1
      <4>1. f[i] = Step(f[i - 1], i)
        BY <2>1, <2>2, <3>2
      <4> QED BY <2>1, <2>4, <3>2, <4>1
    <3> QED BY <3>1, <3>2
  <2>6. Steps(g, n + 1)
    BY <2>1, <2>2, <2>4, <2>5
  <2> HIDE DEF Steps
  <2> QED BY <2>1, <2>6
<1>6. \E f : Steps(f, N)
  <2> HIDE DEF Has
  <2>1. N \in Has
    BY <1>1, <1>4, <1>5, InductionUpTo
  <2> QED BY <2>1 DEF Has
<1>7. ASSUME NEW f PROVE Recursive(f) <=> Steps(f, N)
  <2> DEFINE F == [i \in 0..N |-> IF i = 0 THEN Base ELSE Step(f[i - 1], i)]
  <2>1. /\ \A i \in 0..N : F[i] = IF i = 0 THEN Base ELSE Step(f[i - 1], i)
        /\ F = [i \in 0..N |-> F[i]] /\ (Recursive(f) <=> f = F)
    OBVIOUS
  <2> HIDE DEF F, Recursive
  <2>2. 0 \in 0..N /\ \A i \in 0..N : i = 0 \/ i \in 1..N
    BY <1>1
  <2>3. \A i \in 1..N : i \in 0..N /\ i # 0
    OBVIOUS
  <2> QED BY <2>1, <2>2, <2>3
<1>8. Recursive(H)
  <2> HIDE DEF Recursive, Steps
  <2> QED BY <1>6, <1>7, Zenon DEF H
<1> HIDE DEF H, Recursive, Steps
<1> QED BY <1>2, <1>3, <1>7, <1>8, Zenon DEF N

LEMMA RecommendBetween ==
  ASSUME NEW knobs, AreKnobs(knobs), NEW flags, AreFlags(flags), NEW limits
  PROVE  Recommend(flags, limits, knobs) \in Between(knobs)
<1> DEFINE N == Passes
    start == [i \in 1..Len(knobs) |-> knobs[i].current]
    State(s) == DOMAIN s = {"value", "done"} /\ s.value \in Between(knobs)
<1>1. N \in Nat
  BY DEF Passes
<1>2. PICK f : Recommending(f, N, flags, limits, knobs) /\ Recommend(flags, limits, knobs) = f[N].value
  BY RecommendingIs, Zenon
<1>3. /\ f[0] = [value |-> start, done |-> FALSE]
      /\ \A i \in 1..N : f[i] = NextPass(f[i - 1], flags, knobs, limits)
  BY <1>2, Zenon DEF Recommending
<1>4. start \in Between(knobs)
  BY SequenceIs DEF AreKnobs, Between
<1> HIDE DEF N, start
<1> DEFINE Good == {n \in 0..N : State(f[n])}
<1>5. 0 \in Good
  BY <1>1, <1>3, <1>4
<1>6. ASSUME NEW n \in 0..(N - 1), n \in Good PROVE n + 1 \in Good
  <2> DEFINE s == f[n]
      t == f[n + 1]
      v == LowerAll(s.value, flags, knobs, limits)
  <2>1. n + 1 \in 1..N /\ n + 1 \in 0..N /\ (n + 1) - 1 = n
    BY <1>1
  <2>2. State(s) /\ t = NextPass(s, flags, knobs, limits)
    BY <1>3, <1>6, <2>1
  <2> HIDE DEF s, t
  <2>3. v \in Between(knobs)
    BY <2>2, LowerAllBetween
  <2>4. t = s \/ t = [value |-> v, done |-> v = s.value]
    BY <2>2, Zenon DEF NextPass
  <2> HIDE DEF v
  <2>5. State(t)
    BY <2>2, <2>3, <2>4
  <2> HIDE DEF State
  <2> QED BY <2>1, <2>5 DEF t
<1> HIDE DEF Good
<1>7. 0..N \subseteq Good
  BY <1>1, <1>5, <1>6, InductionUpTo, Zenon
<1>8. N \in Good
  BY <1>1, <1>7
<1> QED BY <1>2, <1>8 DEF Good

LEMMA ValueIs ==
  ASSUME NEW m \in Mods, Script[m].kind = "builtin", NEW d \in Range(Script[m].declared)
  PROVE  d.min \in Int /\ Script[m].head[Assignment(m, d.name)].value \in Int
<1> DEFINE head == Script[m].head
    N == Len(head)
    S == {i \in 1..N : head[i].name = d.name /\ ~head[i].local}
<1>1. /\ IsSequence(head) /\ \A a \in Range(head) : a.value \in Int
      /\ d.min \in Int /\ \E a \in Range(head) : a.name = d.name /\ ~a.local
  BY ScriptsAssumption
<1>2. Assignment(m, d.name) = FirstOf(S)
  BY Zenon DEF Assignment
<1> HIDE DEF head
<1>3. N \in Nat /\ Range(head) = {head[i] : i \in 1..N}
  BY <1>1, SequenceIs
<1>4. S # {} /\ S \in SUBSET Nat
  BY <1>1, <1>3
<1>5. S \subseteq 1..N
  OBVIOUS
<1> HIDE DEF S
<1>6. FirstOf(S) \in 1..N
  BY <1>4, <1>5, FirstOfIs
<1>7. head[FirstOf(S)].value \in Int
  BY <1>1, <1>3, <1>6
<1> QED BY <1>1, <1>2, <1>7 DEF head

LEMMA ScalingKnobs ==
  ASSUME cfg.order \in Seq(Mods), IsParams(cfg.params)
  PROVE  AreKnobs(Scaling)
<1> DEFINE on == Enabled(cfg)
    was == IF report.is THEN report.cfg.params ELSE [n \in Mods |-> << >>]
    Value(params, m, d) == IF d.name \in DOMAIN params[m] THEN params[m][d.name]
                           ELSE Script[m].head[Assignment(m, d.name)].value
    Knob(m, d) == [mod |-> m, param |-> d.name, categories |-> d.scales, min |-> d.min,
                   current |-> Value(cfg.params, m, d), was |-> Value(was, m, d)]
    Declared(m) == Those(Script[m].declared, {d \in Range(Script[m].declared) : d.scales # {}})
    Some(m) == [k \in 1..Len(Declared(m)) |-> Knob(m, Declared(m)[k])]
    All(m) == IF Script[m].kind # "builtin" THEN << >> ELSE Some(m)
    Each == [i \in 1..Len(on) |-> All(on[i])]
<1>1. Scaling = FlattenSeq(Each)
  BY Zenon DEF Scaling
<1>2. on \in Seq(Mods)
  BY EnabledMods DEF Enabled
<1>3. ASSUME NEW m \in Mods, Script[m].kind = "builtin", NEW d \in Range(Script[m].declared)
      PROVE  Knob(m, d).current \in Int /\ Knob(m, d).min \in Int
  <2> DEFINE now == Value(cfg.params, m, d)
      then == Value(was, m, d)
  <2>1. now \in Int /\ d.min \in Int
    BY <1>3, ValueIs DEF IsParams
  <2> HIDE DEF now, then
  <2>2. Knob(m, d) = [mod |-> m, param |-> d.name, categories |-> d.scales, min |-> d.min, current |-> now, was |-> then]
    BY DEF now, then
  <2> QED BY <2>1, <2>2
<1> HIDE DEF Knob
<1>4. ASSUME NEW m \in Mods PROVE AreKnobs(All(m))
  <2>1. CASE Script[m].kind # "builtin"
    BY <2>1, EmptySequence DEF AreKnobs
  <2>2. CASE Script[m].kind = "builtin"
    <3> DEFINE ds == Declared(m)
        s == Some(m)
    <3>1. IsSequence(ds) /\ Range(ds) \subseteq Range(Script[m].declared)
      BY <2>2, ScriptsAssumption, ThoseMembers
    <3>2. DOMAIN s = 1..Len(ds) /\ s = [k \in 1..Len(ds) |-> s[k]] /\ \A k \in 1..Len(ds) : s[k] = Knob(m, ds[k])
      OBVIOUS
    <3> HIDE DEF s, ds
    <3>3. Len(ds) \in Nat /\ \A k \in 1..Len(ds) : ds[k] \in Range(Script[m].declared)
      BY <3>1, SequenceIs
    <3>4. IsSequence(s) /\ Range(s) = {s[k] : k \in 1..Len(ds)}
      BY <3>2, <3>3, FunctionSequence
    <3>5. \A k \in 1..Len(ds) : s[k].current \in Int /\ s[k].min \in Int
      BY <1>3, <2>2, <3>2, <3>3
    <3>6. AreKnobs(s)
      BY <3>4, <3>5 DEF AreKnobs
    <3>7. All(m) = s
      BY <2>2 DEF s
    <3> QED BY <3>6, <3>7
  <2> QED BY <2>1, <2>2
<1> HIDE DEF All, on
<1>5. Len(on) \in Nat /\ \A i \in 1..Len(on) : on[i] \in Mods
  BY <1>2
<1>6. DOMAIN Each = 1..Len(on) /\ Each = [i \in 1..Len(on) |-> Each[i]] /\ \A i \in 1..Len(on) : AreKnobs(Each[i])
  BY <1>4, <1>5
<1> HIDE DEF Each
<1>7. IsSequence(Each) /\ Range(Each) = {Each[i] : i \in 1..Len(on)}
  BY <1>5, <1>6, FunctionSequence
<1>8. \A r \in Range(Each) : AreKnobs(r)
  BY <1>6, <1>7
<1>9. IsSequence(FlattenSeq(Each)) /\ Range(FlattenSeq(Each)) = UNION {Range(r) : r \in Range(Each)}
  BY <1>7, <1>8, Flattened DEF AreKnobs
<1>10. AreKnobs(FlattenSeq(Each))
  BY <1>8, <1>9 DEF AreKnobs
<1> QED BY <1>1, <1>10

(* What is saved of a parameter is what was saved of it before, or lies    *)
(* between its minimum and the value in force.                             *)
SavedByFix(m, p, v, knobs) ==
  \/ p \in DOMAIN cfg.params[m] /\ v = cfg.params[m][p]
  \/ \E k \in Range(knobs) : k.mod = m /\ k.param = p /\ k.min <= v /\ v < k.current

LEMMA NewParamsLower ==
  ASSUME NEW m \in Mods, IsParams(cfg.params), NEW knobs, AreKnobs(knobs), NEW value \in Between(knobs),
         NEW p \in DOMAIN NewParams(m, knobs, value)
  PROVE  NewParams(m, knobs, value)[p] \in Int /\ SavedByFix(m, p, NewParams(m, knobs, value)[p], knobs)
<1> DEFINE mine == {k \in Lowered(knobs, value) : knobs[k].mod = m}
    S == {k \in mine : knobs[k].param = p}
    names == {knobs[i].param : i \in mine} \cup DOMAIN cfg.params[m]
    new == NewParams(m, knobs, value)[p]
<1>1. p \in names /\ new = IF S # {} THEN value[Max(S)] ELSE cfg.params[m][p]
  BY Zenon DEF NewParams
<1>2. CASE S # {}
  <2>1. Len(knobs) \in Nat /\ Range(knobs) = {knobs[k] : k \in 1..Len(knobs)}
    BY SequenceIs DEF AreKnobs
  <2>2. value \in Between(knobs)
    OBVIOUS
  <2>3. S \subseteq 1..Len(knobs) /\ 1 \in Int /\ Len(knobs) \in Int
    BY <2>1 DEF Lowered
  <2>4. \A k \in S : knobs[k].mod = m /\ knobs[k].param = p /\ value[k] < knobs[k].current
    BY DEF Lowered
  <2>5. new = value[Max(S)]
    BY <1>1, <1>2
  <2> HIDE DEF S, new
  <2>6. Max(S) \in S
    BY <1>2, <2>3, GreatestOf, Zenon
  <2> DEFINE k == Max(S)
  <2>7. k \in S /\ k \in 1..Len(knobs) /\ new = value[k]
    BY <2>3, <2>5, <2>6, Zenon
  <2> HIDE DEF k
  <2>8. knobs[k] \in Range(knobs) /\ knobs[k].min \in Int /\ knobs[k].current \in Int
    BY <2>1, <2>7 DEF AreKnobs
  <2>9. value[k] \in knobs[k].min..knobs[k].current
    BY <2>2, <2>4, <2>7, <2>8 DEF Between
  <2>10. new \in Int /\ knobs[k].min <= new /\ new < knobs[k].current
    BY <2>4, <2>7, <2>8, <2>9
  <2> QED BY <2>4, <2>7, <2>8, <2>10 DEF new, SavedByFix
<1>3. CASE S = {}
  <2>1. p \in DOMAIN cfg.params[m] /\ new = cfg.params[m][p]
    BY <1>1, <1>3
  <2> QED BY <2>1 DEF IsParams, SavedByFix
<1> QED BY <1>2, <1>3

LEMMA KeptFlagsFlags ==
  ASSUME \A f \in Tables : IsSequence(kept[f].lines), NEW targets, IsSequence(targets),
         \A i \in 1..Len(targets) : IsSequence(targets[i].items)
  PROVE  AreFlags(FlattenSeq(KeptFlags(targets, KeptBlocks)))
<1> DEFINE Each == KeptFlags(targets, KeptBlocks)
    N == Len(targets)
    Flags(t, f) == IF f = NoFile \/ f \notin Tables \/ kept[f].lines = << >> THEN << >>
                   ELSE AuditTable(StockBlocks[f], KeptBlocks[f], Stock[f], t.items, Limits)
<1>1. Each = [i \in 1..N |-> Flags(targets[i], Internal[targets[i].key])]
  BY Zenon DEF KeptFlags
<1>2. ASSUME NEW t, IsSequence(t.items), NEW f PROVE AreFlags(Flags(t, f))
  <2>1. CASE f = NoFile \/ f \notin Tables \/ kept[f].lines = << >>
    <3>1. Flags(t, f) = << >>
      BY <2>1
    <3> QED BY <3>1, EmptySequence DEF AreFlags
  <2>2. CASE ~(f = NoFile \/ f \notin Tables \/ kept[f].lines = << >>)
    <3> DEFINE b == KeptBlocks[f]
        items == t.items
        a == StockBlocks[f]
        s == AuditTable(a, b, Stock[f], items, Limits)
    <3>1. f \in Tables /\ b = Parse(kept[f].lines)
      BY <2>2 DEF KeptBlocks
    <3>2. IsSequence(b)
      BY <3>1, ParseSequence
    <3>3. Flags(t, f) = s
      BY <2>2
    <3>4. IsSequence(items)
      BY <1>2
    <3> HIDE DEF b, items, a
    <3>5. AreFlags(s)
      BY <3>2, <3>4, AuditTableFlags, Zenon
    <3> QED BY <3>3, <3>5
  <2> QED BY <2>1, <2>2
<1> HIDE DEF Flags
<1>3. N \in Nat /\ DOMAIN Each = 1..N /\ Each = [i \in 1..N |-> Each[i]] /\ \A i \in 1..N : AreFlags(Each[i])
  BY <1>1, <1>2, SequenceIs
<1> HIDE DEF Each
<1>4. IsSequence(Each) /\ Range(Each) = {Each[i] : i \in 1..N}
  BY <1>3, FunctionSequence
<1>5. \A r \in Range(Each) : AreFlags(r)
  BY <1>3, <1>4
<1>6. IsSequence(FlattenSeq(Each)) /\ Range(FlattenSeq(Each)) = UNION {Range(r) : r \in Range(Each)}
  BY <1>4, <1>5, Flattened DEF AreFlags
<1>7. AreFlags(FlattenSeq(Each))
  BY <1>5, <1>6 DEF AreFlags
<1> QED BY <1>7 DEF Each

(***************************************************************************)
(* The invariant.                                                          *)
(***************************************************************************)
SettingsOK == /\ DOMAIN cfg = {"order", "on", "params"} /\ cfg.order \in Seq(Mods)
              /\ cfg.on \subseteq Range(cfg.order)
              /\ DOMAIN cfg.params = Mods /\ IsParams(cfg.params)

(* The plan is of the settings the build began with.                       *)
PlanOf(r) ==
  /\ DOMAIN r = {"on", "plan", "cfg", "outcomes"}
  /\ r.cfg.order \in Seq(Mods) /\ IsParams(r.cfg.params)
  /\ r.plan = NewPlan(r.cfg)

(* A mod that moved a line of the file has an event that says so.          *)
TellsOf(moved, events) == IsSequence(events) /\ \A m \in moved : Tells(events, m, "ok")
OutcomeOK(o) == o.is \in {"no-source", "built", "degraded", "dropped"} /\ TellsOf(o.moved, o.events)
OutcomesOK(r) == /\ DOMAIN r.outcomes \subseteq 1..Len(r.plan.targets)
                 /\ \A i \in DOMAIN r.outcomes : OutcomeOK(r.outcomes[i])

(* The file being merged: what the items before the next made of it.       *)
FileOf(target) == Internal[target.key]
WorkOK(w, r) ==
  /\ DOMAIN w = {"on", "target", "items", "retry", "next", "audited", "lines", "moved", "events", "flags"}
  /\ w.target \in 1..Len(r.plan.targets) /\ w.target \notin DOMAIN r.outcomes
  /\ FileOf(r.plan.targets[w.target]) # NoFile
  /\ AreItems(w.items) /\ w.next \in 1..(Len(w.items) + 1)
  /\ TellsOf(w.moved, w.events)
  /\ ~w.retry => LET t == r.plan.targets[w.target]
                 IN  w.items = t.items /\ w.lines = MergeUpTo(Stock[FileOf(t)], t.items, w.next - 1)

(* What shipped of a target that was built is the merge of its edits.      *)
ShippedOf(r, o) ==
  \A i \in DOMAIN r.outcomes : r.outcomes[i].is = "built" =>
      LET t == r.plan.targets[i]
      IN  /\ r.outcomes[i].file = FileOf(t) /\ FileOf(t) # NoFile
          /\ o[FileOf(t)] = MergeOf(Stock[FileOf(t)], t.items)

BuildOK == /\ DOMAIN out = DOMAIN Stock
           /\ run.on => PlanOf(run) /\ OutcomesOK(run)
           /\ work.on => run.on /\ WorkOK(work, run)
ShipsOK == run.on => ShippedOf(run, out)

(* The lines merged, kept and shipped, whatever is done with them later.   *)
LinesOK == /\ DOMAIN kept = DOMAIN Stock
           /\ \A f \in DOMAIN Stock : Sound(kept[f].lines) /\ Sound(out[f])
           /\ work.on => Sound(work.lines)

LEMMA PlanTargets ==
  ASSUME NEW r, PlanOf(r)
  PROVE  LET targets == r.plan.targets
             items == EditsOf(r.cfg)
         IN  /\ AreItems(items)
             /\ Len(targets) \in Nat
             /\ \A j \in 1..Len(targets) :
                  /\ targets[j].key \in DOMAIN Internal
                  /\ targets[j].items = Those(items, OfKey(items, targets[j].key))
                  /\ AreItems(targets[j].items) /\ targets[j].items # << >>
                  /\ \A it \in Range(targets[j].items) : it \in Range(items) /\ KeyOf[it.source] = targets[j].key
                  /\ FileOf(targets[j]) # NoFile => FileOf(targets[j]) \in DOMAIN Stock
             /\ \A j, k \in 1..Len(targets) : targets[j].key = targets[k].key => j = k
<1> DEFINE items == EditsOf(r.cfg)
    targets == TargetsOf(items)
<1>1. AreItems(items)
  BY EditsOfItems DEF PlanOf
<1>2. r.plan.targets = targets
  BY DEF PlanOf, NewPlan
<1> HIDE DEF items
<1>3. /\ IsSequence(targets)
      /\ \A j \in 1..Len(targets) :
           /\ targets[j].key \in DOMAIN Internal
           /\ targets[j].items = Those(items, OfKey(items, targets[j].key))
           /\ AreItems(targets[j].items) /\ targets[j].items # << >>
           /\ \A it \in Range(targets[j].items) : it \in Range(items) /\ KeyOf[it.source] = targets[j].key
      /\ \A j, k \in 1..Len(targets) : targets[j].key = targets[k].key => j = k
  BY <1>1, TargetsOfEdits
<1> HIDE DEF targets
<1>4. Len(targets) \in Nat
  BY <1>3, SequenceIs
<1>5. \A j \in 1..Len(targets) : FileOf(targets[j]) # NoFile => FileOf(targets[j]) \in DOMAIN Stock
  BY <1>3, MergeConstants DEF FileOf
<1> QED BY <1>1, <1>2, <1>3, <1>4, <1>5 DEF items

-----------------------------------------------------------------------------

LEMMA StartIs == StartOrder \in Seq(Mods) /\ Knobs \subseteq Int
BY ScriptsAssumption, Zenon

LEMMA InitSettings == Init => SettingsOK
<1> SUFFICES ASSUME Init PROVE SettingsOK
  OBVIOUS
<1> DEFINE on == Range(StartOrder) \ StartOff
    params == [m \in Mods |-> << >>]
<1>1. cfg = [order |-> StartOrder, on |-> on, params |-> params]
  BY DEF Init
<1>2. DOMAIN params = Mods /\ \A m \in Mods : DOMAIN params[m] = {}
  OBVIOUS
<1>3. on \subseteq Range(StartOrder)
  OBVIOUS
<1> HIDE DEF on, params
<1> QED BY <1>1, <1>2, <1>3, StartIs DEF SettingsOK, IsParams

(* A fix saves whole numbers, as the user does.                            *)
LEMMA FixParams ==
  ASSUME SettingsOK, LinesOK, AuditFix
  PROVE  \E params : /\ cfg' = [cfg EXCEPT !.params = params]
                     /\ DOMAIN params = Mods /\ IsParams(params)
                     /\ \A m \in Mods : \A p \in DOMAIN params[m] : SavedByFix(m, p, params[m][p], Scaling)
<1> DEFINE targets == NewPlan(cfg).targets
    audited == KeptFlags(targets, KeptBlocks)
    flags == Sorted(FlattenSeq(audited))
    value == Recommend(flags, Limits, Scaling)
    params == [m \in Mods |-> NewParams(m, Scaling, value)]
<1>1. cfg' = [cfg EXCEPT !.params = params]
  <2>1. SaveFix(flags, Scaling, value)
    BY Zenon DEF AuditFix
  <2> QED BY <2>1, Zenon DEF SaveFix
<1>2. AreKnobs(Scaling)
  BY ScalingKnobs DEF SettingsOK
<1>3. AreFlags(flags)
  <2> DEFINE items == EditsOf(cfg)
  <2>1. targets = TargetsOf(items)
    BY DEF NewPlan
  <2>2. AreItems(items)
    BY EditsOfItems DEF SettingsOK
  <2> HIDE DEF items, targets
  <2>3. IsSequence(targets) /\ \A i \in 1..Len(targets) : AreItems(targets[i].items)
    BY <2>1, <2>2, TargetsOfEdits
  <2>4. \A i \in 1..Len(targets) : IsSequence(targets[i].items)
    BY <2>3 DEF AreItems
  <2>5. \A f \in Tables : IsSequence(kept[f].lines)
    BY MergeConstants, SoundIs DEF LinesOK
  <2>6. AreFlags(FlattenSeq(audited))
    BY <2>3, <2>4, <2>5, KeptFlagsFlags
  <2> HIDE DEF audited
  <2> QED BY <2>6, SortedFlags
<1> HIDE DEF flags
<1>4. value \in Between(Scaling)
  BY <1>2, <1>3, RecommendBetween
<1> HIDE DEF value
<1>5. DOMAIN params = Mods /\ \A m \in Mods : params[m] = NewParams(m, Scaling, value)
  OBVIOUS
<1> HIDE DEF params
<1>6. \A m \in Mods : \A p \in DOMAIN params[m] :
        params[m][p] \in Int /\ SavedByFix(m, p, params[m][p], Scaling)
  <2> SUFFICES ASSUME NEW m \in Mods, NEW p \in DOMAIN params[m]
               PROVE  params[m][p] \in Int /\ SavedByFix(m, p, params[m][p], Scaling)
    OBVIOUS
  <2>1. p \in DOMAIN NewParams(m, Scaling, value) /\ params[m][p] = NewParams(m, Scaling, value)[p]
    BY <1>5
  <2>2. IsParams(cfg.params)
    BY DEF SettingsOK
  <2>3. /\ NewParams(m, Scaling, value)[p] \in Int
        /\ SavedByFix(m, p, NewParams(m, Scaling, value)[p], Scaling)
    BY <1>2, <1>4, <2>1, <2>2, NewParamsLower, Zenon
  <2> QED BY <2>1, <2>3
<1>7. IsParams(params)
  BY <1>6 DEF IsParams
<1> QED BY <1>1, <1>5, <1>6, <1>7

LEMMA StepSettings == SettingsOK /\ LinesOK /\ [Next]_vars => SettingsOK'
<1> SUFFICES ASSUME SettingsOK, LinesOK, [Next]_vars PROVE SettingsOK'
  OBVIOUS
<1>1. ASSUME NEW m \in Mods, NEW v \in Knobs, NEW i, SetParam(m, Script[m].declared[i].name, v)
      PROVE  SettingsOK'
  <2> DEFINE p == Script[m].declared[i].name
      old == cfg.params[m]
      new == With(old, p, v)
      params == [cfg.params EXCEPT ![m] = new]
  <2>1. cfg' = [cfg EXCEPT !.params = params]
    BY <1>1 DEF SetParam, Edit
  <2> HIDE DEF p
  <2>2. DOMAIN new = {p} \cup DOMAIN old /\ \A q \in DOMAIN new : new[q] = IF q = p THEN v ELSE old[q]
    BY DEF With
  <2>3. v \in Int /\ \A q \in DOMAIN old : old[q] \in Int
    BY StartIs DEF SettingsOK, IsParams
  <2> HIDE DEF new, old
  <2>4. \A q \in DOMAIN new : new[q] \in Int
    BY <2>2, <2>3
  <2>5. DOMAIN params = Mods /\ \A n \in Mods : params[n] = IF n = m THEN new ELSE cfg.params[n]
    BY DEF SettingsOK
  <2> HIDE DEF params
  <2>6. IsParams(params)
    BY <2>4, <2>5 DEF IsParams, SettingsOK
  <2> QED BY <2>1, <2>5, <2>6 DEF SettingsOK
<1>2. ASSUME NEW m \in Range(cfg.order), SetModEnabled(m) PROVE SettingsOK'
  <2> DEFINE on == IF m \in cfg.on THEN cfg.on \ {m} ELSE cfg.on \cup {m}
  <2>1. cfg' = [cfg EXCEPT !.on = on]
    BY <1>2 DEF SetModEnabled, Edit
  <2>2. on \subseteq Range(cfg.order)
    BY <1>2 DEF SettingsOK
  <2> HIDE DEF on
  <2> QED BY <2>1, <2>2 DEF SettingsOK
<1>3. ASSUME NEW i \in 1..(Len(cfg.order) - 1), MoveMod(i) PROVE SettingsOK'
  <2> DEFINE old == cfg.order
      order == [old EXCEPT ![i] = old[i + 1], ![i + 1] = old[i]]
  <2>1. cfg' = [cfg EXCEPT !.order = order]
    BY <1>3 DEF MoveMod, Edit
  <2>a. old \in Seq(Mods) /\ cfg.on \subseteq Range(old)
    BY DEF SettingsOK
  <2> HIDE DEF old
  <2>b. i \in 1..(Len(old) - 1)
    BY <1>3 DEF old
  <2>2. /\ Len(old) \in Nat /\ DOMAIN old = 1..Len(old) /\ i \in 1..Len(old) /\ i + 1 \in 1..Len(old) /\ i # i + 1
        /\ \A j \in 1..Len(old) : old[j] \in Mods
    BY <2>a, <2>b
  <2>3. order \in Seq(Mods)
    BY <2>a, <2>2
  <2>4. /\ DOMAIN order = 1..Len(old) /\ order[i] = old[i + 1] /\ order[i + 1] = old[i]
        /\ \A j \in 1..Len(old) : j # i /\ j # i + 1 => order[j] = old[j]
    BY <2>2
  <2> HIDE DEF order
  <2>5. Range(old) \subseteq Range(order)
    <3> SUFFICES ASSUME NEW j \in 1..Len(old) PROVE \E k \in 1..Len(old) : order[k] = old[j]
      BY <2>2, <2>4 DEF Range
    <3>1. CASE j = i
      <4>1. order[i + 1] = old[j]
        BY <2>4, <3>1
      <4> QED BY <2>2, <4>1
    <3>2. CASE j = i + 1
      <4>1. order[i] = old[j]
        BY <2>4, <3>2
      <4> QED BY <2>2, <4>1
    <3>3. CASE j # i /\ j # i + 1
      BY <2>4, <3>3
    <3> QED BY <3>1, <3>2, <3>3
  <2>6. cfg'.order = order /\ cfg'.on = cfg.on /\ cfg'.params = cfg.params /\ DOMAIN cfg' = DOMAIN cfg
    BY <2>1 DEF SettingsOK
  <2> QED BY <2>a, <2>3, <2>5, <2>6 DEF SettingsOK
<1>4. ASSUME AuditFix PROVE SettingsOK'
  <2>1. PICK params : cfg' = [cfg EXCEPT !.params = params] /\ DOMAIN params = Mods /\ IsParams(params)
    BY <1>4, FixParams
  <2> QED BY <2>1 DEF SettingsOK
<1>5. ASSUME Building \/ UNCHANGED vars PROVE SettingsOK'
  <2>1. cfg' = cfg
    BY <1>5 DEF Building, BeginBuild, NoSource, StartTarget, ApplyItem, AuditMerge, Compile, Retry, Drop,
                FinishBuild, CancelBuild, vars
  <2> QED BY <2>1 DEF SettingsOK
<1> QED BY <1>1, <1>2, <1>3, <1>4, <1>5 DEF Next, Settings

(***************************************************************************)
(* Every step keeps the invariant.                                         *)
(***************************************************************************)

LEMMA OutcomeSteps ==
  ASSUME NEW r, PlanOf(r), OutcomesOK(r), NEW i \in 1..Len(r.plan.targets), NEW o, OutcomeOK(o),
         NEW s, s = [r EXCEPT !.outcomes = With(@, i, o)]
  PROVE  /\ PlanOf(s) /\ OutcomesOK(s)
         /\ s.on = r.on /\ s.plan = r.plan
         /\ DOMAIN s.outcomes = {i} \cup DOMAIN r.outcomes
         /\ s.outcomes[i] = o /\ \A j \in DOMAIN r.outcomes : j # i => s.outcomes[j] = r.outcomes[j]
<1> DEFINE w == With(r.outcomes, i, o)
<1>1. /\ DOMAIN w = {i} \cup DOMAIN r.outcomes
      /\ w[i] = o /\ \A j \in DOMAIN r.outcomes : j # i => w[j] = r.outcomes[j]
  BY DEF With
<1> HIDE DEF w
<1>a. s = [r EXCEPT !.outcomes = w]
  BY DEF w
<1>2. s.on = r.on /\ s.plan = r.plan /\ s.cfg = r.cfg /\ s.outcomes = w /\ DOMAIN s = DOMAIN r
  BY <1>a DEF PlanOf
<1>3. PlanOf(s)
  BY <1>2 DEF PlanOf
<1>4. OutcomesOK(s)
  BY <1>1, <1>2 DEF OutcomesOK
<1> QED BY <1>1, <1>2, <1>3, <1>4 DEF w

(* An edit of the file being merged, or of the file tried again.           *)
LEMMA MergingOK ==
  ASSUME NEW i, NEW items, NEW retry \in BOOLEAN, NEW events, NEW flags, PlanOf(run),
         i \in 1..Len(run.plan.targets), i \notin DOMAIN run.outcomes,
         FileOf(run.plan.targets[i]) # NoFile, AreItems(items), IsSequence(events),
         ~retry => items = run.plan.targets[i].items
  PROVE  WorkOK(Merging(i, items, retry, events, flags), run)
<1> DEFINE w == Merging(i, items, retry, events, flags)
    t == run.plan.targets[i]
<1>1. /\ DOMAIN w = {"on", "target", "items", "retry", "next", "audited", "lines", "moved", "events", "flags"}
      /\ w.target = i /\ w.items = items /\ w.retry = retry /\ w.next = 1 /\ w.lines = Stock[FileOf(t)]
      /\ w.moved = {} /\ w.events = events
  BY DEF Merging, FileOf
<1>2. Len(items) \in Nat
  BY SequenceIs DEF AreItems
<1>3. ~retry => MergeUpTo(Stock[FileOf(t)], t.items, 0) = Stock[FileOf(t)]
  BY MergeSteps DEF AreItems
<1> HIDE DEF w
<1>4. WorkOK(w, run)
  BY <1>1, <1>2, <1>3 DEF WorkOK, TellsOf
<1> QED BY <1>4 DEF w

LEMMA ApplyItemOK == BuildOK /\ ApplyItem => BuildOK'
<1> SUFFICES ASSUME BuildOK, ApplyItem PROVE BuildOK'
  OBVIOUS
<1> DEFINE it == work.items[work.next]
    r == Apply(work.lines, it.block, it.mod)
    N == Len(work.items)
    t == run.plan.targets[work.target]
<1>1. work.on /\ run.on /\ PlanOf(run) /\ OutcomesOK(run) /\ WorkOK(work, run) /\ work.next <= N
  BY DEF BuildOK, ApplyItem
<1>2. /\ work.next \in 1..N /\ N \in Nat
      /\ it \in Range(work.items) /\ IsItem(it)
  BY <1>1, SequenceIs DEF WorkOK, AreItems
<1> DEFINE more == work.events \o r.events
    moves == IF r.lines = work.lines THEN work.moved ELSE work.moved \cup {it.mod}
<1>3. work' = [work EXCEPT !.next = @ + 1, !.lines = r.lines, !.events = more, !.moved = moves]
  BY DEF ApplyItem
<1>4. Honest(r, work.lines, it.mod)
  BY <1>2, ApplyHonest DEF IsItem, TypedBlock
<1>5. ~work.retry => r.lines = MergeUpTo(Stock[FileOf(t)], t.items, work.next)
  <2> SUFFICES ASSUME ~work.retry PROVE r.lines = MergeUpTo(Stock[FileOf(t)], t.items, work.next)
    OBVIOUS
  <2>1. work.items = t.items /\ work.lines = MergeUpTo(Stock[FileOf(t)], t.items, work.next - 1)
    BY <1>1 DEF WorkOK
  <2>2. IsSequence(t.items)
    BY <1>1, <2>1 DEF WorkOK, AreItems
  <2>3. \A i \in 1..Len(t.items) : MergeStep(Stock[FileOf(t)], t.items, i)
    BY <2>2, MergeSteps
  <2>4. work.next \in 1..Len(t.items) /\ it = t.items[work.next]
    BY <1>2, <2>1
  <2>5. MergeUpTo(Stock[FileOf(t)], t.items, work.next) = Apply(work.lines, it.block, it.mod).lines
    BY <2>1, <2>3, <2>4 DEF MergeStep
  <2> QED BY <2>5
<1> HIDE DEF r, it, N
<1>6. TellsOf(moves, more)
  <2>1. IsSequence(work.events) /\ \A m \in work.moved : Tells(work.events, m, "ok")
    BY <1>1 DEF WorkOK, TellsOf
  <2>2. IsSequence(more) /\ \A m, kind : Tells(more, m, kind) <=> Tells(work.events, m, kind) \/ Tells(r.events, m, kind)
    BY <1>4, <2>1, ConcatTells DEF Honest
  <2> HIDE DEF more
  <2> QED BY <1>4, <2>1, <2>2 DEF Honest, TellsOf
<1> HIDE DEF more, moves
<1>7. /\ DOMAIN work' = DOMAIN work /\ work'.on = work.on /\ work'.target = work.target /\ work'.items = work.items
      /\ work'.retry = work.retry /\ work'.next = work.next + 1 /\ work'.lines = r.lines
      /\ work'.events = more /\ work'.moved = moves
  BY <1>1, <1>3 DEF WorkOK
<1>8. run' = run /\ out' = out
  BY DEF ApplyItem
<1>9. work'.next \in 1..(Len(work'.items) + 1) /\ work'.next - 1 = work.next
  BY <1>2, <1>7 DEF N
<1>10. WorkOK(work', run)
  BY <1>1, <1>5, <1>6, <1>7, <1>9 DEF WorkOK
<1> QED BY <1>1, <1>7, <1>8, <1>10 DEF BuildOK

(* What each outcome says of the mods.                                     *)
LEMMA NoSourceOK ==
  ASSUME BuildOK, NEW i \in Waiting, NoSource(i)
  PROVE  BuildOK' /\ \E o : o.is # "built" /\ Outcome(i, o)
<1> DEFINE t == run.plan.targets[i]
    event == Event("warn", t.items[1].mod, 0, "")
    o == [is |-> "no-source", file |-> NoFile, flags |-> << >>, moved |-> {}, events |-> <<event>>]
<1>1. run.on /\ ~work.on /\ Outcome(i, o) /\ out' = out /\ work' = work
  BY DEF NoSource
<1>2. PlanOf(run) /\ OutcomesOK(run) /\ i \in 1..Len(run.plan.targets)
  BY <1>1 DEF BuildOK, Waiting
<1> HIDE DEF event
<1>3. OutcomeOK(o) /\ o.is # "built"
  BY OneEvent DEF OutcomeOK, TellsOf
<1> HIDE DEF o
<1>4. run' = [run EXCEPT !.outcomes = With(@, i, o)]
  BY <1>1 DEF Outcome
<1>5. PlanOf(run') /\ OutcomesOK(run') /\ run'.on = run.on
  BY <1>2, <1>3, <1>4, OutcomeSteps
<1> QED BY <1>1, <1>3, <1>5 DEF BuildOK

LEMMA StartTargetOK ==
  ASSUME BuildOK, NEW i \in Waiting, StartTarget(i)
  PROVE  BuildOK'
<1> DEFINE t == run.plan.targets[i]
<1>1. run.on /\ ~work.on /\ FileOf(t) # NoFile
      /\ work' = Merging(i, t.items, FALSE, << >>, << >>) /\ run' = run /\ out' = out
  BY DEF StartTarget, FileOf
<1>2. PlanOf(run) /\ i \in 1..Len(run.plan.targets) /\ i \notin DOMAIN run.outcomes
  BY <1>1 DEF BuildOK, Waiting
<1>3. AreItems(t.items)
  BY <1>2, PlanTargets
<1>4. WorkOK(work', run)
  BY <1>1, <1>2, <1>3, EmptySequence, MergingOK
<1> QED BY <1>1, <1>4 DEF BuildOK

LEMMA AuditMergeOK == BuildOK /\ AuditMerge => BuildOK'
<1> SUFFICES ASSUME BuildOK, AuditMerge PROVE BuildOK'
  OBVIOUS
<1>1. PICK flags : work' = [work EXCEPT !.audited = TRUE, !.flags = flags]
  BY Zenon DEF AuditMerge
<1>2. work.on /\ run.on /\ WorkOK(work, run) /\ run' = run /\ out' = out
  BY DEF BuildOK, AuditMerge
<1>3. /\ DOMAIN work' = DOMAIN work /\ work'.on = work.on /\ work'.target = work.target /\ work'.items = work.items
      /\ work'.retry = work.retry /\ work'.next = work.next /\ work'.lines = work.lines
      /\ work'.events = work.events /\ work'.moved = work.moved
  BY <1>1, <1>2 DEF WorkOK
<1>4. WorkOK(work', run)
  BY <1>2, <1>3 DEF WorkOK
<1> QED BY <1>2, <1>3, <1>4 DEF BuildOK

LEMMA RetryOK == BuildOK /\ Retry => BuildOK'
<1> SUFFICES ASSUME BuildOK, Retry PROVE BuildOK'
  OBVIOUS
<1> DEFINE items == run.plan.targets[work.target].items
    some == Safe(items)
<1>1. /\ work.on /\ run.on /\ PlanOf(run) /\ WorkOK(work, run) /\ run' = run /\ out' = out
      /\ work' = Merging(work.target, some, TRUE, work.events, work.flags)
  BY DEF BuildOK, Retry, Merged
<1>2. AreItems(items)
  BY <1>1, PlanTargets DEF WorkOK
<1>3. AreItems(some)
  <2> HIDE DEF items
  <2>1. IsSequence(some) /\ Range(some) \subseteq Range(items)
    BY <1>2, ThoseMembers DEF AreItems, Safe
  <2> QED BY <1>2, <2>1 DEF AreItems
<1> HIDE DEF some
<1>a. /\ work.target \in 1..Len(run.plan.targets) /\ work.target \notin DOMAIN run.outcomes
      /\ FileOf(run.plan.targets[work.target]) # NoFile /\ IsSequence(work.events)
  BY <1>1 DEF WorkOK, TellsOf
<1>4. WorkOK(work', run)
  BY <1>1, <1>3, <1>a, MergingOK
<1> QED BY <1>1, <1>4 DEF BuildOK

LEMMA DropOK ==
  ASSUME BuildOK, Drop
  PROVE  BuildOK' /\ \E o : o.is # "built" /\ Outcome(work.target, o)
<1> DEFINE items == run.plan.targets[work.target].items
    failed == [i \in 1..Len(items) |-> Event("warn", items[i].mod, 0, "")]
    more == work.events \o failed
    o == [is |-> "dropped", file |-> File, flags |-> work.flags, moved |-> {}, events |-> more]
<1>1. /\ work.on /\ run.on /\ PlanOf(run) /\ OutcomesOK(run) /\ WorkOK(work, run)
      /\ Outcome(work.target, o) /\ work' = Idle /\ out' = out
  BY DEF BuildOK, Drop, Merged
<1>2. Len(items) \in Nat
  BY <1>1, PlanTargets, SequenceIs DEF WorkOK, AreItems
<1>3. IsSequence(failed)
  <2>1. DOMAIN failed = 1..Len(items) /\ failed = [i \in 1..Len(items) |-> failed[i]]
    OBVIOUS
  <2> HIDE DEF failed
  <2> QED BY <1>2, <2>1, FunctionSequence
<1> HIDE DEF failed
<1>4. IsSequence(more)
  BY <1>1, <1>3, MembersOfConcat DEF WorkOK, TellsOf
<1> HIDE DEF more
<1>5. OutcomeOK(o) /\ o.is # "built"
  BY <1>4 DEF OutcomeOK, TellsOf
<1> HIDE DEF o
<1>6. run' = [run EXCEPT !.outcomes = With(@, work.target, o)] /\ work.target \in 1..Len(run.plan.targets)
  BY <1>1 DEF Outcome, WorkOK
<1>7. PlanOf(run') /\ OutcomesOK(run') /\ run'.on = run.on
  BY <1>1, <1>5, <1>6, OutcomeSteps
<1>8. ~work'.on
  BY <1>1 DEF Idle
<1> QED BY <1>1, <1>5, <1>7, <1>8 DEF BuildOK

LEMMA CompileOK ==
  ASSUME BuildOK, Compile
  PROVE  BuildOK'
<1> DEFINE o == [is |-> IF work.retry THEN "degraded" ELSE "built", file |-> File,
                 flags |-> work.flags, moved |-> work.moved, events |-> work.events]
<1>1. /\ work.on /\ run.on /\ PlanOf(run) /\ OutcomesOK(run) /\ WorkOK(work, run)
      /\ Outcome(work.target, o) /\ work' = Idle /\ out' = [out EXCEPT ![File] = work.lines]
  BY DEF BuildOK, Compile, Merged
<1>2. OutcomeOK(o)
  BY <1>1 DEF OutcomeOK, WorkOK
<1> HIDE DEF o
<1>3. run' = [run EXCEPT !.outcomes = With(@, work.target, o)] /\ work.target \in 1..Len(run.plan.targets)
  BY <1>1 DEF Outcome, WorkOK
<1>4. PlanOf(run') /\ OutcomesOK(run') /\ run'.on = run.on
  BY <1>1, <1>2, <1>3, OutcomeSteps
<1>5. ~work'.on
  BY <1>1 DEF Idle
<1>6. DOMAIN out' = DOMAIN Stock
  BY <1>1 DEF BuildOK
<1> QED BY <1>1, <1>4, <1>5, <1>6 DEF BuildOK

LEMMA BeginBuildOK ==
  ASSUME BuildOK, SettingsOK, BeginBuild, ~work.on
  PROVE  BuildOK' /\ DOMAIN run'.outcomes = {}
<1> DEFINE plan == NewPlan(cfg)
<1>1. run' = [on |-> TRUE, plan |-> plan, cfg |-> cfg, outcomes |-> << >>]
      /\ out' = [f \in DOMAIN Stock |-> << >>] /\ work' = work
  BY DEF BeginBuild
<1> HIDE DEF plan
<1>2. /\ DOMAIN run' = {"on", "plan", "cfg", "outcomes"} /\ run'.plan = plan /\ run'.cfg = cfg
      /\ run'.outcomes = << >> /\ DOMAIN << >> = {} /\ DOMAIN out' = DOMAIN Stock
  BY <1>1
<1>3. PlanOf(run')
  BY <1>2 DEF PlanOf, SettingsOK, plan
<1>4. OutcomesOK(run')
  BY <1>2 DEF OutcomesOK
<1> QED BY <1>1, <1>2, <1>3, <1>4 DEF BuildOK

LEMMA InitBuild == Init => BuildOK
BY DEF Init, BuildOK, Idle

LEMMA StepBuild == SettingsOK /\ BuildOK /\ [Next]_vars => BuildOK'
<1> SUFFICES ASSUME SettingsOK, BuildOK, [Next]_vars PROVE BuildOK'
  OBVIOUS
<1>1. ASSUME Settings \/ UNCHANGED vars PROVE BuildOK'
  <2>1. run' = run /\ work' = work /\ out' = out
    BY <1>1, Zenon DEF Settings, SetParam, SetModEnabled, MoveMod, Edit, AuditFix, vars
  <2> QED BY <2>1 DEF BuildOK
<1>2. CASE BeginBuild
  <2>1. ~work.on
    BY <1>2 DEF BeginBuild, BuildOK
  <2> QED BY <1>2, <2>1, BeginBuildOK
<1>3. ASSUME NEW i \in Waiting, NoSource(i) \/ StartTarget(i) PROVE BuildOK'
  BY <1>3, NoSourceOK, StartTargetOK
<1>4. CASE ApplyItem \/ AuditMerge \/ Compile \/ Retry \/ Drop
  BY <1>4, ApplyItemOK, AuditMergeOK, CompileOK, RetryOK, DropOK
<1>5. CASE FinishBuild
  <2>1. run' = Idle /\ work' = work /\ out' = out /\ ~work.on
    BY <1>5 DEF FinishBuild
  <2> QED BY <2>1 DEF BuildOK, Idle
<1>6. CASE CancelBuild
  <2>1. run' = Idle /\ work' = Idle /\ out' = [f \in DOMAIN Stock |-> << >>]
    BY <1>6 DEF CancelBuild
  <2> QED BY <2>1 DEF BuildOK, Idle
<1> QED BY <1>1, <1>2, <1>3, <1>4, <1>5, <1>6 DEF Next, Building

(***************************************************************************)
(* Lines are lines, and the whole fields whole, wherever they are kept.    *)
(***************************************************************************)

LEMMA EmptySound == Sound(<< >>)
<1>1. \A i \in 1..Len(<< >>) : SoundLine(<< >>[i])
  OBVIOUS
<1> QED BY <1>1, EmptySequence, SoundIs

LEMMA StockSound ==
  ASSUME NEW f \in DOMAIN Stock
  PROVE  Sound(Stock[f])
<1>1. AreLines(Stock[f])
  BY StockAssumption
<1>2. \A name \in IntegerFields : \A i \in 1..Len(Stock[f]) : Stock[f][i].name = name => Fits(Stock[f][i].val)
  BY DEF IntegerFields, SpelledWhole
<1> QED BY <1>1, <1>2 DEF Sound

LEMMA InitLines == Init => LinesOK
<1> SUFFICES ASSUME Init PROVE LinesOK
  OBVIOUS
<1>1. DOMAIN kept = DOMAIN Stock /\ \A f \in DOMAIN Stock : kept[f].lines = << >> /\ out[f] = << >>
  BY DEF Init, NoKept
<1>2. ~work.on
  BY DEF Init, Idle
<1> QED BY <1>1, <1>2, EmptySound DEF LinesOK

LEMMA ApplyItemLines ==
  ASSUME BuildOK, LinesOK, ApplyItem
  PROVE  LinesOK'
<1> DEFINE it == work.items[work.next]
    blk == it.block
    mod == it.mod
    lines == work.lines
    r == Apply(lines, blk, mod)
    more == work.events \o r.events
    moves == IF r.lines = work.lines THEN work.moved ELSE work.moved \cup {it.mod}
<1>1. work.on /\ WorkOK(work, run) /\ work.next <= Len(work.items)
  BY DEF BuildOK, ApplyItem
<1>2. work.next \in 1..Len(work.items) /\ it \in Range(work.items) /\ IsItem(it)
  BY <1>1, SequenceIs DEF WorkOK, AreItems
<1>3. TypedBlock(blk) /\ Sound(lines)
  BY <1>1, <1>2 DEF IsItem, LinesOK
<1>4. work' = [work EXCEPT !.next = @ + 1, !.lines = r.lines, !.events = more, !.moved = moves]
  BY DEF ApplyItem
<1> HIDE DEF blk, mod, lines
<1>5. Sound(r.lines)
  BY <1>3, ApplySound
<1> HIDE DEF r, more, moves
<1>6. work'.lines = r.lines
  BY <1>1, <1>4 DEF WorkOK
<1>7. kept' = kept /\ out' = out
  BY DEF ApplyItem
<1> QED BY <1>5, <1>6, <1>7 DEF LinesOK

(* A merge that begins, again or at first, begins from the game's lines.   *)
LEMMA MergingLines ==
  ASSUME PlanOf(run), NEW i \in 1..Len(run.plan.targets), Internal[run.plan.targets[i].key] # NoFile,
         NEW items, NEW retry, NEW events, NEW flags
  PROVE  Sound(Merging(i, items, retry, events, flags).lines)
<1>1. Internal[run.plan.targets[i].key] \in DOMAIN Stock
  BY PlanTargets DEF FileOf
<1> QED BY <1>1, StockSound DEF Merging

LEMMA KeepLines ==
  ASSUME LinesOK, work.on, Keep
  PROVE  DOMAIN kept' = DOMAIN Stock /\ \A f \in DOMAIN Stock : Sound(kept'[f].lines)
<1> DEFINE new == [lines |-> work.lines, by |-> run.cfg]
<1>1. kept' = [kept EXCEPT ![File] = new] /\ new.lines = work.lines
  BY DEF Keep
<1>2. Sound(new.lines)
  BY <1>1 DEF LinesOK
<1> HIDE DEF new
<1>3. DOMAIN kept' = DOMAIN Stock /\ \A f \in DOMAIN Stock : kept'[f] = IF f = File THEN new ELSE kept[f]
  BY <1>1 DEF LinesOK
<1> QED BY <1>2, <1>3 DEF LinesOK

LEMMA StepLines == BuildOK /\ LinesOK /\ [Next]_vars => LinesOK'
<1> SUFFICES ASSUME BuildOK, LinesOK, [Next]_vars PROVE LinesOK'
  OBVIOUS
<1>1. ASSUME Settings \/ UNCHANGED vars PROVE LinesOK'
  <2>1. kept' = kept /\ work' = work /\ out' = out
    BY <1>1, Zenon DEF Settings, SetParam, SetModEnabled, MoveMod, Edit, AuditFix, vars
  <2> QED BY <2>1 DEF LinesOK
<1>2. CASE BeginBuild
  <2>1. ~work.on /\ work' = work
    BY <1>2 DEF BeginBuild, BuildOK
  <2>2. DOMAIN kept' = DOMAIN Stock /\ \A f \in DOMAIN Stock : kept'[f].lines = << >> /\ out'[f] = << >>
    BY <1>2 DEF BeginBuild, NoKept
  <2> QED BY <2>1, <2>2, EmptySound DEF LinesOK
<1>3. ASSUME NEW i \in Waiting, NoSource(i) PROVE LinesOK'
  <2>1. kept' = kept /\ work' = work /\ out' = out
    BY <1>3 DEF NoSource
  <2> QED BY <2>1 DEF LinesOK
<1>4. ASSUME NEW i \in Waiting, StartTarget(i) PROVE LinesOK'
  <2>1. /\ kept' = kept /\ out' = out /\ run.on /\ PlanOf(run) /\ i \in 1..Len(run.plan.targets)
        /\ Internal[run.plan.targets[i].key] # NoFile
        /\ work' = Merging(i, run.plan.targets[i].items, FALSE, << >>, << >>)
    BY <1>4 DEF StartTarget, BuildOK, Waiting
  <2>2. Sound(work'.lines)
    BY <2>1, MergingLines
  <2> QED BY <2>1, <2>2 DEF LinesOK
<1>5. CASE ApplyItem
  BY <1>5, ApplyItemLines
<1>6. CASE AuditMerge
  <2>1. PICK flags : work' = [work EXCEPT !.audited = TRUE, !.flags = flags]
    BY <1>6, Zenon DEF AuditMerge
  <2>2. kept' = kept /\ out' = out /\ work.on /\ WorkOK(work, run)
    BY <1>6 DEF AuditMerge, BuildOK
  <2>3. work'.lines = work.lines
    BY <2>1, <2>2 DEF WorkOK
  <2> QED BY <2>2, <2>3 DEF LinesOK
<1>7. CASE Compile
  <2>1. /\ DOMAIN kept' = DOMAIN Stock /\ \A f \in DOMAIN Stock : Sound(kept'[f].lines)
        /\ Sound(work.lines) /\ out' = [out EXCEPT ![File] = work.lines] /\ work' = Idle
    BY <1>7, KeepLines DEF Compile, Merged, LinesOK
  <2>2. \A f \in DOMAIN Stock : out'[f] = IF f = File THEN work.lines ELSE out[f]
    BY <2>1 DEF BuildOK
  <2>3. \A f \in DOMAIN Stock : Sound(out'[f])
    BY <2>1, <2>2 DEF LinesOK
  <2>4. ~work'.on
    BY <2>1 DEF Idle
  <2> QED BY <2>1, <2>3, <2>4 DEF LinesOK
<1>8. CASE Retry
  <2>1. /\ DOMAIN kept' = DOMAIN Stock /\ \A f \in DOMAIN Stock : Sound(kept'[f].lines)
        /\ out' = out /\ work.on /\ PlanOf(run) /\ WorkOK(work, run)
        /\ \E items : work' = Merging(work.target, items, TRUE, work.events, work.flags)
    BY <1>8, KeepLines DEF Retry, Merged, BuildOK
  <2>2. /\ work.target \in 1..Len(run.plan.targets)
        /\ Internal[run.plan.targets[work.target].key] # NoFile
    BY <2>1 DEF WorkOK, FileOf
  <2>3. Sound(work'.lines)
    BY <2>1, <2>2, MergingLines
  <2> QED BY <2>1, <2>3 DEF LinesOK
<1>9. CASE Drop
  <2>1. /\ DOMAIN kept' = DOMAIN Stock /\ \A f \in DOMAIN Stock : Sound(kept'[f].lines)
        /\ out' = out /\ work' = Idle
    BY <1>9, KeepLines DEF Drop, Merged
  <2>2. ~work'.on
    BY <2>1 DEF Idle
  <2> QED BY <2>1, <2>2 DEF LinesOK
<1>10. CASE FinishBuild
  <2>1. kept' = kept /\ work' = work /\ out' = out
    BY <1>10 DEF FinishBuild
  <2> QED BY <2>1 DEF LinesOK
<1>11. CASE CancelBuild
  <2>1. kept' = kept /\ work' = Idle /\ \A f \in DOMAIN Stock : out'[f] = << >>
    BY <1>11 DEF CancelBuild
  <2>2. ~work'.on
    BY <2>1 DEF Idle
  <2> QED BY <2>1, <2>2, EmptySound DEF LinesOK
<1> QED BY <1>1, <1>2, <1>3, <1>4, <1>5, <1>6, <1>7, <1>8, <1>9, <1>10, <1>11 DEF Next, Building

(* The three together: the fix reads the merges it keeps, a merge is of the *)
(* plan of a build, and a plan of settings that are right.                 *)
MergeOK == SettingsOK /\ BuildOK /\ LinesOK
LEMMA InitMerge == Init => MergeOK
BY InitSettings, InitBuild, InitLines DEF MergeOK
LEMMA StepMerge == MergeOK /\ [Next]_vars => MergeOK'
BY StepSettings, StepBuild, StepLines DEF MergeOK

BoundsOK == edits \in 0..MaxEdits /\ builds \in 0..MaxBuilds
LEMMA StepBounds == BoundsOK /\ [Next]_vars => BoundsOK'
<1> SUFFICES ASSUME BoundsOK, [Next]_vars PROVE BoundsOK'
  OBVIOUS
<1> USE MergeConstants
<1>1. CASE Settings
  <2>1. edits < MaxEdits /\ edits' = edits + 1 /\ builds' = builds
    BY <1>1, Zenon DEF Settings, SetParam, SetModEnabled, MoveMod, Edit, AuditFix
  <2> QED BY <2>1 DEF BoundsOK
<1>2. CASE BeginBuild
  <2>1. builds < MaxBuilds /\ builds' = builds + 1 /\ edits' = edits
    BY <1>2 DEF BeginBuild
  <2> QED BY <2>1 DEF BoundsOK
<1>3. ASSUME (Building /\ ~BeginBuild) \/ UNCHANGED vars PROVE BoundsOK'
  <2>1. edits' = edits /\ builds' = builds
    BY <1>3, Zenon DEF Building, NoSource, StartTarget, ApplyItem, AuditMerge, Compile, Retry, Drop,
                       FinishBuild, CancelBuild, vars
  <2> QED BY <2>1 DEF BoundsOK
<1> QED BY <1>1, <1>2, <1>3 DEF Next

(* The lines being merged, kept and shipped are lines, and a field that the *)
(* game and the scripts spell as a whole number is whole and in its range,  *)
(* however many edits of however many mods multiply it (mxml/mxml.go:28).   *)
THEOREM TypesAndRanges == Spec => []TypeOK
<1>1. Init => BoundsOK
  BY MergeConstants DEF Init, BoundsOK
<1>2. MergeOK /\ BoundsOK => TypeOK
  <2> SUFFICES ASSUME MergeOK, BoundsOK PROVE TypeOK
    OBVIOUS
  <2>1. work.on => run.on /\ Sound(work.lines) /\ work.next \in 1..(Len(work.items) + 1)
    BY DEF MergeOK, BuildOK, WorkOK, LinesOK
  <2>2. \A f \in DOMAIN Stock : Sound(kept[f].lines) /\ Sound(out[f])
    BY DEF MergeOK, LinesOK
  <2>3. run.on => DOMAIN run.outcomes \subseteq 1..Len(run.plan.targets)
    BY DEF MergeOK, BuildOK, OutcomesOK
  <2>4. /\ \A m \in Mods : \A p \in DOMAIN cfg.params[m] : cfg.params[m][p] \in Int
        /\ cfg.on \subseteq Range(cfg.order)
    BY DEF MergeOK, SettingsOK, IsParams
  <2> QED BY <2>1, <2>2, <2>3, <2>4 DEF TypeOK, BoundsOK
<1> QED BY <1>1, <1>2, InitMerge, StepMerge, StepBounds, PTL DEF Spec

(* CURRENCY_MULT and WRAPPER_MULT multiply every amount of the blocks they *)
(* name exactly once and nothing else, however deep the blocks nest.       *)
THEOREM EveryAmountScaledOnce == Spec => ScaledOnce
<1> DEFINE it == work.items[work.next]
    Right == it.block.op \in {"currency", "wrapper"} /\ it.block.mult # NoNumber
             /\ Indented(work.lines) /\ Stamps(work.lines, it.block.entry)
             => work'.lines = Scaled(work.lines, it.block)
    Once == work.on /\ work'.on /\ work'.next = work.next + 1 => Right
<1>1. MergeOK /\ [Next]_vars => [Once]_work
  <2> SUFFICES ASSUME MergeOK, [Next]_vars, work' # work, work.on, work'.on, work'.next = work.next + 1
               PROVE  Right
    BY Zenon
  <2>1. work.next \in Nat /\ work.next # 0 /\ Sound(work.lines)
    BY DEF MergeOK, BuildOK, WorkOK, LinesOK
  <2>2. ApplyItem
    <3>1. ASSUME Settings \/ BeginBuild \/ FinishBuild \/ UNCHANGED vars PROVE FALSE
      <4>1. work' = work
        BY <3>1, Zenon DEF Settings, SetParam, SetModEnabled, MoveMod, Edit, AuditFix, BeginBuild, FinishBuild, vars
      <4> QED BY <4>1
    <3>2. ASSUME NEW i \in Waiting, NoSource(i) \/ StartTarget(i) PROVE FALSE
      BY <3>2 DEF NoSource, StartTarget
    <3>3. ASSUME Compile \/ Drop \/ CancelBuild PROVE FALSE
      <4>1. work' = Idle
        BY <3>3, Zenon DEF Compile, Drop, CancelBuild
      <4> QED BY <4>1 DEF Idle
    <3>4. ASSUME Retry PROVE FALSE
      <4>1. work'.next = 1
        BY <3>4 DEF Retry, Merging
      <4> QED BY <2>1, <4>1
    <3>5. ASSUME AuditMerge PROVE FALSE
      <4>1. PICK flags : work' = [work EXCEPT !.audited = TRUE, !.flags = flags]
        BY <3>5, Zenon DEF AuditMerge
      <4>2. work'.next = work.next
        BY <4>1 DEF MergeOK, BuildOK, WorkOK
      <4> QED BY <2>1, <4>2
    <3> QED BY <3>1, <3>2, <3>3, <3>4, <3>5 DEF Next, Building
  <2>3. work'.lines = Apply(work.lines, it.block, it.mod).lines
    <3> DEFINE r == Apply(work.lines, it.block, it.mod)
        more == work.events \o r.events
        moves == IF r.lines = work.lines THEN work.moved ELSE work.moved \cup {it.mod}
    <3>1. work' = [work EXCEPT !.next = @ + 1, !.lines = r.lines, !.events = more, !.moved = moves]
      BY <2>2 DEF ApplyItem
    <3> HIDE DEF it, r, more, moves
    <3>2. work'.lines = r.lines
      BY <3>1 DEF MergeOK, BuildOK, WorkOK
    <3> QED BY <3>2 DEF r
  <2>4. AreLines(work.lines)
    BY <2>1 DEF Sound
  <2> HIDE DEF it
  <2> DEFINE blk == it.block
      mod == it.mod
      lines == work.lines
  <2> HIDE DEF blk, mod, lines
  <2>5. blk.op \in {"currency", "wrapper"} /\ blk.mult # NoNumber /\ Indented(lines) /\ Stamps(lines, blk.entry)
          => Apply(lines, blk, mod).lines = Scaled(lines, blk)
    BY <2>4, ApplyScales DEF lines
  <2> QED BY <2>3, <2>5 DEF blk, mod, lines
<1>2. MergeOK /\ [Next]_vars => [work.on /\ work'.on /\ work'.next = work.next + 1 =>
         LET it0 == work.items[work.next]
         IN  it0.block.op \in {"currency", "wrapper"} /\ it0.block.mult # NoNumber
             /\ Indented(work.lines) /\ Stamps(work.lines, it0.block.entry)
                => work'.lines = Scaled(work.lines, it0.block)]_work
  BY <1>1
<1> HIDE DEF it, Right, Once
<1> QED BY <1>2, InitMerge, StepMerge, PTL DEF Spec, ScaledOnce

(* A fix never raises a multiplier and never goes under the least value its *)
(* script declares: whatever it saves of a parameter was saved of it before *)
(* or lies between that minimum and the value in force.                     *)
THEOREM FixOnlyLowers ==
  Spec => [][AuditFix => \A m \in Mods : \A p \in DOMAIN cfg'.params[m] :
                           SavedByFix(m, p, cfg'.params[m][p], Scaling)]_vars
<1> DEFINE Lowers == \A m \in Mods : \A p \in DOMAIN cfg'.params[m] : SavedByFix(m, p, cfg'.params[m][p], Scaling)
<1>1. MergeOK /\ AuditFix => Lowers
  <2> SUFFICES ASSUME MergeOK, AuditFix PROVE Lowers
    OBVIOUS
  <2>1. PICK params : /\ cfg' = [cfg EXCEPT !.params = params]
                      /\ \A m \in Mods : \A p \in DOMAIN params[m] : SavedByFix(m, p, params[m][p], Scaling)
    BY FixParams DEF MergeOK
  <2>2. cfg'.params = params
    BY <2>1 DEF MergeOK, SettingsOK
  <2> QED BY <2>1, <2>2
<1> HIDE DEF Lowers
<1>2. Spec => [][AuditFix => Lowers]_vars
  BY <1>1, InitMerge, StepMerge, PTL DEF Spec
<1> QED BY <1>2 DEF Lowers

(***************************************************************************)
(* What ships.                                                             *)
(***************************************************************************)

(* No two spellings that name one file have different keys.                *)
OneKey == \A s, t \in DOMAIN KeyOf :
            Internal[KeyOf[s]] = Internal[KeyOf[t]] /\ Internal[KeyOf[s]] # NoFile => KeyOf[s] = KeyOf[t]

LEMMA TargetSource ==
  ASSUME NEW r, PlanOf(r), NEW j \in 1..Len(r.plan.targets)
  PROVE  \E s \in DOMAIN KeyOf : KeyOf[s] = r.plan.targets[j].key
<1> DEFINE t == r.plan.targets[j]
<1>1. AreItems(t.items) /\ t.items # << >> /\ \A it \in Range(t.items) : KeyOf[it.source] = t.key
  BY PlanTargets
<1>2. t.items[1] \in Range(t.items)
  <2>1. t.items \in Seq(Range(t.items)) /\ t.items # << >>
    BY <1>1 DEF AreItems, IsSequence
  <2>2. 1 \in 1..Len(t.items)
    BY <2>1
  <2> QED BY <1>1, <2>2, SequenceIs DEF AreItems
<1> QED BY <1>1, <1>2 DEF AreItems, IsItem

LEMMA FilesApart ==
  ASSUME OneKey, NEW r, PlanOf(r), NEW i \in 1..Len(r.plan.targets), NEW j \in 1..Len(r.plan.targets),
         FileOf(r.plan.targets[i]) = FileOf(r.plan.targets[j]), FileOf(r.plan.targets[i]) # NoFile
  PROVE  i = j
<1>1. PICK s \in DOMAIN KeyOf : KeyOf[s] = r.plan.targets[i].key
  BY TargetSource
<1>2. PICK t \in DOMAIN KeyOf : KeyOf[t] = r.plan.targets[j].key
  BY TargetSource
<1>3. r.plan.targets[i].key = r.plan.targets[j].key
  BY <1>1, <1>2 DEF OneKey, FileOf
<1> QED BY <1>3, PlanTargets

(* With one key for a file, the edits of the key are the edits of the file. *)
LEMMA ItemsOfFile ==
  ASSUME OneKey, NEW r, PlanOf(r), NEW i \in 1..Len(r.plan.targets), FileOf(r.plan.targets[i]) # NoFile
  PROVE  r.plan.targets[i].items = EditsFor(EditsOf(r.cfg), FileOf(r.plan.targets[i]))
<1> DEFINE items == EditsOf(r.cfg)
    t == r.plan.targets[i]
<1>1. AreItems(items) /\ t.items = Those(items, OfKey(items, t.key))
  BY PlanTargets
<1>2. PICK s \in DOMAIN KeyOf : KeyOf[s] = t.key
  BY TargetSource
<1> HIDE DEF items
<1>3. \A it \in Range(items) : KeyOf[it.source] = t.key <=> Internal[KeyOf[it.source]] = FileOf(t)
  BY <1>1, <1>2 DEF OneKey, FileOf, AreItems, IsItem
<1>4. OfKey(items, t.key) = {it \in Range(items) : Internal[KeyOf[it.source]] = FileOf(t)}
  BY <1>3 DEF OfKey
<1> QED BY <1>1, <1>4 DEF EditsFor, items

LEMMA ShipsOutcome ==
  ASSUME OneKey, BuildOK, ShipsOK, run.on, NEW i \in 1..Len(run.plan.targets), i \notin DOMAIN run.outcomes,
         NEW o, o.is # "built", Outcome(i, o), out' = out
  PROVE  ShipsOK'
<1>1. PlanOf(run) /\ OutcomesOK(run) /\ ShippedOf(run, out)
  BY DEF BuildOK, ShipsOK
<1>2. run' = [run EXCEPT !.outcomes = With(@, i, o)]
  BY DEF Outcome
<1> DEFINE w == With(run.outcomes, i, o)
<1>3. /\ DOMAIN w = {i} \cup DOMAIN run.outcomes
      /\ w[i] = o /\ \A j \in DOMAIN run.outcomes : j # i => w[j] = run.outcomes[j]
  BY DEF With
<1>4. run' = [run EXCEPT !.outcomes = w]
  BY <1>2
<1> HIDE DEF w
<1>5. run'.plan = run.plan /\ run'.outcomes = w
  BY <1>1, <1>4 DEF PlanOf
<1>6. ShippedOf(run', out')
  BY <1>1, <1>3, <1>5 DEF ShippedOf
<1> QED BY <1>6 DEF ShipsOK

LEMMA ShipsCompile ==
  ASSUME OneKey, BuildOK, ShipsOK, Compile
  PROVE  ShipsOK'
<1> DEFINE o == [is |-> IF work.retry THEN "degraded" ELSE "built", file |-> File,
                 flags |-> work.flags, moved |-> work.moved, events |-> work.events]
    i == work.target
    w == With(run.outcomes, i, o)
    t == run.plan.targets[i]
<1>1. /\ work.on /\ run.on /\ PlanOf(run) /\ OutcomesOK(run) /\ WorkOK(work, run) /\ ShippedOf(run, out)
      /\ work.next > Len(work.items)
      /\ run' = [run EXCEPT !.outcomes = w] /\ out' = [out EXCEPT ![File] = work.lines]
      /\ DOMAIN out = DOMAIN Stock
  BY DEF BuildOK, ShipsOK, Compile, Merged, Outcome
<1>2. File = FileOf(t)
  BY DEF File, FileOf
<1>3. /\ DOMAIN w = {i} \cup DOMAIN run.outcomes
      /\ w[i] = o /\ \A j \in DOMAIN run.outcomes : j # i => w[j] = run.outcomes[j]
  BY DEF With
<1>4. /\ o.file = FileOf(t)
      /\ o.is = "built" => ~work.retry
  BY <1>2
<1> HIDE DEF w, o
<1>5. run'.plan = run.plan /\ run'.outcomes = w
  BY <1>1 DEF PlanOf
<1>6. i \in 1..Len(run.plan.targets) /\ i \notin DOMAIN run.outcomes /\ FileOf(t) # NoFile
  BY <1>1 DEF WorkOK
<1>7. FileOf(t) \in DOMAIN Stock
  BY <1>1, <1>6, PlanTargets
<1>8. out'[FileOf(t)] = work.lines /\ \A f : f # FileOf(t) => out'[f] = out[f]
  BY <1>1, <1>2, <1>7
<1>9. ~work.retry => out'[FileOf(t)] = MergeOf(Stock[FileOf(t)], t.items)
  <2> SUFFICES ASSUME ~work.retry PROVE out'[FileOf(t)] = MergeOf(Stock[FileOf(t)], t.items)
    OBVIOUS
  <2>1. work.items = t.items /\ work.lines = MergeUpTo(Stock[FileOf(t)], t.items, work.next - 1)
        /\ work.next \in 1..(Len(work.items) + 1) /\ IsSequence(work.items)
    BY <1>1 DEF WorkOK, AreItems
  <2>2. Len(t.items) \in Nat
    BY <2>1, SequenceIs
  <2>3. work.next - 1 = Len(t.items)
    BY <1>1, <2>1, <2>2
  <2> QED BY <1>8, <2>1, <2>3 DEF MergeOf
<1>10. ASSUME NEW j \in DOMAIN run'.outcomes, run'.outcomes[j].is = "built"
       PROVE  LET u == run'.plan.targets[j]
              IN  /\ run'.outcomes[j].file = FileOf(u) /\ FileOf(u) # NoFile
                  /\ out'[FileOf(u)] = MergeOf(Stock[FileOf(u)], u.items)
  <2>1. CASE j = i
    BY <1>3, <1>4, <1>5, <1>6, <1>9, <1>10, <2>1
  <2>2. CASE j # i
    <3> DEFINE u == run.plan.targets[j]
    <3>1. j \in DOMAIN run.outcomes /\ run'.outcomes[j] = run.outcomes[j]
      BY <1>3, <1>5, <1>10, <2>2
    <3>2. run.outcomes[j].file = FileOf(u) /\ FileOf(u) # NoFile /\ out[FileOf(u)] = MergeOf(Stock[FileOf(u)], u.items)
      BY <1>1, <1>10, <3>1 DEF ShippedOf
    <3>3. j \in 1..Len(run.plan.targets)
      BY <1>1, <3>1 DEF OutcomesOK
    <3>4. FileOf(u) # FileOf(t)
      BY <1>1, <1>6, <2>2, <3>2, <3>3, FilesApart
    <3> QED BY <1>5, <1>8, <3>1, <3>2, <3>4
  <2> QED BY <2>1, <2>2
<1>11. ShippedOf(run', out')
  BY <1>10 DEF ShippedOf
<1> QED BY <1>11 DEF ShipsOK

LEMMA StepShips == OneKey /\ SettingsOK /\ BuildOK /\ ShipsOK /\ [Next]_vars => ShipsOK'
<1> SUFFICES ASSUME OneKey, SettingsOK, BuildOK, ShipsOK, [Next]_vars PROVE ShipsOK'
  OBVIOUS
<1>1. ASSUME Settings \/ UNCHANGED vars PROVE ShipsOK'
  <2>1. run' = run /\ out' = out
    BY <1>1, Zenon DEF Settings, SetParam, SetModEnabled, MoveMod, Edit, AuditFix, vars
  <2> QED BY <2>1 DEF ShipsOK
<1>2. CASE BeginBuild
  <2>1. ~work.on
    BY <1>2 DEF BeginBuild, BuildOK
  <2>2. DOMAIN run'.outcomes = {}
    BY <1>2, <2>1, BeginBuildOK
  <2> QED BY <2>2 DEF ShipsOK, ShippedOf
<1>3. ASSUME NEW i \in Waiting, NoSource(i) PROVE ShipsOK'
  <2>1. run.on /\ out' = out /\ i \in 1..Len(run.plan.targets) /\ i \notin DOMAIN run.outcomes
    BY <1>3 DEF NoSource, Waiting
  <2>2. PICK o : o.is # "built" /\ Outcome(i, o)
    BY <1>3, NoSourceOK
  <2> QED BY <2>1, <2>2, ShipsOutcome
<1>4. ASSUME \/ \E i \in Waiting : StartTarget(i)
             \/ ApplyItem \/ AuditMerge \/ Retry
      PROVE ShipsOK'
  <2>1. run' = run /\ out' = out
    BY <1>4, Zenon DEF StartTarget, ApplyItem, AuditMerge, Retry
  <2> QED BY <2>1 DEF ShipsOK
<1>5. CASE Drop
  <2>1. PICK o : o.is # "built" /\ Outcome(work.target, o)
    BY <1>5, DropOK
  <2>2. run.on /\ out' = out /\ work.target \in 1..Len(run.plan.targets) /\ work.target \notin DOMAIN run.outcomes
    BY <1>5 DEF Drop, Merged, BuildOK, WorkOK
  <2> QED BY <2>1, <2>2, ShipsOutcome
<1>6. CASE Compile
  BY <1>6, ShipsCompile
<1>7. CASE FinishBuild \/ CancelBuild
  <2>1. ~run'.on
    BY <1>7 DEF FinishBuild, CancelBuild, Idle
  <2> QED BY <2>1 DEF ShipsOK
<1> QED BY <1>1, <1>2, <1>3, <1>4, <1>5, <1>6, <1>7 DEF Next, Building

(* A file the last report calls built is one of the game's.                *)
ReportOK == report.is => \A i \in 1..Len(report.outcomes) :
                           report.outcomes[i].is = "built" => report.outcomes[i].file \in DOMAIN Stock

LEMMA StillOn ==
  ASSUME BuildOK, [Next]_vars, ~FinishBuild, ~CancelBuild
  PROVE  report' = report /\ (run'.on \/ (run' = run /\ out' = out))
<1>1. ASSUME Settings \/ UNCHANGED vars PROVE report' = report /\ run' = run /\ out' = out
  BY <1>1, Zenon DEF Settings, SetParam, SetModEnabled, MoveMod, Edit, AuditFix, vars
<1>2. CASE BeginBuild
  BY <1>2 DEF BeginBuild
<1>3. ASSUME NEW i \in Waiting, NEW o, run.on, Outcome(i, o) PROVE run'.on
  <2> DEFINE w == With(run.outcomes, i, o)
  <2>1. run' = [run EXCEPT !.outcomes = w]
    BY <1>3 DEF Outcome
  <2> HIDE DEF w
  <2> QED BY <1>3, <2>1 DEF BuildOK, PlanOf
<1>4. ASSUME NEW i \in Waiting, NoSource(i) PROVE report' = report /\ run'.on
  BY <1>3, <1>4 DEF NoSource
<1>5. CASE Compile \/ Drop
  <2>1. run.on /\ report' = report /\ work.target \in Waiting /\ \E o : Outcome(work.target, o)
    BY <1>5 DEF Compile, Drop, Merged, BuildOK, WorkOK, Waiting
  <2> QED BY <1>3, <2>1
<1>6. ASSUME (\E i \in Waiting : StartTarget(i)) \/ ApplyItem \/ AuditMerge \/ Retry
      PROVE  report' = report /\ run' = run /\ out' = out
  BY <1>6, Zenon DEF StartTarget, ApplyItem, AuditMerge, Retry
<1> QED BY <1>1, <1>2, <1>4, <1>5, <1>6 DEF Next, Building

LEMMA FinishedOutcomes ==
  ASSUME BuildOK, FinishBuild
  PROVE  LET N == Len(run.plan.targets)
         IN  /\ N \in Nat /\ DOMAIN run.outcomes = 1..N /\ report'.outcomes = Outcomes
             /\ IsSequence(Outcomes) /\ Range(Outcomes) = {run.outcomes[i] : i \in 1..N}
             /\ Len(Outcomes) = N /\ \A i \in 1..N : Outcomes[i] = run.outcomes[i]
<1> DEFINE N == Len(run.plan.targets)
    s == Outcomes
<1>1. PlanOf(run) /\ OutcomesOK(run) /\ Waiting = {} /\ report'.outcomes = s
  BY DEF BuildOK, FinishBuild
<1>2. N \in Nat /\ DOMAIN run.outcomes = 1..N
  BY <1>1, PlanTargets DEF OutcomesOK, Waiting
<1>3. DOMAIN s = 1..N /\ s = [i \in 1..N |-> s[i]] /\ \A i \in 1..N : s[i] = run.outcomes[i]
  BY DEF Outcomes
<1> HIDE DEF s, N
<1>4. IsSequence(s) /\ Range(s) = {s[i] : i \in 1..N} /\ Len(s) = N
  BY <1>2, <1>3, FunctionSequence
<1>5. {s[i] : i \in 1..N} = {run.outcomes[i] : i \in 1..N}
  BY <1>3
<1> QED BY <1>1, <1>2, <1>3, <1>4, <1>5 DEF s, N

LEMMA StepReport == BuildOK /\ ShipsOK /\ ReportOK /\ [Next]_vars => ReportOK'
<1> SUFFICES ASSUME BuildOK, ShipsOK, ReportOK, [Next]_vars PROVE ReportOK'
  OBVIOUS
<1>1. CASE FinishBuild
  <2>1. PlanOf(run) /\ ShippedOf(run, out)
    BY <1>1 DEF BuildOK, ShipsOK, FinishBuild
  <2>2. ASSUME NEW i \in 1..Len(report'.outcomes), report'.outcomes[i].is = "built"
        PROVE  report'.outcomes[i].file \in DOMAIN Stock
    BY <1>1, <2>1, <2>2, FinishedOutcomes, PlanTargets DEF ShippedOf
  <2> QED BY <2>2 DEF ReportOK
<1>2. CASE ~FinishBuild
  <2>1. report' = report
    BY <1>2, StillOn DEF CancelBuild
  <2> QED BY <2>1 DEF ReportOK
<1> QED BY <1>1, <1>2

LEMMA StepEveryEditShips == OneKey /\ BuildOK /\ ShipsOK /\ ReportOK /\ EveryEditShips /\ [Next]_vars => EveryEditShips'
<1> SUFFICES ASSUME OneKey, BuildOK, ShipsOK, ReportOK, EveryEditShips, [Next]_vars PROVE EveryEditShips'
  OBVIOUS
<1>1. CASE FinishBuild
  <2>1. PlanOf(run) /\ ShippedOf(run, out) /\ out' = out /\ report'.cfg = run.cfg
    BY <1>1 DEF BuildOK, ShipsOK, FinishBuild
  <2>2. ASSUME NEW i \in 1..Len(report'.outcomes), report'.outcomes[i].is = "built"
        PROVE  LET f == report'.outcomes[i].file
               IN  out'[f] = MergeOf(Stock[f], EditsFor(EditsOf(report'.cfg), f))
    <3> DEFINE t == run.plan.targets[i]
    <3>1. i \in 1..Len(run.plan.targets) /\ i \in DOMAIN run.outcomes /\ report'.outcomes[i] = run.outcomes[i]
      BY <1>1, FinishedOutcomes
    <3>2. run.outcomes[i].file = FileOf(t) /\ FileOf(t) # NoFile /\ out[FileOf(t)] = MergeOf(Stock[FileOf(t)], t.items)
      BY <2>1, <2>2, <3>1 DEF ShippedOf
    <3>3. t.items = EditsFor(EditsOf(run.cfg), FileOf(t))
      BY <2>1, <3>1, <3>2, ItemsOfFile
    <3> QED BY <2>1, <3>1, <3>2, <3>3
  <2> QED BY <2>2 DEF EveryEditShips
<1>2. CASE CancelBuild
  <2>1. out' = [f \in DOMAIN Stock |-> << >>] /\ report' = report
    BY <1>2 DEF CancelBuild
  <2>2. \A f \in DOMAIN Stock : out'[f] = << >>
    BY <2>1
  <2> QED BY <2>1, <2>2 DEF EveryEditShips, ReportOK
<1>3. CASE ~FinishBuild /\ ~CancelBuild
  <2>1. report' = report /\ (run'.on \/ (run' = run /\ out' = out))
    BY <1>3, StillOn
  <2> QED BY <2>1 DEF EveryEditShips
<1> QED BY <1>1, <1>2, <1>3

(* Unless two spellings of a file have different keys: a file the report   *)
(* calls built holds the game's own lines with every edit that every mod   *)
(* enabled in the settings of that build has for it, in build order.       *)
THEOREM ShipsEveryEdit == OneKey => (Spec => []EveryEditShips)
<1> SUFFICES ASSUME OneKey PROVE Spec => []EveryEditShips
  OBVIOUS
<1>1. Init => ShipsOK /\ ReportOK /\ EveryEditShips
  BY DEF Init, Idle, NoReport, ShipsOK, ReportOK, EveryEditShips
<1>2. MergeOK /\ ShipsOK /\ ReportOK /\ EveryEditShips /\ [Next]_vars
        => MergeOK' /\ ShipsOK' /\ ReportOK' /\ EveryEditShips'
  BY StepMerge, StepShips, StepReport, StepEveryEditShips DEF MergeOK
<1> QED BY <1>1, <1>2, InitMerge, PTL DEF Spec

(***************************************************************************)
(* What is said of it.                                                     *)
(***************************************************************************)

(* A mod with no event that tells of an edit moved no line of any file.    *)
LEMMA OkCount ==
  ASSUME BuildOK, FinishBuild, NEW m
  PROVE  /\ EventsOf(m, "ok") \in Nat
         /\ EventsOf(m, "ok") = 0 => \A i \in 1..Len(run.plan.targets) : m \notin run.outcomes[i].moved
<1> DEFINE N == Len(run.plan.targets)
    Each == [j \in 1..Len(Outcomes) |-> Outcomes[j].events]
    all == FlattenSeq(Each)
    hits == {k \in 1..Len(all) : all[k].mod = m /\ all[k].kind = "ok"}
<1>1. /\ N \in Nat /\ DOMAIN run.outcomes = 1..N
      /\ Len(Outcomes) = N /\ \A j \in 1..N : Outcomes[j] = run.outcomes[j]
  BY FinishedOutcomes
<1>2. \A j \in 1..N : TellsOf(run.outcomes[j].moved, run.outcomes[j].events)
  BY <1>1 DEF BuildOK, FinishBuild, OutcomesOK, OutcomeOK
<1>3. EventsOf(m, "ok") = Cardinality(hits)
  BY DEF EventsOf
<1>4. DOMAIN Each = 1..N /\ Each = [j \in 1..N |-> Each[j]] /\ \A j \in 1..N : Each[j] = run.outcomes[j].events
  BY <1>1
<1> HIDE DEF Each, N
<1>5. IsSequence(Each) /\ Range(Each) = {Each[j] : j \in 1..N}
  BY <1>1, <1>4, FunctionSequence
<1>6. \A s \in Range(Each) : IsSequence(s)
  BY <1>2, <1>4, <1>5 DEF TellsOf
<1>7. IsSequence(all) /\ Range(all) = UNION {Range(s) : s \in Range(Each)}
  BY <1>5, <1>6, Flattened
<1> HIDE DEF all
<1>8. Len(all) \in Nat /\ Range(all) = {all[k] : k \in 1..Len(all)}
  BY <1>7, SequenceIs
<1>9. IsFiniteSet(hits)
  <2>1. IsFiniteSet(1..Len(all)) /\ hits \subseteq 1..Len(all)
    BY <1>8, FS_Interval
  <2> HIDE DEF hits
  <2> QED BY <2>1, FS_Subset
<1>10. ASSUME NEW i \in 1..N, m \in run.outcomes[i].moved PROVE hits # {}
  <2>1. PICK e \in Range(run.outcomes[i].events) : e.mod = m /\ e.kind = "ok"
    BY <1>2, <1>10 DEF TellsOf, Tells
  <2>2. Range(run.outcomes[i].events) \in {Range(s) : s \in Range(Each)}
    BY <1>4, <1>5
  <2>3. e \in Range(all)
    BY <1>7, <2>1, <2>2
  <2> QED BY <1>8, <2>1, <2>3
<1> HIDE DEF hits
<1>11. Cardinality(hits) \in Nat /\ (Cardinality(hits) = 0 <=> hits = {})
  BY <1>9, FS_CardinalityType, FS_EmptySet
<1> QED BY <1>3, <1>10, <1>11 DEF N

LEMMA StepVerdicts == BuildOK /\ VerdictsHonest /\ [Next]_vars => VerdictsHonest'
<1> SUFFICES ASSUME BuildOK, VerdictsHonest, [Next]_vars PROVE VerdictsHonest'
  OBVIOUS
<1>1. CASE ~FinishBuild
  <2>1. report' = report
    BY <1>1, StillOn DEF CancelBuild
  <2> QED BY <2>1 DEF VerdictsHonest
<1>2. CASE FinishBuild
  <2> DEFINE N == Len(run.plan.targets)
      T(i) == run.plan.targets[i]
      Is(i, k) == run.outcomes[i].is = k
      Mine(m) == {i \in 1..N : m \in ModsOf(T(i).items)}
      Lost(m) == {i \in Mine(m) : Is(i, "dropped")}
                 \cup {i \in Mine(m) : Is(i, "degraded") /\ m \in StructuralMods(T(i).items)}
  <2>1. /\ report'.targets = run.plan.targets /\ report'.outcomes = Outcomes
        /\ report'.rows = [m \in run.plan.enabled |-> Verdict(m)]
    BY <1>2 DEF FinishBuild
  <2>2. /\ N \in Nat /\ DOMAIN run.outcomes = 1..N /\ Len(Outcomes) = N
        /\ \A i \in 1..N : Outcomes[i] = run.outcomes[i]
    BY <1>2, FinishedOutcomes
  <2>3. \A i \in 1..N : run.outcomes[i].is \in {"no-source", "built", "degraded", "dropped"}
    BY <1>2, <2>2 DEF BuildOK, FinishBuild, OutcomesOK, OutcomeOK
  <2>4. ASSUME NEW m, Lost(m) # {} PROVE m \in Degraded \cup Dropped
    <3>1. PICK i \in Mine(m) : Is(i, "dropped") \/ (Is(i, "degraded") /\ m \in StructuralMods(T(i).items))
      BY <2>4
    <3>2. i \in 1..Len(Outcomes) /\ Outcomes[i] = run.outcomes[i] /\ m \in ModsOf(T(i).items)
      BY <2>2
    <3>3. CASE Is(i, "dropped")
      <4>1. i \in Named("dropped")
        BY <3>2, <3>3 DEF Named
      <4> QED BY <3>2, <4>1 DEF Dropped
    <3>4. CASE Is(i, "degraded") /\ m \in StructuralMods(T(i).items)
      <4>1. i \in Named("degraded")
        BY <3>2, <3>4 DEF Named
      <4> QED BY <3>4, <4>1 DEF Degraded
    <3> QED BY <3>1, <3>3, <3>4
  <2>5. ASSUME NEW m \in run.plan.enabled
        PROVE  LET row == Verdict(m)
               IN  /\ row = "NOT BUILT" => \A i \in Mine(m) : m \notin run.outcomes[i].moved
                   /\ Lost(m) # {} => row \in {"NOT BUILT", "PARTIAL"}
                   /\ row = "WORKING" => \A i \in Mine(m) : Is(i, "no-source") \/ Is(i, "built") \/ Is(i, "degraded")
    <3> DEFINE oks == EventsOf(m, "ok")
        hurt == m \in Degraded \cup Dropped
        skipped == EventsOf(m, "warn") + (IF m \in run.plan.issues THEN 1 ELSE 0)
        row == Verdict(m)
    <3>1. oks \in Nat
      BY <1>2, OkCount
    <3>2. row = CASE oks = 0 -> "NOT BUILT"
                  [] oks > 0 /\ hurt -> "PARTIAL"
                  [] oks > 0 /\ ~hurt -> IF m \in run.plan.complex THEN "WORKING*"
                                         ELSE IF skipped > 0 THEN "WORKING~" ELSE "WORKING"
      BY DEF Verdict
    <3>3. Lost(m) # {} => hurt
      BY <2>4
    <3>4. oks = 0 => \A i \in Mine(m) : m \notin run.outcomes[i].moved
      BY <1>2, OkCount
    <3>5. ~hurt => \A i \in Mine(m) : ~Is(i, "dropped")
      BY <3>3
    <3> HIDE DEF oks, hurt, skipped, row, Lost
    <3>6. /\ row = "NOT BUILT" => oks = 0
          /\ hurt => row \in {"NOT BUILT", "PARTIAL"}
          /\ row = "WORKING" => ~hurt
      <4>1. CASE oks = 0
        <5>1. ~(oks > 0)
          BY <4>1
        <5>2. row = "NOT BUILT"
          BY <3>2, <4>1, <5>1, Zenon
        <5> QED BY <4>1, <5>2
      <4>2. CASE oks # 0 /\ hurt
        <5>1. row = "PARTIAL"
          BY <3>1, <3>2, <4>2
        <5> QED BY <4>2, <5>1
      <4>3. CASE oks # 0 /\ ~hurt
        <5>1. row = IF m \in run.plan.complex THEN "WORKING*" ELSE IF skipped > 0 THEN "WORKING~" ELSE "WORKING"
          BY <3>1, <3>2, <4>3
        <5> QED BY <4>3, <5>1
      <4> QED BY <4>1, <4>2, <4>3
    <3>7. /\ row = "NOT BUILT" => \A i \in Mine(m) : m \notin run.outcomes[i].moved
          /\ Lost(m) # {} => row \in {"NOT BUILT", "PARTIAL"}
          /\ row = "WORKING" => \A i \in Mine(m) : Is(i, "no-source") \/ Is(i, "built") \/ Is(i, "degraded")
      BY <2>3, <3>3, <3>4, <3>5, <3>6
    <3> QED BY <3>7 DEF row
  <2>6. ASSUME NEW m \in DOMAIN report'.rows
        PROVE  LET mine == {i \in 1..Len(report'.targets) : m \in ModsOf(report'.targets[i].items)}
                   Was(i, o) == report'.outcomes[i].is = o
                   lost == {i \in mine : Was(i, "dropped")}
                           \cup {i \in mine : Was(i, "degraded") /\ m \in StructuralMods(report'.targets[i].items)}
               IN  /\ report'.rows[m] = "NOT BUILT" => \A i \in mine : m \notin report'.outcomes[i].moved
                   /\ lost # {} => report'.rows[m] \in {"NOT BUILT", "PARTIAL"}
                   /\ report'.rows[m] = "WORKING" =>
                         \A i \in mine : Was(i, "no-source") \/ Was(i, "built") \/ Was(i, "degraded")
    <3>1. m \in run.plan.enabled /\ report'.rows[m] = Verdict(m)
      BY <2>1, <2>6
    <3>2. Mine(m) = {i \in 1..Len(report'.targets) : m \in ModsOf(report'.targets[i].items)}
      BY <2>1
    <3>3. \A i \in Mine(m) : report'.outcomes[i] = run.outcomes[i] /\ report'.targets[i] = T(i)
      BY <2>1, <2>2
    <3> DEFINE mine == {i \in 1..Len(report'.targets) : m \in ModsOf(report'.targets[i].items)}
        lost == {i \in mine : report'.outcomes[i].is = "dropped"}
                \cup {i \in mine : report'.outcomes[i].is = "degraded" /\ m \in StructuralMods(report'.targets[i].items)}
    <3>4. lost = Lost(m)
      BY <3>2, <3>3
    <3> HIDE DEF mine, lost, Mine, Lost, T
    <3>5. /\ report'.rows[m] = "NOT BUILT" => \A i \in mine : m \notin report'.outcomes[i].moved
          /\ lost # {} => report'.rows[m] \in {"NOT BUILT", "PARTIAL"}
          /\ report'.rows[m] = "WORKING" =>
                \A i \in mine : \/ report'.outcomes[i].is = "no-source" \/ report'.outcomes[i].is = "built"
                                \/ report'.outcomes[i].is = "degraded"
      BY <2>5, <3>1, <3>2, <3>3, <3>4 DEF mine
    <3> QED BY <3>5 DEF mine, lost
  <2> QED BY <2>6 DEF VerdictsHonest
<1> QED BY <1>1, <1>2

(* NOT BUILT, PARTIAL and WORKING say what happened, whatever the scripts,  *)
(* the files and the order they were merged in.                            *)
THEOREM HonestVerdicts == Spec => []VerdictsHonest
<1>1. Init => VerdictsHonest
  <2> SUFFICES ASSUME Init PROVE VerdictsHonest
    OBVIOUS
  <2>1. ~report.is
    BY DEF Init, NoReport
  <2> QED BY <2>1, Zenon DEF VerdictsHonest
<1>2. MergeOK /\ VerdictsHonest /\ [Next]_vars => MergeOK' /\ VerdictsHonest'
  BY StepMerge, StepVerdicts DEF MergeOK
<1> QED BY <1>1, <1>2, InitMerge, PTL DEF Spec

==============================================================================
