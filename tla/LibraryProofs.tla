---------------------------- MODULE LibraryProofs ----------------------------
(***************************************************************************)
(* Theorems about the settings and the mod library, for any mods, texts,   *)
(* requests and number of programs.  See README.md for the argument.       *)
(***************************************************************************)
EXTENDS Library, SequenceTheorems, WellFoundedInduction, TLAPS

(***************************************************************************)
(* Induction, and what Those computes of any sequence.  The library states *)
(* induction of an operator; here it is of a set, which the provers can    *)
(* instantiate.                                                            *)
(***************************************************************************)

(* A set of naturals with a member has a least one.                        *)
LEMMA LeastNatural ==
  ASSUME NEW S \in SUBSET Nat, S # {}
  PROVE  \E n \in S : \A m \in S : n <= m
<1> DEFINE R == OpToRel(<,Nat)
<1>1. IsWellFoundedOn(R, Nat)
  BY NatLessThanWellFounded
<1>2. R = {pair \in Nat \X Nat : pair[1] < pair[2]}
  BY DEF OpToRel
<1> HIDE DEF R
<1>3. PICK n \in S : \A m \in S : <<m, n>> \notin R
  BY <1>1, WFMin
<1>4. ASSUME NEW m \in S PROVE n <= m
  <2>1. m \in Nat /\ n \in Nat /\ (<<m, n>> \in R <=> m < n)
    BY <1>2
  <2> QED BY <1>3, <2>1
<1> QED BY <1>4

(* Induction, of the members of a set.                                     *)
LEMMA Induction ==
  ASSUME NEW S, 0 \in S, \A n \in Nat : n \in S => n + 1 \in S
  PROVE  Nat \subseteq S
<1> SUFFICES ASSUME Nat \ S # {} PROVE FALSE
  OBVIOUS
<1>1. PICK n \in Nat \ S : \A m \in Nat \ S : n <= m
  BY LeastNatural
<1>2. n # 0 /\ n - 1 \in Nat /\ (n - 1) + 1 = n /\ ~(n <= n - 1)
  BY <1>1
<1> QED BY <1>1, <1>2

(* The same up to a bound.                                                 *)
LEMMA InductionUpTo ==
  ASSUME NEW N \in Nat, NEW S, 0 \in S, \A n \in 0..(N - 1) : n \in S => n + 1 \in S
  PROVE  0..N \subseteq S
<1> DEFINE T == S \cup {n \in Nat : n > N}
<1>1. 0 \in T /\ \A n \in Nat : n \in T => n + 1 \in T
  <2>1. ASSUME NEW n \in Nat, n \in S PROVE n + 1 \in T
    <3>1. CASE n <= N - 1
      BY <2>1, <3>1
    <3>2. CASE n > N - 1
      BY <3>2
    <3> QED BY <3>1, <3>2
  <2> QED BY <2>1
<1> HIDE DEF T
<1>2. Nat \subseteq T
  BY <1>1, Induction
<1> QED BY <1>2 DEF T

(* The recursion of Those: f holds what was chosen after each element.     *)
Choice(f, s, S, i) == IF i = 0 THEN << >> ELSE IF s[i] \in S THEN Append(f[i - 1], s[i]) ELSE f[i - 1]
Chooses(f, s, S)   == f = [i \in 0..Len(s) |-> Choice(f, s, S, i)]

(* There is a function that satisfies the recursion, and its values are    *)
(* sequences of elements of s.                                             *)
LEMMA SelectionSteps ==
  ASSUME NEW T, NEW s \in Seq(T), NEW S
  PROVE  \E f \in [0..Len(s) -> Seq(T)] : Chooses(f, s, S)
<1> DEFINE Upto(n) == {f \in [0..n -> Seq(T)] : \A i \in 0..n : f[i] = Choice(f, s, S, i)}
    Has == {n \in 0..Len(s) : Upto(n) # {}}
<1>1. Len(s) \in Nat /\ \A i \in 1..Len(s) : s[i] \in T
  OBVIOUS
<1>2. 0 \in Has
  <2> DEFINE g == [i \in 0..0 |-> << >>]
  <2>1. g \in [0..0 -> Seq(T)] /\ \A i \in 0..0 : i = 0 /\ g[i] = << >>
    OBVIOUS
  <2>2. g \in Upto(0)
    BY <2>1 DEF Choice
  <2> HIDE DEF g, Upto
  <2> QED BY <1>1, <2>2
<1>3. ASSUME NEW n \in 0..(Len(s) - 1), n \in Has PROVE n + 1 \in Has
  <2>1. PICK f \in [0..n -> Seq(T)] : \A i \in 0..n : f[i] = Choice(f, s, S, i)
    BY <1>3
  <2> DEFINE last == IF s[n + 1] \in S THEN Append(f[n], s[n + 1]) ELSE f[n]
      g == [i \in 0..(n + 1) |-> IF i = n + 1 THEN last ELSE f[i]]
  <2>2. n \in Nat /\ n + 1 \in 1..Len(s) /\ n \in 0..n /\ n + 1 \notin 0..n
    BY <1>1
  <2>3. f[n] \in Seq(T) /\ last \in Seq(T)
    BY <1>1, <2>1, <2>2
  <2>4. g \in [0..(n + 1) -> Seq(T)]
    BY <2>1, <2>2, <2>3
  <2>5. ASSUME NEW i \in 0..(n + 1) PROVE g[i] = Choice(g, s, S, i)
    <3>1. CASE i = n + 1
      <4>1. g[i] = last /\ g[i - 1] = f[n] /\ i # 0
        BY <2>2, <3>1
      <4> QED BY <3>1, <4>1 DEF Choice
    <3>2. CASE i = 0
      BY <2>1, <2>2, <3>2 DEF Choice
    <3>3. CASE i # 0 /\ i # n + 1
      <4>1. i \in 0..n /\ i - 1 \in 0..n
        BY <2>2, <3>3
      <4>2. g[i] = f[i] /\ g[i - 1] = f[i - 1]
        BY <2>2, <4>1
      <4> QED BY <2>1, <4>1, <4>2, <3>3 DEF Choice
    <3> QED BY <3>1, <3>2, <3>3
  <2>6. g \in Upto(n + 1)
    BY <2>4, <2>5
  <2> HIDE DEF g, Upto
  <2> QED BY <1>1, <2>2, <2>6
<1>4. Len(s) \in Has
  <2> HIDE DEF Has
  <2>1. 0..Len(s) \subseteq Has
    BY <1>1, <1>2, <1>3, InductionUpTo
  <2> QED BY <1>1, <2>1
<1>5. PICK f \in [0..Len(s) -> Seq(T)] : \A i \in 0..Len(s) : f[i] = Choice(f, s, S, i)
  BY <1>4
<1>6. f = [i \in 0..Len(s) |-> f[i]]
  BY <1>5
<1>7. f = [i \in 0..Len(s) |-> Choice(f, s, S, i)]
  BY <1>5, <1>6
<1> QED BY <1>5, <1>7 DEF Chooses

(* The recursion, one element at a time.                                   *)
LEMMA ChoiceSteps ==
  ASSUME NEW T, NEW s \in Seq(T), NEW S, NEW f, Chooses(f, s, S)
  PROVE  /\ f[0] = << >>
         /\ \A i \in 1..Len(s) : f[i] = IF s[i] \in S THEN Append(f[i - 1], s[i]) ELSE f[i - 1]
<1>1. Len(s) \in Nat /\ 0 \in 0..Len(s) /\ \A i \in 1..Len(s) : i \in 0..Len(s) /\ i # 0
  OBVIOUS
<1> DEFINE g == [i \in 0..Len(s) |-> Choice(f, s, S, i)]
<1>2. f = g
  BY DEF Chooses
<1>3. \A i \in 0..Len(s) : g[i] = Choice(f, s, S, i)
  OBVIOUS
<1> HIDE DEF g
<1>4. \A i \in 0..Len(s) : f[i] = Choice(f, s, S, i)
  BY <1>2, <1>3
<1> QED BY <1>1, <1>4 DEF Choice

(* Those(s, S) is the last value of a function that satisfies it.          *)
LEMMA Selecting ==
  ASSUME NEW T, NEW s \in Seq(T), NEW S
  PROVE  \E f \in [0..Len(s) -> Seq(T)] : Chooses(f, s, S) /\ Those(s, S) = f[Len(s)]
<1> DEFINE G == CHOOSE f : Chooses(f, s, S)
<1>1. PICK f \in [0..Len(s) -> Seq(T)] : Chooses(f, s, S)
  BY SelectionSteps
<1>2. Chooses(G, s, S)
  BY <1>1, Zenon
<1>3. Those(s, S) = G[Len(s)]
  BY DEF Those, Chooses, Choice
<1> DEFINE Same == {i \in 0..Len(s) : G[i] = f[i]}
<1> HIDE DEF G
<1>4. Len(s) \in Nat /\ \A i \in 1..Len(s) : i \in 0..Len(s) /\ i - 1 \in 0..Len(s) /\ i # 0
  OBVIOUS
<1>5. /\ G[0] = << >>
      /\ \A i \in 1..Len(s) : G[i] = IF s[i] \in S THEN Append(G[i - 1], s[i]) ELSE G[i - 1]
  BY <1>2, ChoiceSteps
<1>6. /\ f[0] = << >>
      /\ \A i \in 1..Len(s) : f[i] = IF s[i] \in S THEN Append(f[i - 1], s[i]) ELSE f[i - 1]
  BY <1>1, ChoiceSteps
<1>7. 0..Len(s) \subseteq Same
  <2>1. 0 \in Same
    BY <1>4, <1>5, <1>6
  <2>2. ASSUME NEW n \in 0..(Len(s) - 1), n \in Same PROVE n + 1 \in Same
    <3>1. n + 1 \in 1..Len(s) /\ (n + 1) - 1 = n /\ G[n] = f[n]
      BY <1>4, <2>2
    <3> QED BY <1>4, <1>5, <1>6, <3>1
  <2> HIDE DEF Same
  <2> QED BY <1>4, <2>1, <2>2, InductionUpTo
<1>8. Those(s, S) = f[Len(s)]
  BY <1>3, <1>4, <1>7
<1> QED BY <1>1, <1>8

LEMMA ThoseOfNothing ==
  ASSUME NEW T, NEW s \in Seq(T), NEW S, Len(s) = 0
  PROVE  Those(s, S) = << >>
<1>1. PICK f \in [0..Len(s) -> Seq(T)] : Chooses(f, s, S) /\ Those(s, S) = f[Len(s)]
  BY Selecting, Zenon
<1>2. /\ f[0] = << >>
      /\ \A i \in 1..Len(s) : f[i] = IF s[i] \in S THEN Append(f[i - 1], s[i]) ELSE f[i - 1]
  BY <1>1, ChoiceSteps
<1> QED BY <1>1, <1>2

LEMMA ThoseOfEmpty == ASSUME NEW S PROVE Those(<< >>, S) = << >>
<1>1. << >> \in Seq({}) /\ Len(<< >>) = 0
  OBVIOUS
<1> QED BY <1>1, ThoseOfNothing, Zenon

LEMMA ThoseOfAppend ==
  ASSUME NEW T, NEW s \in Seq(T), NEW e \in T, NEW S
  PROVE  Those(Append(s, e), S) = IF e \in S THEN Append(Those(s, S), e) ELSE Those(s, S)
<1> DEFINE t == Append(s, e)
    N == Len(s)
<1>1. t \in Seq(T) /\ Len(t) = N + 1 /\ t[N + 1] = e /\ N \in Nat /\ \A i \in 1..N : t[i] = s[i]
  OBVIOUS
<1> HIDE DEF t
<1>2. PICK f \in [0..Len(s) -> Seq(T)] : Chooses(f, s, S) /\ Those(s, S) = f[Len(s)]
  BY Selecting, Zenon
<1>3. PICK g \in [0..Len(t) -> Seq(T)] : Chooses(g, t, S) /\ Those(t, S) = g[Len(t)]
  BY <1>1, Selecting, Zenon
<1>4. /\ f[0] = << >>
      /\ \A i \in 1..N : f[i] = IF s[i] \in S THEN Append(f[i - 1], s[i]) ELSE f[i - 1]
  BY <1>2, ChoiceSteps
<1>5. /\ g[0] = << >>
      /\ \A i \in 1..Len(t) : g[i] = IF t[i] \in S THEN Append(g[i - 1], t[i]) ELSE g[i - 1]
  BY <1>1, <1>3, ChoiceSteps
<1>6. Those(s, S) = f[N]
  BY <1>2
<1> HIDE DEF N
<1> DEFINE Same == {i \in 0..N : g[i] = f[i]}
<1>7. 0..N \subseteq Same
  <2>1. 0 \in Same
    BY <1>1, <1>4, <1>5
  <2>2. ASSUME NEW n \in 0..(N - 1), n \in Same PROVE n + 1 \in Same
    <3>1. n + 1 \in 1..N /\ n + 1 \in 1..Len(t) /\ (n + 1) - 1 = n /\ g[n] = f[n] /\ n + 1 \in 0..N
      BY <1>1, <2>2
    <3>2. t[n + 1] = s[n + 1]
      BY <1>1, <3>1
    <3> QED BY <1>4, <1>5, <3>1, <3>2
  <2> HIDE DEF Same
  <2> QED BY <1>1, <2>1, <2>2, InductionUpTo
<1>8. g[N] = f[N]
  BY <1>1, <1>7
<1>9. Len(t) \in 1..Len(t) /\ Len(t) - 1 = N /\ t[Len(t)] = e
  BY <1>1
<1>10. Those(t, S) = IF e \in S THEN Append(g[N], e) ELSE g[N]
  BY <1>3, <1>5, <1>9
<1> QED BY <1>6, <1>8, <1>10 DEF t

(* Induction over sequences, of the members of a set.                      *)
LEMMA SequenceInduction ==
  ASSUME NEW T, NEW P, << >> \in P, \A s \in Seq(T), e \in T : s \in P => Append(s, e) \in P
  PROVE  Seq(T) \subseteq P
<1> DEFINE All == {n \in Nat : \A s \in Seq(T) : Len(s) = n => s \in P}
<1>1. 0 \in All
  OBVIOUS
<1>2. ASSUME NEW n \in Nat, n \in All PROVE n + 1 \in All
  <2> SUFFICES ASSUME NEW s \in Seq(T), Len(s) = n + 1 PROVE s \in P
    OBVIOUS
  <2> DEFINE r == SubSeq(s, 1, n)
  <2>1. r \in Seq(T) /\ Len(r) = n /\ s[n + 1] \in T /\ s = Append(r, s[n + 1])
    OBVIOUS
  <2>2. r \in P
    BY <1>2, <2>1
  <2> HIDE DEF r
  <2> QED BY <2>1, <2>2
<1>3. Nat \subseteq All
  <2> HIDE DEF All
  <2> QED BY <1>1, <1>2, Induction
<1> QED BY <1>3

(* What is chosen: sequences of the chosen, no longer than before.         *)
LEMMA ThoseType ==
  ASSUME NEW T, NEW s \in Seq(T), NEW S
  PROVE  Those(s, S) \in Seq(T \cap S)
<1> DEFINE P == {r \in Seq(T) : Those(r, S) \in Seq(T \cap S)}
<1>1. << >> \in P
  <2>1. << >> \in Seq(T) /\ << >> \in Seq(T \cap S) /\ Those(<< >>, S) = << >>
    BY ThoseOfEmpty
  <2> QED BY <2>1
<1>2. ASSUME NEW r \in Seq(T), NEW e \in T, r \in P PROVE Append(r, e) \in P
  <2>0. Append(r, e) \in Seq(T)
    OBVIOUS
  <2>1. Those(Append(r, e), S) = IF e \in S THEN Append(Those(r, S), e) ELSE Those(r, S)
    BY ThoseOfAppend
  <2> QED BY <1>2, <2>0, <2>1
<1> HIDE DEF P
<1>3. Seq(T) \subseteq P
  BY <1>1, <1>2, SequenceInduction
<1> QED BY <1>3 DEF P

LEMMA ElementsOfAppend ==
  ASSUME NEW T, NEW s \in Seq(T), NEW e \in T
  PROVE  Range(Append(s, e)) = Range(s) \cup {e}
<1>1. /\ DOMAIN s = 1..Len(s) /\ DOMAIN Append(s, e) = 1..(Len(s) + 1) /\ Len(s) \in Nat
      /\ Append(s, e)[Len(s) + 1] = e /\ \A i \in 1..Len(s) : Append(s, e)[i] = s[i]
  OBVIOUS
<1>2. \A i \in 1..(Len(s) + 1) : i \in 1..Len(s) \/ i = Len(s) + 1
  BY <1>1
<1>3. 1..Len(s) \subseteq 1..(Len(s) + 1) /\ Len(s) + 1 \in 1..(Len(s) + 1)
  BY <1>1
<1> QED BY <1>1, <1>2, <1>3 DEF Range

(* The elements chosen are those of the sequence that are in the set.      *)
LEMMA ThoseRange ==
  ASSUME NEW T, NEW s \in Seq(T), NEW S
  PROVE  Range(Those(s, S)) = Range(s) \cap S
<1> DEFINE P == {r \in Seq(T) : Range(Those(r, S)) = Range(r) \cap S}
<1>1. << >> \in P
  BY ThoseOfEmpty DEF Range
<1>2. ASSUME NEW r \in Seq(T), NEW e \in T, r \in P PROVE Append(r, e) \in P
  <2>0. Append(r, e) \in Seq(T)
    OBVIOUS
  <2>1. Those(Append(r, e), S) = IF e \in S THEN Append(Those(r, S), e) ELSE Those(r, S)
    BY ThoseOfAppend
  <2>2. Range(Append(r, e)) = Range(r) \cup {e}
    BY ElementsOfAppend
  <2>3. Those(r, S) \in Seq(T \cap S)
    BY ThoseType
  <2>4. e \in S => Range(Append(Those(r, S), e)) = Range(Those(r, S)) \cup {e}
    BY <2>3, ElementsOfAppend
  <2> QED BY <1>2, <2>0, <2>1, <2>2, <2>4
<1> HIDE DEF P
<1>3. Seq(T) \subseteq P
  BY <1>1, <1>2, SequenceInduction
<1> QED BY <1>3 DEF P

(* Choosing from two sequences in turn.                                    *)
LEMMA ThoseOfConcat ==
  ASSUME NEW T, NEW s \in Seq(T), NEW t \in Seq(T), NEW S
  PROVE  Those(s \o t, S) = Those(s, S) \o Those(t, S)
<1> DEFINE P == {r \in Seq(T) : Those(s \o r, S) = Those(s, S) \o Those(r, S)}
<1>0. Those(s, S) \in Seq(T \cap S)
  BY ThoseType
<1>1. << >> \in P
  BY <1>0, ThoseOfEmpty
<1>2. ASSUME NEW r \in Seq(T), NEW e \in T, r \in P PROVE Append(r, e) \in P
  <2>0. Append(r, e) \in Seq(T)
    OBVIOUS
  <2>1. Those(Append(r, e), S) = IF e \in S THEN Append(Those(r, S), e) ELSE Those(r, S)
    BY ThoseOfAppend
  <2>2. s \o Append(r, e) = Append(s \o r, e) /\ s \o r \in Seq(T)
    OBVIOUS
  <2>3. Those(Append(s \o r, e), S) = IF e \in S THEN Append(Those(s \o r, S), e) ELSE Those(s \o r, S)
    BY <2>2, ThoseOfAppend
  <2>4. Those(r, S) \in Seq(T \cap S)
    BY ThoseType
  <2>5. e \in S => Those(s, S) \o Append(Those(r, S), e) = Append(Those(s, S) \o Those(r, S), e)
    BY <1>0, <2>4
  <2> QED BY <1>2, <2>0, <2>1, <2>2, <2>3, <2>5
<1> HIDE DEF P
<1>3. Seq(T) \subseteq P
  BY <1>1, <1>2, SequenceInduction
<1> QED BY <1>3 DEF P

(* Choosing all of a sequence, or choosing twice.                          *)
LEMMA ThoseAll ==
  ASSUME NEW T, NEW s \in Seq(T), NEW S, Range(s) \subseteq S
  PROVE  Those(s, S) = s
<1> DEFINE P == {r \in Seq(T) : Range(r) \subseteq S => Those(r, S) = r}
<1>1. << >> \in P
  BY ThoseOfEmpty
<1>2. ASSUME NEW r \in Seq(T), NEW e \in T, r \in P PROVE Append(r, e) \in P
  <2>0. Append(r, e) \in Seq(T)
    OBVIOUS
  <2>1. Those(Append(r, e), S) = IF e \in S THEN Append(Those(r, S), e) ELSE Those(r, S)
    BY ThoseOfAppend
  <2>2. Range(Append(r, e)) = Range(r) \cup {e}
    BY ElementsOfAppend
  <2> QED BY <1>2, <2>0, <2>1, <2>2
<1> HIDE DEF P
<1>3. Seq(T) \subseteq P
  BY <1>1, <1>2, SequenceInduction
<1> QED BY <1>3 DEF P

LEMMA ThoseTwice ==
  ASSUME NEW T, NEW s \in Seq(T), NEW S, NEW U
  PROVE  Those(Those(s, S), U) = Those(s, S \cap U)
<1> DEFINE P == {r \in Seq(T) : Those(Those(r, S), U) = Those(r, S \cap U)}
<1>1. << >> \in P
  BY ThoseOfEmpty
<1>2. ASSUME NEW r \in Seq(T), NEW e \in T, r \in P PROVE Append(r, e) \in P
  <2>0. Append(r, e) \in Seq(T)
    OBVIOUS
  <2>1. Those(Append(r, e), S) = IF e \in S THEN Append(Those(r, S), e) ELSE Those(r, S)
    BY ThoseOfAppend
  <2>2. Those(Append(r, e), S \cap U) = IF e \in S \cap U THEN Append(Those(r, S \cap U), e) ELSE Those(r, S \cap U)
    BY ThoseOfAppend
  <2>3. Those(r, S) \in Seq(T \cap S)
    BY ThoseType
  <2>4. CASE e \in S
    <3> DEFINE q == Those(r, S)
    <3>1. q \in Seq(T)
      BY <2>3
    <3>2. Those(Append(r, e), S) = Append(q, e) /\ Those(q, U) = Those(r, S \cap U)
      BY <1>2, <2>1, <2>4
    <3> HIDE DEF q
    <3>3. Those(Append(q, e), U) = IF e \in U THEN Append(Those(q, U), e) ELSE Those(q, U)
      BY <3>1, ThoseOfAppend
    <3> QED BY <2>0, <2>2, <2>4, <3>2, <3>3
  <2>5. CASE e \notin S
    BY <1>2, <2>0, <2>1, <2>2, <2>5
  <2> QED BY <2>4, <2>5
<1> HIDE DEF P
<1>3. Seq(T) \subseteq P
  BY <1>1, <1>2, SequenceInduction
<1> QED BY <1>3 DEF P

(* A sequence without repetitions stays one.                               *)
LEMMA DistinctAppend ==
  ASSUME NEW T, NEW s \in Seq(T), NEW e \in T
  PROVE  IsInjective(Append(s, e)) <=> IsInjective(s) /\ e \notin Range(s)
<1>1. /\ DOMAIN s = 1..Len(s) /\ DOMAIN Append(s, e) = 1..(Len(s) + 1) /\ Len(s) \in Nat
      /\ Append(s, e)[Len(s) + 1] = e /\ \A i \in 1..Len(s) : Append(s, e)[i] = s[i]
  OBVIOUS
<1>2. \A i \in 1..(Len(s) + 1) : i \in 1..Len(s) \/ i = Len(s) + 1
  BY <1>1
<1>3. \A i \in 1..Len(s) : i \in 1..(Len(s) + 1) /\ i # Len(s) + 1
  BY <1>1
<1>4. Len(s) + 1 \in 1..(Len(s) + 1)
  BY <1>1
<1>5. ASSUME IsInjective(Append(s, e)) PROVE IsInjective(s) /\ e \notin Range(s)
  BY <1>1, <1>3, <1>4, <1>5 DEF IsInjective, Range
<1>6. ASSUME IsInjective(s), e \notin Range(s) PROVE IsInjective(Append(s, e))
  BY <1>1, <1>2, <1>6 DEF IsInjective, Range
<1> QED BY <1>5, <1>6

LEMMA ThoseDistinct ==
  ASSUME NEW T, NEW s \in Seq(T), NEW S, IsInjective(s)
  PROVE  IsInjective(Those(s, S))
<1> DEFINE P == {r \in Seq(T) : IsInjective(r) => IsInjective(Those(r, S))}
<1>1. << >> \in P
  BY ThoseOfEmpty
<1>2. ASSUME NEW r \in Seq(T), NEW e \in T, r \in P PROVE Append(r, e) \in P
  <2>0. Append(r, e) \in Seq(T)
    OBVIOUS
  <2>1. Those(Append(r, e), S) = IF e \in S THEN Append(Those(r, S), e) ELSE Those(r, S)
    BY ThoseOfAppend
  <2>2. IsInjective(Append(r, e)) <=> IsInjective(r) /\ e \notin Range(r)
    BY DistinctAppend
  <2>3. Those(r, S) \in Seq(T \cap S) /\ Range(Those(r, S)) = Range(r) \cap S
    BY ThoseType, ThoseRange
  <2>4. e \in S => (IsInjective(Append(Those(r, S), e)) <=> IsInjective(Those(r, S)) /\ e \notin Range(Those(r, S)))
    BY <2>3, DistinctAppend
  <2> QED BY <1>2, <2>0, <2>1, <2>2, <2>3, <2>4
<1> HIDE DEF P
<1>3. Seq(T) \subseteq P
  BY <1>1, <1>2, SequenceInduction
<1> QED BY <1>3 DEF P

USE LibraryAssumption

(***************************************************************************)
(* Build orders.                                                           *)
(***************************************************************************)

LEMMA EntryType ==
  /\ \A n \in Names, on \in BOOLEAN : Entry(n, on) \in Entries /\ Entry(n, on).name = n /\ Entry(n, on).on = on
  /\ \A e \in Entries : e.name \in Names /\ e.on \in BOOLEAN /\ e = Entry(e.name, e.on)
BY DEF Entry, Entries

(* The names of an order, and those that are on, by its entries.           *)
LEMMA ByEntry ==
  ASSUME NEW mods \in Seq(Entries)
  PROVE  /\ Listed(mods) = {e.name : e \in Range(mods)} /\ Range(mods) \subseteq Entries
         /\ EnabledOn(mods) = {e.name : e \in {f \in Range(mods) : f.on}}
         /\ EnabledOn(mods) \subseteq Listed(mods) /\ Listed(mods) \subseteq Names
<1>1. \A i \in DOMAIN mods : mods[i] \in Entries
  OBVIOUS
<1>2. Range(mods) \subseteq Entries
  BY <1>1 DEF Range
<1>3. Listed(mods) = {e.name : e \in Range(mods)}
  BY DEF Listed, Range
<1>4. EnabledOn(mods) = {e.name : e \in {f \in Range(mods) : f.on}}
  BY DEF EnabledOn, Range
<1> QED BY <1>2, <1>3, <1>4, EntryType

LEMMA OrderOfConcat ==
  ASSUME NEW s \in Seq(Entries), NEW t \in Seq(Entries)
  PROVE  /\ s \o t \in Seq(Entries)
         /\ Listed(s \o t) = Listed(s) \cup Listed(t)
         /\ EnabledOn(s \o t) = EnabledOn(s) \cup EnabledOn(t)
<1>1. s \o t \in Seq(Entries)
  OBVIOUS
<1>2. Range(s \o t) = Range(s) \cup Range(t)
  BY RangeConcatenation
<1> QED BY <1>1, <1>2, ByEntry

LEMMA OnceOfConcat ==
  ASSUME NEW s \in Seq(Entries), NEW t \in Seq(Entries)
  PROVE  Once(s \o t) <=> Once(s) /\ Once(t) /\ Listed(s) \cap Listed(t) = {}
<1>1. /\ DOMAIN s = 1..Len(s) /\ DOMAIN t = 1..Len(t) /\ DOMAIN (s \o t) = 1..(Len(s) + Len(t))
      /\ Len(s) \in Nat /\ Len(t) \in Nat
      /\ \A i \in 1..(Len(s) + Len(t)) : (s \o t)[i] = IF i <= Len(s) THEN s[i] ELSE t[i - Len(s)]
  OBVIOUS
<1> DEFINE u == s \o t
<1>2. \A i \in 1..Len(s) : i \in DOMAIN u /\ u[i] = s[i] /\ i <= Len(s)
  BY <1>1
<1>3. \A i \in 1..Len(t) : Len(s) + i \in DOMAIN u /\ u[Len(s) + i] = t[i] /\ ~(Len(s) + i <= Len(s))
  <2> SUFFICES ASSUME NEW i \in 1..Len(t)
               PROVE  Len(s) + i \in DOMAIN u /\ u[Len(s) + i] = t[i] /\ ~(Len(s) + i <= Len(s))
    OBVIOUS
  <2>1. Len(s) + i \in 1..(Len(s) + Len(t)) /\ ~(Len(s) + i <= Len(s)) /\ (Len(s) + i) - Len(s) = i
    BY <1>1
  <2> QED BY <1>1, <2>1
<1>4. \A i \in DOMAIN u : \/ i \in 1..Len(s) /\ u[i] = s[i]
                          \/ i - Len(s) \in 1..Len(t) /\ u[i] = t[i - Len(s)] /\ i = Len(s) + (i - Len(s))
  BY <1>1
<1> HIDE DEF u
<1>5. ASSUME Once(u) PROVE Once(s) /\ Once(t) /\ Listed(s) \cap Listed(t) = {}
  <2>1. Once(s)
    BY <1>1, <1>2, <1>5 DEF Once
  <2>2. Once(t)
    <3> SUFFICES ASSUME NEW i \in 1..Len(t), NEW j \in 1..Len(t), t[i].name = t[j].name PROVE i = j
      BY <1>1 DEF Once
    <3>1. Len(s) + i = Len(s) + j
      BY <1>3, <1>5 DEF Once
    <3> QED BY <1>1, <3>1
  <2>3. ASSUME NEW i \in 1..Len(s), NEW j \in 1..Len(t), s[i].name = t[j].name PROVE FALSE
    <3>1. i = Len(s) + j
      BY <1>2, <1>3, <1>5, <2>3 DEF Once
    <3> QED BY <1>1, <3>1
  <2> QED BY <1>1, <2>1, <2>2, <2>3 DEF Listed
<1>6. ASSUME Once(s), Once(t), Listed(s) \cap Listed(t) = {} PROVE Once(u)
  <2>1. \A i \in 1..Len(s), j \in 1..Len(t) : s[i].name # t[j].name
    BY <1>1, <1>6 DEF Listed
  <2> SUFFICES ASSUME NEW i \in DOMAIN u, NEW j \in DOMAIN u, u[i].name = u[j].name PROVE i = j
    BY DEF Once
  <2>2. CASE i \in 1..Len(s) /\ u[i] = s[i]
    BY <1>1, <1>4, <1>6, <2>1, <2>2 DEF Once
  <2>3. CASE i - Len(s) \in 1..Len(t) /\ u[i] = t[i - Len(s)] /\ i = Len(s) + (i - Len(s))
    <3>1. j - Len(s) \in 1..Len(t) /\ u[j] = t[j - Len(s)] /\ j = Len(s) + (j - Len(s))
      BY <1>4, <2>1, <2>3
    <3>2. i - Len(s) = j - Len(s)
      BY <1>1, <1>6, <2>3, <3>1 DEF Once
    <3> QED BY <2>3, <3>1, <3>2
  <2> QED BY <1>4, <2>2, <2>3
<1> QED BY <1>5, <1>6 DEF u

LEMMA OneEntry ==
  ASSUME NEW e \in Entries
  PROVE  /\ <<e>> \in Seq(Entries) /\ Once(<<e>>) /\ Range(<<e>>) = {e}
         /\ Listed(<<e>>) = {e.name} /\ EnabledOn(<<e>>) = {n \in {e.name} : e.on}
<1>1. <<e>> \in Seq(Entries) /\ DOMAIN <<e>> = {1} /\ <<e>>[1] = e
  OBVIOUS
<1>2. Range(<<e>>) = {e}
  BY <1>1 DEF Range
<1>3. Once(<<e>>)
  BY <1>1 DEF Once
<1>4. /\ Listed(<<e>>) = {f.name : f \in {e}}
      /\ EnabledOn(<<e>>) = {f.name : f \in {g \in {e} : g.on}}
  BY <1>1, <1>2, ByEntry
<1> QED BY <1>1, <1>2, <1>3, <1>4

LEMMA ThoseOnce ==
  ASSUME NEW s \in Seq(Entries), NEW S, Once(s)
  PROVE  Once(Those(s, S)) /\ Those(s, S) \in Seq(Entries)
<1> DEFINE P == {r \in Seq(Entries) : Once(r) => Once(Those(r, S))}
<1>0. \A r \in Seq(Entries) : Those(r, S) \in Seq(Entries) /\ Listed(Those(r, S)) \subseteq Listed(r)
  <2> SUFFICES ASSUME NEW r \in Seq(Entries)
               PROVE  Those(r, S) \in Seq(Entries) /\ Listed(Those(r, S)) \subseteq Listed(r)
    OBVIOUS
  <2>1. Those(r, S) \in Seq(Entries \cap S) /\ Range(Those(r, S)) = Range(r) \cap S
    BY ThoseType, ThoseRange
  <2>2. Those(r, S) \in Seq(Entries)
    BY <2>1
  <2> QED BY <2>1, <2>2, ByEntry
<1>1. << >> \in P
  BY ThoseOfEmpty
<1>2. ASSUME NEW r \in Seq(Entries), NEW e \in Entries, r \in P PROVE Append(r, e) \in P
  <2> DEFINE one == <<e>>
      q == Those(r, S)
  <2>0. Append(r, e) \in Seq(Entries) /\ Append(r, e) = r \o one /\ Append(q, e) = q \o one
    BY <1>0, AppendIsConcat, AppendProperties
  <2>1. Those(Append(r, e), S) = IF e \in S THEN Append(q, e) ELSE q
    BY ThoseOfAppend
  <2>4. one \in Seq(Entries) /\ Once(one) /\ Listed(one) = {e.name}
    BY OneEntry
  <2> HIDE DEF one
  <2>2. Once(r \o one) => Once(r) /\ e.name \notin Listed(r)
    BY <2>4, OnceOfConcat
  <2>3. Once(q) /\ e.name \notin Listed(q) => Once(q \o one)
    BY <1>0, <2>4, OnceOfConcat
  <2>5. Listed(q) \subseteq Listed(r) /\ (Once(r) => Once(q))
    BY <1>0, <1>2
  <2>6. Once(Append(r, e)) => Once(Those(Append(r, e), S))
    <3> HIDE DEF q
    <3> QED BY <2>0, <2>1, <2>2, <2>3, <2>5
  <2> QED BY <2>0, <2>6
<1> HIDE DEF P
<1>3. Seq(Entries) \subseteq P
  BY <1>1, <1>2, SequenceInduction
<1> QED BY <1>0, <1>3 DEF P

(* A mod of an order without repetitions is on when its entry is.          *)
LEMMA OnByEntry ==
  ASSUME NEW mods \in Seq(Entries), Once(mods), NEW n
  PROVE  IsOn(mods, n) <=> n \in EnabledOn(mods)
<1>1. \A i \in DOMAIN mods : mods[i] \in Entries
  OBVIOUS
<1>2. ASSUME n \in Listed(mods) PROVE IndexOf(mods, n) \in DOMAIN mods /\ mods[IndexOf(mods, n)].name = n
  BY <1>2 DEF Listed, IndexOf
<1>3. ASSUME NEW i \in DOMAIN mods, mods[i].name = n PROVE i = IndexOf(mods, n) /\ n \in Listed(mods)
  BY <1>2, <1>3 DEF Once, Listed
<1> QED BY <1>1, <1>2, <1>3 DEF IsOn, EnabledOn

(* What reconciling appends: mods the order does not have, all of them off.*)
LEMMA Reconciling ==
  ASSUME NEW mods \in Seq(Entries), Once(mods)
  PROVE  \E fresh \in Seq(Entries) :
           /\ Reconciled(mods) = mods \o fresh /\ Once(mods \o fresh)
           /\ EnabledOn(fresh) = {} /\ Listed(fresh) \cap Listed(mods) = {}
<1> DEFINE new == Unseen(mods)
    fresh == [i \in DOMAIN new |-> Entry(new[i], FALSE)]
    S == {n \in Names : Available(n)} \ Listed(mods)
<1>1. new = Those(Order, S)
  BY DEF Unseen
<1>2. new \in Seq(Names) /\ Range(new) \cap Listed(mods) = {} /\ IsInjective(new)
  <2> HIDE DEF new
  <2>1. Those(Order, S) \in Seq(Names \cap S) /\ Range(Those(Order, S)) = Range(Order) \cap S
    BY ThoseType, ThoseRange
  <2>2. IsInjective(Those(Order, S))
    BY ThoseDistinct
  <2> QED BY <1>1, <2>1, <2>2
<1> HIDE DEF new
<1>3. fresh \in Seq(Entries) /\ DOMAIN fresh = DOMAIN new
      /\ \A i \in DOMAIN new : fresh[i].name = new[i] /\ ~fresh[i].on
  <2>1. DOMAIN new = 1..Len(new) /\ Len(new) \in Nat /\ \A i \in 1..Len(new) : new[i] \in Names
    BY <1>2
  <2>2. \A i \in 1..Len(new) : fresh[i] = Entry(new[i], FALSE)
    BY <2>1
  <2>3. \A i \in 1..Len(new) : fresh[i] \in Entries /\ fresh[i].name = new[i] /\ ~fresh[i].on
    BY <2>1, <2>2, EntryType
  <2>4. fresh = [i \in 1..Len(new) |-> fresh[i]]
    BY <2>1
  <2> HIDE DEF fresh
  <2>5. fresh \in Seq(Entries)
    BY <2>1, <2>3, <2>4
  <2> QED BY <2>1, <2>3, <2>4, <2>5
<1>4. Reconciled(mods) = mods \o fresh
  BY DEF Reconciled, new
<1> HIDE DEF fresh
<1>5. Once(fresh)
  BY <1>2, <1>3 DEF Once, IsInjective
<1>6. Listed(fresh) = Range(new) /\ EnabledOn(fresh) = {}
  BY <1>3 DEF Listed, Range, EnabledOn
<1>7. Once(mods \o fresh)
  BY <1>2, <1>3, <1>5, <1>6, OnceOfConcat
<1> QED BY <1>2, <1>3, <1>4, <1>6, <1>7

(***************************************************************************)
(* What a request changes of a document.                                   *)
(***************************************************************************)

(* Faithful in a form that adds up: the entries a request leaves alone     *)
(* come first and in their order, and the others are off unless it is to   *)
(* switch them on.                                                         *)
Follows(r, old, new) ==
  /\ Len(Kept(r, old)) <= Len(Kept(r, new))
  /\ \A i \in 1..Len(Kept(r, old)) : Kept(r, new)[i].name = Kept(r, old)[i].name
OrderMeets(r, old, new) ==
  /\ Follows(r, old, new)
  /\ r.op # "remove" => Listed(old) \subseteq Listed(new)
  /\ \A n \in Listed(new) \ SwitchedBy(r) : n \in EnabledOn(new) <=> n \in EnabledOn(old)
Meets(r, old, new) ==
  /\ OrderMeets(r, old.mods, new.mods)
  /\ \A n \in Names : new.params[n] # old.params[n] =>
       \/ r.op \in {"set", "reset"} /\ r.name = n
       \/ r.op = "fix" /\ InForce(new.params, n) < InForce(old.params, n)
  /\ r.op # "config" => new.limit = old.limit

LEMMA DroppedOrder ==
  ASSUME NEW mods \in Seq(Entries), NEW n
  PROVE  /\ Dropped(mods, n) \in Seq(Entries) /\ (Once(mods) => Once(Dropped(mods, n)))
         /\ Listed(Dropped(mods, n)) = Listed(mods) \ {n}
         /\ EnabledOn(Dropped(mods, n)) = EnabledOn(mods) \ {n}
<1> DEFINE rest == Those(mods, Others(n))
<1>1. rest \in Seq(Entries \cap Others(n)) /\ Range(rest) = Range(mods) \cap Others(n)
  BY ThoseType, ThoseRange
<1>2. Once(mods) => Once(rest)
  BY ThoseOnce
<1> HIDE DEF rest
<1>3. rest \in Seq(Entries) /\ Range(mods) \subseteq Entries
  BY <1>1, ByEntry
<1>4. Range(rest) = {e \in Range(mods) : e.name # n}
  BY <1>1, <1>3 DEF Others
<1>5. /\ Listed(rest) = {e.name : e \in Range(rest)} /\ Listed(mods) = {e.name : e \in Range(mods)}
      /\ EnabledOn(rest) = {e.name : e \in {f \in Range(rest) : f.on}}
      /\ EnabledOn(mods) = {e.name : e \in {f \in Range(mods) : f.on}}
  BY <1>3, ByEntry
<1>6. Listed(rest) = Listed(mods) \ {n}
  BY <1>4, <1>5
<1>7. EnabledOn(rest) = EnabledOn(mods) \ {n}
  BY <1>4, <1>5
<1> QED BY <1>2, <1>3, <1>6, <1>7 DEF Dropped, rest

LEMMA DroppedLength ==
  ASSUME NEW mods \in Seq(Entries), Once(mods), NEW n
  PROVE  Len(Dropped(mods, n)) = IF n \in Listed(mods) THEN Len(mods) - 1 ELSE Len(mods)
<1> DEFINE Short(r) == Len(Those(r, Others(n))) = IF n \in Listed(r) THEN Len(r) - 1 ELSE Len(r)
    P == {r \in Seq(Entries) : Once(r) => Short(r)}
<1>1. << >> \in P
  <2>1. << >> \in Seq(Entries) /\ Listed(<< >>) = {} /\ Len(<< >>) = 0
    BY DEF Listed
  <2> QED BY <2>1, ThoseOfEmpty
<1>2. ASSUME NEW r \in Seq(Entries), NEW e \in Entries, r \in P PROVE Append(r, e) \in P
  <2> DEFINE one == <<e>>
      q == Those(r, Others(n))
  <2>1. /\ Append(r, e) \in Seq(Entries) /\ Append(r, e) = r \o one /\ Len(Append(r, e)) = Len(r) + 1
        /\ Len(r) \in Nat
    BY AppendIsConcat, AppendProperties
  <2>2. Those(Append(r, e), Others(n)) = IF e \in Others(n) THEN Append(q, e) ELSE q
    BY ThoseOfAppend
  <2>3. q \in Seq(Entries)
    <3>1. q \in Seq(Entries \cap Others(n))
      BY ThoseType
    <3> QED BY <3>1
  <2>4. one \in Seq(Entries) /\ Listed(one) = {e.name}
    BY OneEntry
  <2>5. (e \in Others(n)) <=> (e.name # n)
    BY DEF Others
  <2>6. Once(r) => Short(r)
    BY <1>2
  <2> HIDE DEF one, q
  <2>7. Listed(r \o one) = Listed(r) \cup {e.name}
    BY <2>4, OrderOfConcat
  <2>8. Once(r \o one) => Once(r) /\ e.name \notin Listed(r)
    BY <2>4, OnceOfConcat
  <2>9. Len(q) \in Nat /\ Len(Append(q, e)) = Len(q) + 1
    BY <2>3
  <2>10. Once(Append(r, e)) => Short(Append(r, e))
    BY <2>1, <2>2, <2>5, <2>6, <2>7, <2>8, <2>9 DEF q
  <2> QED BY <2>1, <2>10
<1> HIDE DEF P
<1>3. Seq(Entries) \subseteq P
  BY <1>1, <1>2, SequenceInduction
<1> QED BY <1>3 DEF P, Dropped

LEMMA KeptOrder ==
  ASSUME NEW r, NEW mods \in Seq(Entries)
  PROVE  Kept(r, mods) \in Seq(Entries)
BY DroppedOrder DEF Kept

LEMMA KeptOfConcat ==
  ASSUME NEW r, NEW s \in Seq(Entries), NEW t \in Seq(Entries)
  PROVE  Kept(r, s \o t) = Kept(r, s) \o Kept(r, t)
BY ThoseOfConcat DEF Kept, Dropped

LEMMA MeetsFaithful ==
  ASSUME NEW r, NEW old, NEW new, old.mods \in Seq(Entries), new.mods \in Seq(Entries),
         Once(old.mods), Once(new.mods), Meets(r, old, new)
  PROVE  Faithful(r, old, new)
<1> DEFINE a == Kept(r, old.mods)
    b == Kept(r, new.mods)
    p == Places(r, old.mods)
    q == Places(r, new.mods)
<1>1. a \in Seq(Entries) /\ b \in Seq(Entries)
  BY KeptOrder
<1>2. p = [i \in DOMAIN a |-> a[i].name] /\ q = [i \in DOMAIN b |-> b[i].name]
  BY DEF Places
<1>3. Len(a) <= Len(b) /\ \A i \in 1..Len(a) : b[i].name = a[i].name
  BY DEF Meets, OrderMeets, Follows
<1> HIDE DEF a, b, p, q
<1>4. /\ Len(a) \in Nat /\ Len(b) \in Nat /\ DOMAIN a = 1..Len(a) /\ DOMAIN b = 1..Len(b)
      /\ \A i \in 1..Len(a) : a[i].name \in Names
      /\ \A i \in 1..Len(b) : b[i].name \in Names
  BY <1>1, EntryType
<1>5. p \in Seq(Names) /\ q \in Seq(Names) /\ Len(p) = Len(a) /\ Len(q) = Len(b)
  BY <1>2, <1>4
<1>6. SubSeq(q, 1, Len(a)) = p
  <2> DEFINE h == SubSeq(q, 1, Len(a))
  <2>1. h \in Seq(Names) /\ Len(h) = Len(a) /\ \A i \in 1..Len(a) : h[i] = q[i]
    BY <1>3, <1>4, <1>5
  <2>2. \A i \in 1..Len(a) : q[i] = b[i].name /\ p[i] = a[i].name
    BY <1>2, <1>3, <1>4
  <2> HIDE DEF h
  <2>3. h = p
    BY <1>3, <1>5, <2>1, <2>2, SeqEqual
  <2> QED BY <2>3 DEF h
<1>7. \E k \in 0..Len(q) : SubSeq(q, 1, k) = p
  <2>1. Len(a) \in 0..Len(q)
    BY <1>3, <1>4, <1>5
  <2> QED BY <1>6, <2>1
<1>8. \A n \in Listed(new.mods) \ SwitchedBy(r) : IsOn(new.mods, n) = IsOn(old.mods, n)
  <2> SUFFICES ASSUME NEW n \in Listed(new.mods) \ SwitchedBy(r)
               PROVE  IsOn(new.mods, n) <=> IsOn(old.mods, n)
    <3>1. \A n : IsOn(new.mods, n) \in BOOLEAN /\ IsOn(old.mods, n) \in BOOLEAN
      BY DEF IsOn
    <3> QED BY <3>1
  <2> QED BY OnByEntry DEF Meets, OrderMeets
<1> QED BY <1>7, <1>8 DEF Meets, OrderMeets, Faithful, p, q

LEMMA SameOrder ==
  ASSUME NEW r, NEW mods \in Seq(Entries)
  PROVE  OrderMeets(r, mods, mods)
<1>1. Len(Kept(r, mods)) \in Nat
  BY KeptOrder
<1> QED BY <1>1 DEF OrderMeets, Follows

LEMMA AppendedOrder ==
  ASSUME NEW r, NEW old \in Seq(Entries), NEW mods \in Seq(Entries), NEW fresh \in Seq(Entries),
         OrderMeets(r, old, mods), Once(mods \o fresh), r.op # "remove",
         EnabledOn(fresh) \subseteq SwitchedBy(r)
  PROVE  OrderMeets(r, old, mods \o fresh)
<1>1. Follows(r, old, mods \o fresh)
  <2> DEFINE a == Kept(r, old)
      b == Kept(r, mods)
      c == Kept(r, fresh)
  <2>1. a \in Seq(Entries) /\ b \in Seq(Entries) /\ c \in Seq(Entries)
    BY KeptOrder
  <2>2. Kept(r, mods \o fresh) = b \o c
    BY KeptOfConcat
  <2>3. Len(a) <= Len(b) /\ \A i \in 1..Len(a) : b[i].name = a[i].name
    BY DEF OrderMeets, Follows
  <2> HIDE DEF a, b, c
  <2>4. /\ Len(b \o c) = Len(b) + Len(c) /\ Len(a) \in Nat /\ Len(b) \in Nat /\ Len(c) \in Nat
        /\ \A i \in 1..Len(b) : (b \o c)[i] = b[i]
    BY <2>1
  <2>5. Len(a) <= Len(b \o c) /\ \A i \in 1..Len(a) : (b \o c)[i].name = a[i].name
    BY <2>3, <2>4
  <2> QED BY <2>2, <2>5 DEF Follows, a
<1>2. /\ Listed(mods \o fresh) = Listed(mods) \cup Listed(fresh)
      /\ EnabledOn(mods \o fresh) = EnabledOn(mods) \cup EnabledOn(fresh)
      /\ Listed(mods) \cap Listed(fresh) = {}
  BY OrderOfConcat, OnceOfConcat
<1>3. /\ EnabledOn(mods) \subseteq Listed(mods) /\ EnabledOn(fresh) \subseteq Listed(fresh)
      /\ EnabledOn(old) \subseteq Listed(old)
  BY ByEntry
<1> QED BY <1>1, <1>2, <1>3 DEF OrderMeets

LEMMA ReconciledOrder ==
  ASSUME NEW r, NEW mods \in Seq(Entries), Once(mods)
  PROVE  /\ Reconciled(mods) \in Seq(Entries) /\ Once(Reconciled(mods))
         /\ Listed(mods) \subseteq Listed(Reconciled(mods))
         /\ EnabledOn(Reconciled(mods)) = EnabledOn(mods)
         /\ r.op # "remove" => OrderMeets(r, mods, Reconciled(mods))
<1>1. PICK fresh \in Seq(Entries) :
        /\ Reconciled(mods) = mods \o fresh /\ Once(mods \o fresh)
        /\ EnabledOn(fresh) = {} /\ Listed(fresh) \cap Listed(mods) = {}
  BY Reconciling
<1>2. OrderMeets(r, mods, mods)
  BY SameOrder
<1>3. r.op # "remove" => OrderMeets(r, mods, mods \o fresh)
  BY <1>1, <1>2, AppendedOrder
<1>4. /\ mods \o fresh \in Seq(Entries) /\ Listed(mods \o fresh) = Listed(mods) \cup Listed(fresh)
      /\ EnabledOn(mods \o fresh) = EnabledOn(mods) \cup EnabledOn(fresh)
  BY OrderOfConcat
<1> QED BY <1>1, <1>3, <1>4

LEMMA RemovedOrder ==
  ASSUME NEW r, r.op = "remove", NEW mods \in Seq(Entries)
  PROVE  OrderMeets(r, mods, Dropped(mods, r.name))
<1> DEFINE rest == Dropped(mods, r.name)
<1>1. rest \in Seq(Entries) /\ EnabledOn(rest) = EnabledOn(mods) \ {r.name} /\ Listed(rest) = Listed(mods) \ {r.name}
  BY DroppedOrder
<1>2. Dropped(rest, r.name) = rest
  <2>1. Others(r.name) \cap Others(r.name) = Others(r.name)
    OBVIOUS
  <2> QED BY <2>1, ThoseTwice DEF Dropped
<1>3. Kept(r, mods) = rest /\ Kept(r, rest) = rest
  BY <1>2 DEF Kept
<1> HIDE DEF rest
<1>4. Follows(r, mods, rest)
  BY <1>1, <1>3 DEF Follows
<1> QED BY <1>1, <1>4 DEF OrderMeets, rest

LEMMA SwitchedOrder ==
  ASSUME NEW r, r.op = "enable", r.on \in BOOLEAN, NEW mods \in Seq(Entries),
         Range(r.names) \subseteq Listed(mods)
  PROVE  LET new == Switched(mods, Range(r.names), r.on) IN
         /\ new \in Seq(Entries) /\ (Once(mods) => Once(new))
         /\ EnabledOn(new) \subseteq EnabledOn(mods) \cup IF r.on THEN Range(r.names) ELSE {}
         /\ OrderMeets(r, mods, new)
<1> DEFINE S == Range(r.names)
    new == Switched(mods, S, r.on)
<1>1. Len(mods) \in Nat /\ DOMAIN mods = 1..Len(mods) /\ \A i \in 1..Len(mods) : mods[i] \in Entries
  OBVIOUS
<1>2. new = [i \in DOMAIN mods |-> IF mods[i].name \in S THEN Entry(mods[i].name, r.on) ELSE mods[i]]
  BY DEF Switched
<1> HIDE DEF new
<1>3. ASSUME NEW i \in 1..Len(mods)
      PROVE  /\ new[i] \in Entries /\ new[i].name = mods[i].name
             /\ new[i].on = IF mods[i].name \in S THEN r.on ELSE mods[i].on
  <2>1. new[i] = IF mods[i].name \in S THEN Entry(mods[i].name, r.on) ELSE mods[i]
    BY <1>1, <1>2
  <2> QED BY <1>1, <2>1, EntryType
<1>4. new = [i \in 1..Len(mods) |-> new[i]]
  BY <1>1, <1>2
<1>5. new \in Seq(Entries) /\ Len(new) = Len(mods) /\ DOMAIN new = 1..Len(mods)
  BY <1>1, <1>3, <1>4
<1> HIDE DEF S
<1>6. Listed(new) = Listed(mods) /\ (Once(mods) => Once(new))
  <2>1. /\ Listed(new) = {new[i].name : i \in 1..Len(mods)}
        /\ Listed(mods) = {mods[i].name : i \in 1..Len(mods)}
    BY <1>1, <1>5, Zenon DEF Listed
  <2>2. \A i \in 1..Len(mods) : new[i].name = mods[i].name
    BY <1>3
  <2> QED BY <1>1, <1>5, <2>1, <2>2 DEF Once
<1>7. EnabledOn(new) = {mods[i].name : i \in {j \in 1..Len(mods) : IF mods[j].name \in S THEN r.on ELSE mods[j].on}}
  <2>1. EnabledOn(new) = {new[i].name : i \in {j \in 1..Len(mods) : new[j].on}}
    BY <1>5, Zenon DEF EnabledOn
  <2>2. \A i \in 1..Len(mods) : /\ new[i].name = mods[i].name
                               /\ new[i].on = IF mods[i].name \in S THEN r.on ELSE mods[i].on
    BY <1>3
  <2> QED BY <2>1, <2>2
<1>8. EnabledOn(mods) = {mods[i].name : i \in {j \in 1..Len(mods) : mods[j].on}}
  BY <1>1 DEF EnabledOn
<1>9. Follows(r, mods, new)
  BY <1>1, <1>3, <1>5 DEF Follows, Kept
<1>10. SwitchedBy(r) = S
  BY DEF SwitchedBy, S
<1>11. \A n \in Listed(new) \ S : n \in EnabledOn(new) <=> n \in EnabledOn(mods)
  BY <1>7, <1>8
<1>12. EnabledOn(new) \subseteq EnabledOn(mods) \cup IF r.on THEN S ELSE {}
  BY <1>7, <1>8
<1> QED BY <1>5, <1>6, <1>9, <1>10, <1>11, <1>12 DEF OrderMeets, new, S

LEMMA MovedOrder ==
  ASSUME NEW r, r.op = "move", NEW mods \in Seq(Entries), Once(mods),
         r.name \in Listed(mods), r.to \in DOMAIN mods
  PROVE  LET new == Moved(mods, r.name, r.to) IN
         new \in Seq(Entries) /\ Once(new) /\ EnabledOn(new) = EnabledOn(mods) /\ OrderMeets(r, mods, new)
<1> DEFINE n == r.name
    rest == Dropped(mods, n)
    e == mods[IndexOf(mods, n)]
    one == <<e>>
    s == SubSeq(rest, 1, r.to - 1)
    t == SubSeq(rest, r.to, Len(rest))
    new == Moved(mods, n, r.to)
<1>1. IndexOf(mods, n) \in DOMAIN mods /\ e.name = n
  BY DEF Listed, IndexOf
<1>2. e \in Entries
  BY <1>1
<1>3. rest \in Seq(Entries) /\ Once(rest) /\ Listed(rest) = Listed(mods) \ {n} /\ EnabledOn(rest) = EnabledOn(mods) \ {n}
  BY DroppedOrder
<1>4. new = s \o one \o t
  BY DEF Moved
<1>5. EnabledOn(mods) \cap {n} = {m \in {n} : e.on}
  <2>1. \A i \in DOMAIN mods : mods[i].name = n => i = IndexOf(mods, n)
    BY <1>1 DEF Once
  <2> QED BY <1>1, <2>1 DEF EnabledOn
<1>6. /\ one \in Seq(Entries) /\ Once(one) /\ Range(one) = {e}
      /\ Listed(one) = {n} /\ EnabledOn(one) = {m \in {n} : e.on}
  BY <1>1, <1>2, OneEntry
<1>7. Len(mods) \in Nat /\ r.to \in 1..Len(mods)
  OBVIOUS
<1>8. Kept(r, mods) = rest
  BY DEF Kept
<1>9. Len(rest) = Len(mods) - 1
  BY DroppedLength
<1> HIDE DEF e, one, rest
<1>10. s \in Seq(Entries) /\ t \in Seq(Entries) /\ s \o t = rest
  <2>1. s \in Seq(Entries) /\ t \in Seq(Entries)
    BY <1>3, <1>7, <1>9
  <2>2. SubSeq(rest, 1, r.to - 1) \o SubSeq(rest, (r.to - 1) + 1, Len(rest)) = SubSeq(rest, 1, Len(rest))
    <3>1. 1 \in 1..(Len(rest) + 1) /\ r.to - 1 \in (1 - 1)..Len(rest) /\ Len(rest) \in (r.to - 1)..Len(rest)
      BY <1>7, <1>9
    <3> QED BY <1>3, <3>1, ConcatAdjacentSubSeq
  <2>3. SubSeq(rest, 1, Len(rest)) = rest
    BY <1>3, SubSeqFull
  <2>4. (r.to - 1) + 1 = r.to
    BY <1>7
  <2> QED BY <2>1, <2>2, <2>3, <2>4
<1> HIDE DEF s, t
<1>11. /\ Once(s) /\ Once(t) /\ Listed(s) \cap Listed(t) = {} /\ Listed(s) \cup Listed(t) = Listed(rest)
       /\ EnabledOn(s) \cup EnabledOn(t) = EnabledOn(rest)
  BY <1>3, <1>10, OnceOfConcat, OrderOfConcat
<1>12. /\ s \o one \in Seq(Entries) /\ Listed(s \o one) = Listed(s) \cup {n}
       /\ EnabledOn(s \o one) = EnabledOn(s) \cup EnabledOn(one) /\ Once(s \o one)
  BY <1>3, <1>6, <1>10, <1>11, OnceOfConcat, OrderOfConcat
<1>13. /\ new \in Seq(Entries) /\ Once(new) /\ Listed(new) = Listed(s) \cup {n} \cup Listed(t)
       /\ EnabledOn(new) = EnabledOn(s) \cup EnabledOn(one) \cup EnabledOn(t)
  <2> DEFINE so == s \o one
  <2>1. /\ so \in Seq(Entries) /\ Once(so) /\ Listed(so) = Listed(s) \cup {n}
        /\ EnabledOn(so) = EnabledOn(s) \cup EnabledOn(one) /\ Listed(so) \cap Listed(t) = {}
    BY <1>3, <1>11, <1>12
  <2>2. new = so \o t
    BY <1>4
  <2> HIDE DEF so, new
  <2>3. /\ so \o t \in Seq(Entries) /\ Listed(so \o t) = Listed(so) \cup Listed(t)
        /\ EnabledOn(so \o t) = EnabledOn(so) \cup EnabledOn(t)
    BY <1>10, <2>1, OrderOfConcat
  <2>4. Once(so \o t)
    BY <1>10, <1>11, <2>1, OnceOfConcat
  <2> QED BY <2>1, <2>2, <2>3, <2>4
<1>14. EnabledOn(mods) \subseteq Listed(mods)
  BY ByEntry
<1>15. EnabledOn(new) = EnabledOn(mods) /\ Listed(new) = Listed(mods)
  BY <1>3, <1>5, <1>6, <1>11, <1>13, <1>14
<1>16. Kept(r, new) = rest
  <2>1. Kept(r, new) = Kept(r, s) \o Kept(r, one) \o Kept(r, t)
    <3>1. Kept(r, s \o one) = Kept(r, s) \o Kept(r, one)
      BY <1>6, <1>10, KeptOfConcat
    <3>2. Kept(r, (s \o one) \o t) = Kept(r, s \o one) \o Kept(r, t)
      BY <1>10, <1>12, KeptOfConcat
    <3> HIDE DEF new
    <3>3. new = (s \o one) \o t
      BY <1>4
    <3> QED BY <3>1, <3>2, <3>3, Zenon
  <2>2. Kept(r, one) = << >>
    <3>1. e \notin Others(n)
      BY <1>1 DEF Others
    <3>2. one = Append(<< >>, e) /\ << >> \in Seq(Entries)
      BY DEF one
    <3>3. Those(one, Others(n)) = Those(<< >>, Others(n))
      BY <1>2, <3>1, <3>2, ThoseOfAppend
    <3> QED BY <3>3, ThoseOfEmpty DEF Kept, Dropped
  <2>3. Kept(r, s) \o Kept(r, t) = Kept(r, rest)
    BY <1>10, KeptOfConcat
  <2>4. Kept(r, s) \in Seq(Entries) /\ Kept(r, t) \in Seq(Entries)
    BY <1>10, KeptOrder
  <2>5. Kept(r, rest) = rest
    <3>1. Others(n) \cap Others(n) = Others(n)
      OBVIOUS
    <3> QED BY <3>1, ThoseTwice DEF Kept, Dropped, rest
  <2> QED BY <2>1, <2>2, <2>3, <2>4, <2>5
<1>17. Follows(r, mods, new)
  BY <1>8, <1>9, <1>16, <1>7 DEF Follows
<1> QED BY <1>13, <1>15, <1>17 DEF OrderMeets

(***************************************************************************)
(* The operations.                                                         *)
(***************************************************************************)

IsOp(o) ==
  /\ o = [at |-> o.at, req |-> o.req, cfg |-> o.cfg, rest |-> o.rest, held |-> o.held, ok |-> o.ok]
  /\ o.at # "idle" => o.req \in Requests

(* What has been opened is a request, and the files are those of the names.*)
Shaped ==
  /\ op = [t \in Threads |-> op[t]]
  /\ \A t \in Threads : IsOp(op[t])
  /\ library = [n \in Names |-> library[n]]
  /\ kept = [n \in Names |-> kept[n]]

(***************************************************************************)
(* Builds.                                                                 *)
(***************************************************************************)

(* The values a build holds, and those of the last report, are the values  *)
(* of the settings as they were opened for it.                             *)
BuiltFrom(built, params) == \A n \in Builtin : built[n].ok => built[n].value = Override(params, n)
Merging(o) == o.at = "merge" => BuiltFrom(o.held, o.cfg.params)
Honest == /\ \A t \in Threads : Merging(op[t])
          /\ report # None => BuiltFrom(report.built, report.params)

(***************************************************************************)
(* Edits.                                                                  *)
(***************************************************************************)

(* An edit brings another text than it read, and once it has kept what it  *)
(* read that is what is beside the script, unless another edit came        *)
(* between.                                                                *)
Edits(o) == o.at \in {"keep", "replace"} => o.held # o.req.text
KeptFor(t) == op[t].at = "replace" /\ t \notin raced => kept[op[t].req.name] = op[t].held
Undoable == \A t \in Threads : Edits(op[t]) /\ KeptFor(t)

Inv == Shaped /\ Honest /\ Undoable

(* A step of an operation that is not a build's merge, nor an edit's last. *)
Aside(t) ==
  /\ op' = [op EXCEPT ![t] = op'[t]] /\ IsOp(op'[t])
  /\ op'[t].at \notin {"merge", "keep", "replace"}
  /\ raced \ {t} \subseteq raced'
  /\ UNCHANGED <<kept, report>> /\ library' = [n \in Names |-> library'[n]]

LEMMA AsideInv ==
  ASSUME Inv, NEW t \in Threads, Aside(t)
  PROVE  Inv'
<1>1. \A u \in Threads : IsOp(op'[u]) /\ (u # t => op'[u] = op[u])
  BY DEF Aside, Inv, Shaped
<1>2. Shaped'
  BY <1>1 DEF Aside, Inv, Shaped
<1>3. Honest'
  BY <1>1 DEF Aside, Inv, Honest, Merging, BuiltFrom, Override, Declared
<1>4. Undoable'
  BY <1>1 DEF Aside, Inv, Undoable, Edits, KeptFor
<1> QED BY <1>2, <1>3, <1>4 DEF Inv

(* The shape of one step: one thread's record changes in some fields.      *)
LEMMA OneOp ==
  ASSUME Inv, NEW t \in Threads, NEW o, op' = [op EXCEPT ![t] = o]
  PROVE  op'[t] = o /\ op' = [op EXCEPT ![t] = op'[t]]
BY DEF Inv, Shaped

LEMMA GotoOp ==
  ASSUME Inv, NEW t \in Threads, NEW stage, NEW doc, Goto(t, stage, doc), op[t].at # "idle"
  PROVE  /\ op' = [op EXCEPT ![t] = op'[t]] /\ IsOp(op'[t])
         /\ op'[t].at = stage /\ op'[t].cfg = doc /\ op'[t].req = op[t].req /\ op'[t].rest = op[t].rest
         /\ op'[t].held = op[t].held /\ op'[t].ok = op[t].ok
<1>1. op' = [op EXCEPT ![t] = [op[t] EXCEPT !.at = stage, !.cfg = doc]]
  BY DEF Goto, Inv, Shaped
<1>2. op'[t] = [op[t] EXCEPT !.at = stage, !.cfg = doc] /\ op' = [op EXCEPT ![t] = op'[t]]
  BY <1>1, OneOp
<1>3. IsOp(op[t])
  BY DEF Inv, Shaped
<1>4. /\ op'[t].at = stage /\ op'[t].cfg = doc /\ op'[t].req = op[t].req /\ op'[t].rest = op[t].rest
      /\ op'[t].held = op[t].held /\ op'[t].ok = op[t].ok
  BY <1>2, <1>3 DEF IsOp
<1>5. IsOp(op'[t])
  BY <1>2, <1>3 DEF IsOp
<1> QED BY <1>2, <1>4, <1>5

LEMMA FinishOp ==
  ASSUME Inv, NEW t \in Threads, NEW good, Finish(t, good), op[t].at # "idle"
  PROVE  /\ op' = [op EXCEPT ![t] = op'[t]] /\ IsOp(op'[t])
         /\ op'[t] = [op[t] EXCEPT !.at = "done", !.ok = good]
         /\ op'[t].at = "done" /\ op'[t].cfg = op[t].cfg /\ op'[t].req = op[t].req /\ op'[t].ok = good
<1>1. op' = [op EXCEPT ![t] = [op[t] EXCEPT !.at = "done", !.ok = good]]
  BY DEF Finish, Inv, Shaped
<1>2. op'[t] = [op[t] EXCEPT !.at = "done", !.ok = good] /\ op' = [op EXCEPT ![t] = op'[t]]
  BY <1>1, OneOp
<1>3. IsOp(op[t])
  BY DEF Inv, Shaped
<1>4. IsOp(op'[t])
  BY <1>2, <1>3 DEF IsOp
<1>5. op'[t].at = "done" /\ op'[t].cfg = op[t].cfg /\ op'[t].req = op[t].req /\ op'[t].ok = good
  BY <1>2, <1>3 DEF IsOp
<1> QED BY <1>2, <1>4, <1>5

(***************************************************************************)
(* The steps.                                                              *)
(***************************************************************************)

(* The operation moves on, to anywhere but a merge or an edit's stages, or *)
(* ends.                                                                   *)
Goes(t) ==
  /\ op[t].at # "idle"
  /\ \/ \E cfg : Goto(t, "save", cfg) \/ Goto(t, "load", cfg) \/ Goto(t, "copy", cfg)
     \/ \E good : Finish(t, good)

LEMMA GoesInv ==
  ASSUME Inv, NEW t \in Threads, Goes(t), raced \subseteq raced', UNCHANGED <<kept, report>>,
         library' = [n \in Names |-> library'[n]]
  PROVE  Inv'
<1>1. ASSUME NEW stage \in {"save", "load", "copy"}, NEW cfg, Goto(t, stage, cfg) PROVE Inv'
  <2>1. /\ op' = [op EXCEPT ![t] = op'[t]] /\ IsOp(op'[t])
        /\ op'[t].at = stage
    BY <1>1, GotoOp DEF Goes
  <2> QED BY <2>1, AsideInv DEF Aside
<1>2. ASSUME NEW good, Finish(t, good) PROVE Inv'
  <2>1. /\ op' = [op EXCEPT ![t] = op'[t]] /\ IsOp(op'[t])
        /\ op'[t] = [op[t] EXCEPT !.at = "done", !.ok = good]
    BY <1>2, FinishOp DEF Goes
  <2>2. op'[t].at = "done"
    BY <2>1 DEF Inv, Shaped, IsOp
  <2> QED BY <2>1, <2>2, AsideInv DEF Aside
<1> QED BY <1>1, <1>2 DEF Goes

(* The operations on the settings alone.                                   *)
LEMMA SettingsInv ==
  ASSUME Inv, NEW t \in Threads,
         \/ List(t) \/ AddAll(t) \/ SetModEnabled(t) \/ MoveMod(t) \/ SetTweakParam(t)
         \/ ResetTweak(t) \/ ConfigSet(t) \/ Prepare(t) \/ ApplyFix(t) \/ FailsAtFile(t)
  PROVE  Inv'
<1>1. UNCHANGED <<library, kept, report, raced>>
  BY DEF List, AddAll, SetModEnabled, MoveMod, SetTweakParam, ResetTweak, ConfigSet, Prepare,
         ApplyFix, FailsAtFile, Steady, files
<1>2. Goes(t)
  <2>1. List(t) => Goes(t)
    BY DEF List, At, Change, Goes
  <2>2. AddAll(t) => Goes(t)
    BY DEF AddAll, At, Change, Goes
  <2>3. SetModEnabled(t) => Goes(t)
    BY DEF SetModEnabled, At, Change, Goes
  <2>4. MoveMod(t) => Goes(t)
    BY DEF MoveMod, At, Change, Goes
  <2>5. SetTweakParam(t) => Goes(t)
    BY DEF SetTweakParam, At, Change, Goes
  <2>6. ResetTweak(t) => Goes(t)
    BY DEF ResetTweak, At, Change, Goes
  <2>7. ConfigSet(t) => Goes(t)
    BY DEF ConfigSet, At, Change, Goes
  <2>8. Prepare(t) => Goes(t)
    BY DEF Prepare, Change, Goes
  <2>9. ApplyFix(t) => Goes(t)
    BY DEF ApplyFix, At, Change, Goes
  <2>10. FailsAtFile(t) => Goes(t)
    BY DEF FailsAtFile, Goes
  <2> QED BY <2>1, <2>2, <2>3, <2>4, <2>5, <2>6, <2>7, <2>8, <2>9, <2>10
<1> QED BY <1>1, <1>2, GoesInv DEF Inv, Shaped

(* Those that write a script file.                                         *)
LEMMA FilesInv ==
  ASSUME Inv, NEW t \in Threads, Truncate(t) \/ RemoveMod(t) \/ ReplaceScript(t) \/ Save(t)
  PROVE  Inv'
<1>1. raced \subseteq raced' /\ UNCHANGED <<kept, report>>
  BY DEF Truncate, RemoveMod, ReplaceScript, Save
<1>2. library' = [n \in Names |-> library'[n]]
  BY DEF Truncate, RemoveMod, ReplaceScript, Save, Inv, Shaped
<1>3. Goes(t)
  <2>1. Truncate(t) => Goes(t)
    BY DEF Truncate, At, Goes
  <2>2. RemoveMod(t) => Goes(t)
    BY DEF RemoveMod, At, Change, Goes
  <2>3. ReplaceScript(t) => Goes(t)
    BY DEF ReplaceScript, At, Goes
  <2>4. Save(t) => Goes(t)
    BY DEF Save, Goes
  <2> QED BY <2>1, <2>2, <2>3, <2>4
<1> QED BY <1>1, <1>2, <1>3, GoesInv

LEMMA OpenInv == ASSUME Inv, NEW t \in Threads, NEW r \in Requests, Open(t, r) PROVE Inv'
<1> DEFINE o == [Quiet EXCEPT !.at = "open", !.req = r, !.cfg = Loaded,
                              !.rest = IF r.op = "add" THEN r.names ELSE << >>]
<1>1. op'[t] = o /\ op' = [op EXCEPT ![t] = op'[t]]
  BY OneOp DEF Open
<1>2. IsOp(op'[t]) /\ op'[t].at = "open"
  BY <1>1 DEF IsOp, Quiet
<1> QED BY <1>1, <1>2, AsideInv DEF Open, Aside, files, Inv, Shaped

LEMMA QuietInv == ASSUME Inv, NEW t \in Threads, Close(t) \/ Stop(t) PROVE Inv'
<1>1. op'[t] = Quiet /\ op' = [op EXCEPT ![t] = op'[t]]
  BY OneOp DEF Close, Stop
<1>2. IsOp(op'[t]) /\ op'[t].at = "idle"
  BY <1>1 DEF IsOp, Quiet
<1> QED BY <1>1, <1>2, AsideInv DEF Close, Stop, Steady, Aside, files, Inv, Shaped

LEMMA CopyInInv == ASSUME Inv, NEW t \in Threads, CopyIn(t) PROVE Inv'
<1>1. PICK mods : /\ library' = [library EXCEPT ![Head(op[t].rest)] = op[t].req.text]
                  /\ op' = [op EXCEPT ![t].at = "open", ![t].cfg = WithMods(t, mods), ![t].rest = Tail(@)]
  BY DEF CopyIn
<1>2. op' = [op EXCEPT ![t] = [op[t] EXCEPT !.at = "open", !.cfg = WithMods(t, mods), !.rest = Tail(@)]]
  BY <1>1 DEF Inv, Shaped
<1>3. /\ op'[t] = [op[t] EXCEPT !.at = "open", !.cfg = WithMods(t, mods), !.rest = Tail(@)]
      /\ op' = [op EXCEPT ![t] = op'[t]]
  BY <1>2, OneOp
<1>4. IsOp(op[t]) /\ op[t].at = "copy"
  BY DEF Inv, Shaped, CopyIn, At
<1>5. IsOp(op'[t]) /\ op'[t].at = "open"
  BY <1>3, <1>4 DEF IsOp
<1> QED BY <1>1, <1>3, <1>5, AsideInv DEF CopyIn, Aside, Inv, Shaped

LEMMA PlanFixInv == ASSUME Inv, NEW t \in Threads, PlanFix(t) PROVE Inv'
<1>1. op[t].at = "load" /\ UNCHANGED <<library, kept, report, raced>>
  BY DEF PlanFix, At, Steady, files
<1>2. CASE \E good : Finish(t, good)
  BY <1>1, <1>2, GoesInv DEF Goes, Inv, Shaped
<1>3. ASSUME NEW plan, op' = [op EXCEPT ![t].at = "apply", ![t].held = plan] PROVE Inv'
  <2>1. op' = [op EXCEPT ![t] = [op[t] EXCEPT !.at = "apply", !.held = plan]]
    BY <1>3 DEF Inv, Shaped
  <2>2. /\ op'[t] = [op[t] EXCEPT !.at = "apply", !.held = plan]
        /\ op' = [op EXCEPT ![t] = op'[t]]
    BY <2>1, OneOp
  <2>3. IsOp(op'[t]) /\ op'[t].at = "apply"
    BY <1>1, <2>2 DEF IsOp, Inv, Shaped
  <2> QED BY <1>1, <2>2, <2>3, AsideInv DEF Aside, Inv, Shaped
<1> QED BY <1>2, <1>3 DEF PlanFix

(* A build loads its scripts with the parameters it opened with, ...       *)
LEMMA ScriptValue ==
  ASSUME NEW cfg, NEW n \in Builtin, Script(cfg, n).ok
  PROVE  Script(cfg, n).value = Override(cfg.params, n)
BY DEF Script

LEMMA BuildInv == ASSUME Inv, NEW t \in Threads, Build(t) PROVE Inv'
<1>1. op[t].at = "load" /\ UNCHANGED <<library, kept, report, raced>>
  BY DEF Build, At, Steady, files
<1>2. CASE Finish(t, FALSE)
  BY <1>1, <1>2, GoesInv DEF Goes, Inv, Shaped
<1> DEFINE built == [n \in Names |-> IF IsOn(Cfg(t).mods, n) THEN Script(Cfg(t), n)
                                     ELSE [ok |-> FALSE, value |-> None]]
<1>3. CASE op' = [op EXCEPT ![t].at = "merge", ![t].held = built]
  <2>1. BuiltFrom(built, op[t].cfg.params)
    <3> SUFFICES ASSUME NEW n \in Builtin, built[n].ok
                 PROVE  built[n].value = Override(op[t].cfg.params, n)
      BY DEF BuiltFrom
    <3>1. n \in Names /\ built[n] = Script(Cfg(t), n)
      OBVIOUS
    <3> QED BY <3>1, ScriptValue DEF Cfg
  <2> HIDE DEF built
  <2>2. op' = [op EXCEPT ![t] = [op[t] EXCEPT !.at = "merge", !.held = built]]
    BY <1>3 DEF Inv, Shaped
  <2>3. /\ op'[t] = [op[t] EXCEPT !.at = "merge", !.held = built]
        /\ op' = [op EXCEPT ![t] = op'[t]]
    BY <2>2, OneOp
  <2>4. IsOp(op'[t]) /\ op'[t].at = "merge" /\ op'[t].held = built /\ op'[t].cfg = op[t].cfg
    BY <1>1, <2>3 DEF IsOp, Inv, Shaped
  <2>5. \A u \in Threads : IsOp(op'[u]) /\ (u # t => op'[u] = op[u])
    BY <2>3, <2>4 DEF Inv, Shaped
  <2>6. Shaped'
    BY <1>1, <2>3, <2>5 DEF Inv, Shaped
  <2>7. Honest'
    BY <1>1, <2>1, <2>4, <2>5 DEF Inv, Honest, Merging, BuiltFrom, Override, Declared
  <2>8. Undoable'
    BY <1>1, <2>4, <2>5 DEF Inv, Undoable, Edits, KeptFor
  <2> QED BY <2>6, <2>7, <2>8 DEF Inv
<1> QED BY <1>2, <1>3 DEF Build

(* ... and reports these.                                                  *)
LEMMA WriteReportInv == ASSUME Inv, NEW t \in Threads, WriteReport(t) PROVE Inv'
<1>1. /\ op[t].at = "merge" /\ Finish(t, TRUE) /\ UNCHANGED <<library, kept, raced>>
      /\ report' = [built |-> op[t].held, params |-> op[t].cfg.params, limit |-> op[t].cfg.limit]
  BY DEF WriteReport, At, Cfg
<1>2. /\ op' = [op EXCEPT ![t] = op'[t]] /\ IsOp(op'[t])
      /\ op'[t] = [op[t] EXCEPT !.at = "done", !.ok = TRUE]
  BY <1>1, FinishOp
<1>3. op'[t].at = "done" /\ \A u \in Threads : IsOp(op'[u]) /\ (u # t => op'[u] = op[u])
  BY <1>2 DEF Inv, Shaped, IsOp
<1>4. Shaped'
  BY <1>1, <1>2, <1>3 DEF Inv, Shaped
<1>5. BuiltFrom(op[t].held, op[t].cfg.params)
  BY <1>1 DEF Inv, Honest, Merging
<1>6. Honest'
  BY <1>1, <1>3, <1>5 DEF Inv, Honest, Merging, BuiltFrom, Override, Declared
<1>7. Undoable'
  BY <1>1, <1>3 DEF Inv, Undoable, Edits, KeptFor
<1> QED BY <1>4, <1>6, <1>7 DEF Inv

(* An edit reads what is there, keeps it beside the script, ...            *)
LEMMA ReadCurrentInv == ASSUME Inv, NEW t \in Threads, ReadCurrent(t) PROVE Inv'
<1>1. op[t].at = "open" /\ UNCHANGED <<library, kept, report, raced>>
  BY DEF ReadCurrent, At, Steady, files
<1>2. CASE \E good : Finish(t, good)
  BY <1>1, <1>2, GoesInv DEF Goes, Inv, Shaped
<1> DEFINE held == library[op[t].req.name]
<1>3. CASE held # op[t].req.text /\ op' = [op EXCEPT ![t].at = "keep", ![t].held = held]
  <2> HIDE DEF held
  <2>1. op' = [op EXCEPT ![t] = [op[t] EXCEPT !.at = "keep", !.held = held]]
    BY <1>3 DEF Inv, Shaped
  <2>2. /\ op'[t] = [op[t] EXCEPT !.at = "keep", !.held = held]
        /\ op' = [op EXCEPT ![t] = op'[t]]
    BY <2>1, OneOp
  <2>3. IsOp(op'[t]) /\ op'[t].at = "keep" /\ op'[t].held = held /\ op'[t].req = op[t].req
    BY <1>1, <2>2 DEF IsOp, Inv, Shaped
  <2>4. \A u \in Threads : IsOp(op'[u]) /\ (u # t => op'[u] = op[u])
    BY <2>2, <2>3 DEF Inv, Shaped
  <2>5. Shaped'
    BY <1>1, <2>2, <2>4 DEF Inv, Shaped
  <2>6. Honest'
    BY <1>1, <2>3, <2>4 DEF Inv, Honest, Merging, BuiltFrom, Override, Declared
  <2>7. Undoable'
    BY <1>1, <1>3, <2>3, <2>4 DEF Inv, Undoable, Edits, KeptFor
  <2> QED BY <2>5, <2>6, <2>7 DEF Inv
<1> QED BY <1>2, <1>3 DEF ReadCurrent

(* ... overtaking the edits that have kept theirs already, ...             *)
LEMMA KeepPreviousInv == ASSUME Inv, NEW t \in Threads, KeepPrevious(t) PROVE Inv'
<1>1. /\ op[t].at = "keep" /\ op[t].req.op = "write" /\ Goto(t, "replace", op[t].cfg)
      /\ kept' = [kept EXCEPT ![op[t].req.name] = op[t].held]
      /\ raced' = raced \cup {u \in Threads \ {t} : op[u].at = "replace"}
      /\ UNCHANGED <<library, report>>
  BY DEF KeepPrevious, At, Cfg
<1>2. /\ op' = [op EXCEPT ![t] = op'[t]] /\ IsOp(op'[t])
      /\ op'[t].at = "replace" /\ op'[t].req = op[t].req /\ op'[t].held = op[t].held
  BY <1>1, GotoOp
<1>3. /\ op'[t].at = "replace" /\ op'[t].req = op[t].req /\ op'[t].held = op[t].held
      /\ \A u \in Threads : IsOp(op'[u]) /\ (u # t => op'[u] = op[u])
  BY <1>2 DEF Inv, Shaped, IsOp
<1>4. Shaped'
  BY <1>1, <1>2, <1>3 DEF Inv, Shaped
<1>5. Honest'
  BY <1>1, <1>3 DEF Inv, Honest, Merging, BuiltFrom, Override, Declared
<1>6. op[t].req.name \in Names
  BY <1>1, RequestsAssumption DEF Inv, Shaped, IsOp
<1>7. Undoable'
  <2>1. Edits(op[t]) /\ kept'[op[t].req.name] = op[t].held
    BY <1>1, <1>6 DEF Inv, Shaped, Undoable
  <2>2. (Edits(op[t]) /\ KeptFor(t))'
    BY <1>1, <1>3, <2>1 DEF Edits, KeptFor
  <2>3. ASSUME NEW u \in Threads, u # t PROVE (Edits(op[u]) /\ KeptFor(u))'
    BY <1>1, <1>3, <2>3 DEF Inv, Undoable, Edits, KeptFor
  <2> QED BY <2>2, <2>3 DEF Undoable
<1> QED BY <1>4, <1>5, <1>7 DEF Inv

LEMMA UserFileInv == ASSUME Inv, NEW n \in Names, NEW text, UserFile(n, text) PROVE Inv'
<1>1. UNCHANGED <<kept, report, op, raced>> /\ library' = [m \in Names |-> library'[m]]
  BY DEF UserFile, Inv, Shaped
<1>2. Shaped'
  BY <1>1 DEF Inv, Shaped, IsOp
<1>3. Honest'
  BY <1>1 DEF Inv, Honest, Merging, BuiltFrom, Override, Declared
<1>4. Undoable'
  BY <1>1 DEF Inv, Undoable, Edits, KeptFor
<1> QED BY <1>2, <1>3, <1>4 DEF Inv

LEMMA InitInv == Init => Inv
<1> SUFFICES ASSUME Init PROVE Inv
  OBVIOUS
<1>1. op = [t \in Threads |-> Quiet] /\ kept = [n \in Names |-> None] /\ raced = {}
  BY DEF Init
<1>2. library = [n \in Names |-> library[n]]
  BY DEF Init, FirstRun, LaterRun
<1>3. Shaped
  BY <1>1, <1>2 DEF Shaped, IsOp, Quiet
<1>4. Undoable
  BY <1>1 DEF Undoable, Edits, KeptFor, Quiet
<1>5. report # None => BuiltFrom(report.built, report.params)
  <2> SUFFICES ASSUME LaterRun PROVE BuiltFrom(report.built, report.params)
    BY DEF Init, FirstRun
  <2>1. /\ report.params = NoParams /\ config.params = NoParams
        /\ report.built = [n \in Names |-> Script(config, n)]
    BY DEF LaterRun, Defaults
  <2>2. ASSUME NEW n \in Builtin PROVE report.built[n] = Script(config, n)
    BY <2>1
  <2> QED BY <2>1, <2>2, ScriptValue DEF BuiltFrom
<1>6. Honest
  BY <1>1, <1>5 DEF Honest, Merging, Quiet
<1> QED BY <1>3, <1>4, <1>6 DEF Inv

LEMMA NextInv == ASSUME Inv, [Next]_vars PROVE Inv'
<1>1. ASSUME NEW t \in Threads, Work(t) PROVE Inv'
  BY <1>1, SettingsInv, FilesInv, CopyInInv, PlanFixInv, BuildInv, WriteReportInv, ReadCurrentInv,
     KeepPreviousInv DEF Work
<1>2. ASSUME UNCHANGED vars PROVE Inv'
  <2>1. UNCHANGED <<library, kept, report, op, raced>>
    BY <1>2 DEF vars, files
  <2>2. Shaped'
    BY <2>1 DEF Inv, Shaped, IsOp
  <2>3. Honest'
    BY <2>1 DEF Inv, Honest, Merging, BuiltFrom, Override, Declared
  <2>4. Undoable'
    BY <2>1 DEF Inv, Undoable, Edits, KeptFor
  <2> QED BY <2>2, <2>3, <2>4 DEF Inv
<1> QED BY <1>1, <1>2, OpenInv, QuietInv, UserFileInv DEF Next

(* A tweak shown as built was built with the value the settings hold now,  *)
(* for any built-ins, requests and programs.                               *)
THEOREM BuiltAsShown == Spec => []BuiltMeansBuilt
<1>1. Inv => BuiltMeansBuilt
  <2> SUFFICES ASSUME Inv, NEW n \in Builtin, report # None, ~Unbuilt(n), report.built[n].ok
               PROVE  report.built[n].value = Override(Loaded.params, n)
    BY DEF BuiltMeansBuilt
  <2>1. report.built[n].value = Override(report.params, n)
    BY DEF Inv, Honest, BuiltFrom
  <2>2. report.params[n] = Loaded.params[n]
    BY DEF Unbuilt, Differ
  <2> QED BY <2>1, <2>2 DEF Override
<1> QED BY InitInv, NextInv, <1>1, PTL DEF Spec

KeepsPrevious ==
  \A t \in Threads :
    (/\ At(t, "replace", "write") /\ op'[t].at = "done" /\ op'[t].ok
     /\ op[t].held = library[op[t].req.name] /\ t \notin raced)
    => /\ kept[op[t].req.name] = library[op[t].req.name]
       /\ kept[op[t].req.name] # library'[op[t].req.name]

(* Of an edit that ends well only the last step, the replacement, does.    *)
LEMMA WhoEnds ==
  ASSUME Inv, [Next]_vars, NEW t \in Threads,
         At(t, "replace", "write"), op'[t].at = "done", op'[t].ok
  PROVE  ReplaceScript(t)
<1>1. op[t].at = "replace"
  BY DEF At
<1>2. ASSUME NEW u \in Threads, u # t, (\E r \in Requests : Open(u, r)) \/ Work(u) \/ Close(u) \/ Stop(u)
      PROVE  FALSE
  <2>1. op'[t] = op[t]
    BY <1>2 DEF Inv, Shaped, Open, Close, Stop, Work, List, Truncate, CopyIn, AddAll, RemoveMod,
                SetModEnabled, MoveMod, SetTweakParam, ResetTweak, ConfigSet, ReadCurrent,
                KeepPrevious, ReplaceScript, Prepare, Build, WriteReport, PlanFix, ApplyFix, Save,
                FailsAtFile, Change, Goto, Finish
  <2> QED BY <1>1, <2>1
<1>3. ~(\E r \in Requests : Open(t, r)) /\ ~Close(t)
  BY <1>1 DEF Open, Close
<1>4. ASSUME Stop(t) PROVE FALSE
  BY <1>4, OneOp DEF Stop, Quiet
<1>5. ASSUME FailsAtFile(t) PROVE FALSE
  <2>1. op'[t] = [op[t] EXCEPT !.at = "done", !.ok = FALSE] /\ IsOp(op[t])
    BY <1>1, <1>5, FinishOp DEF FailsAtFile, Inv, Shaped
  <2> QED BY <2>1 DEF IsOp
<1>6. ASSUME Work(t) PROVE ReplaceScript(t)
  BY <1>1, <1>5, <1>6 DEF Work, At, List, Truncate, CopyIn, AddAll, RemoveMod, SetModEnabled,
        MoveMod, SetTweakParam, ResetTweak, ConfigSet, ReadCurrent, KeepPrevious, Prepare, Build,
        WriteReport, PlanFix, ApplyFix, Save
<1>7. ~UNCHANGED op
  BY <1>1
<1> QED BY <1>2, <1>3, <1>4, <1>6, <1>7 DEF Next, UserFile, vars

LEMMA EndsUndoable == ASSUME Inv, [Next]_vars PROVE KeepsPrevious
<1> SUFFICES ASSUME NEW t \in Threads, At(t, "replace", "write"),
                    op'[t].at = "done", op'[t].ok,
                    op[t].held = library[op[t].req.name], t \notin raced
             PROVE  /\ kept[op[t].req.name] = library[op[t].req.name]
                    /\ kept[op[t].req.name] # library'[op[t].req.name]
  BY DEF KeepsPrevious
<1>1. op[t].at = "replace" /\ op[t].req.op = "write"
  BY DEF At
<1>2. kept[op[t].req.name] = op[t].held /\ op[t].held # op[t].req.text
  BY <1>1 DEF Inv, Undoable, Edits, KeptFor
<1>3. op[t].req.name \in Names
  BY <1>1, RequestsAssumption DEF Inv, Shaped, IsOp
<1>4. ReplaceScript(t)
  BY WhoEnds
<1>5. library'[op[t].req.name] = op[t].req.text
  BY <1>3, <1>4 DEF ReplaceScript, Inv, Shaped
<1> QED BY <1>2, <1>5

(* The text an edit replaced is beside the script, and is another one: an  *)
(* edit that no other overtook can be taken back.                          *)
THEOREM EditsCanBeUndone == Spec => EditKeepsPrevious
<1>1. Inv /\ [Next]_vars => Inv' /\ [KeepsPrevious]_vars
  BY NextInv, EndsUndoable
<1>2. Spec => [][KeepsPrevious]_vars
  BY InitInv, <1>1, PTL DEF Spec
<1> QED BY <1>2 DEF EditKeepsPrevious, KeepsPrevious

(***************************************************************************)
(* The settings.                                                           *)
(***************************************************************************)

(* A document: its types, no mod twice, and no mod on without being asked. *)
Doc(d) == d \in Documents /\ Once(d.mods) /\ EnabledOn(d.mods) \subseteq asked

OpTyped(o) ==
  /\ o.at \in Stages /\ o.ok \in BOOLEAN /\ Doc(o.cfg)
  /\ o.at # "idle" => Asks(o.req) \subseteq asked
  /\ o.at \in {"open", "copy"} /\ o.req.op = "add" => o.rest \in Seq(Names) /\ Range(o.rest) \subseteq Range(o.req.names)
  /\ o.at = "copy" => o.rest # << >> /\ o.req.op = "add"
  /\ o.at \in {"keep", "replace"} => o.held \in Texts \cup {None}
  /\ o.at = "apply" => o.held \in [Builtin -> Values \cup {None}]

(* What an operation holds that no other has overtaken: the document as it *)
(* is but for what was asked, and a plan that only lowers.                 *)
Lowers(o) == \A n \in Builtin : o.held[n] # None => o.held[n] < InForce(Loaded.params, n)
Meant(t) ==
  t \notin raced =>
    /\ op[t].at \in {"open", "copy", "save"} => Meets(op[t].req, Loaded, op[t].cfg)
    /\ op[t].at = "open" /\ op[t].req.op # "add" => op[t].cfg = Loaded
    /\ op[t].at = "apply" => Lowers(op[t])

Files == library \in [Names -> Texts \cup {None}] /\ kept \in [Names -> Texts \cup {None}]
Settings ==
  /\ config \in Documents \cup {None} /\ Doc(Loaded)
  /\ Files /\ asked \subseteq Names /\ raced \subseteq Threads
  /\ \A t \in Threads : OpTyped(op[t]) /\ Meant(t)

LEMMA OneMoves ==
  ASSUME Inv, Settings, NEW t \in Threads, op' = [op EXCEPT ![t] = op'[t]], config' = config, Files',
         asked \subseteq asked', asked' \subseteq Names, raced' \subseteq Threads, raced \ {t} \subseteq raced',
         OpTyped(op[t])', Meant(t)'
  PROVE  Settings'
<1>1. \A u \in Threads : u # t => op'[u] = op[u]
  BY DEF Inv, Shaped
<1>2. Loaded' = Loaded
  BY DEF Loaded
<1>3. (config \in Documents \cup {None})' /\ Doc(Loaded)'
  BY <1>2 DEF Settings, Doc, Documents
<1>4. ASSUME NEW u \in Threads, u # t PROVE OpTyped(op[u])'
  <2>1. op'[u] = op[u] /\ OpTyped(op[u])
    BY <1>1, <1>4 DEF Settings
  <2> QED BY <2>1 DEF OpTyped, Doc
<1>5. ASSUME NEW u \in Threads, u # t PROVE Meant(u)'
  <2>1. op'[u] = op[u] /\ Meant(u) /\ (u \notin raced' => u \notin raced)
    BY <1>1, <1>5 DEF Settings
  <2> QED BY <1>2, <2>1 DEF Meant, Lowers
<1> QED BY <1>3, <1>4, <1>5 DEF Settings

(* What an operation leaves alone while it goes on.                        *)
Around == config' = config /\ Files' /\ asked' = asked

LEMMA FinishSettings ==
  ASSUME Inv, Settings, NEW t \in Threads, NEW good \in BOOLEAN, Finish(t, good), op[t].at # "idle",
         Around, raced' = raced
  PROVE  Settings'
<1>1. /\ op' = [op EXCEPT ![t] = op'[t]]
      /\ op'[t].at = "done" /\ op'[t].cfg = op[t].cfg /\ op'[t].req = op[t].req /\ op'[t].ok = good
  BY FinishOp
<1>2. OpTyped(op[t])
  BY DEF Settings
<1>3. OpTyped(op[t])'
  BY <1>1, <1>2 DEF OpTyped, Doc, Around, Stages
<1>4. Meant(t)'
  BY <1>1 DEF Meant
<1> QED BY <1>1, <1>3, <1>4, OneMoves DEF Around, Settings

LEMMA ChangeSettings ==
  ASSUME Inv, Settings, NEW t \in Threads, NEW doc, Change(t, doc), op[t].at # "idle",
         Around, raced' = raced, Doc(doc), t \notin raced => Meets(op[t].req, Loaded, doc)
  PROVE  Settings'
<1>1. /\ op' = [op EXCEPT ![t] = op'[t]]
      /\ op'[t].at = "save" /\ op'[t].cfg = doc /\ op'[t].req = op[t].req /\ op'[t].ok = op[t].ok
  BY GotoOp DEF Change
<1>2. OpTyped(op[t])
  BY DEF Settings
<1>3. OpTyped(op[t])'
  BY <1>1, <1>2 DEF OpTyped, Doc, Around, Stages
<1>4. Meant(t)'
  BY <1>1 DEF Meant, Loaded, Around
<1> QED BY <1>1, <1>3, <1>4, OneMoves DEF Around, Settings

LEMMA StaySettings ==
  ASSUME Inv, Settings, NEW t \in Threads, NEW stage \in {"load"}, Goto(t, stage, op[t].cfg), op[t].at # "idle",
         Around, raced' = raced
  PROVE  Settings'
<1>1. /\ op' = [op EXCEPT ![t] = op'[t]]
      /\ op'[t].at = stage /\ op'[t].cfg = op[t].cfg /\ op'[t].req = op[t].req /\ op'[t].ok = op[t].ok
  BY GotoOp
<1>2. OpTyped(op[t])
  BY DEF Settings
<1>3. OpTyped(op[t])'
  BY <1>1, <1>2 DEF OpTyped, Doc, Around, Stages
<1>4. Meant(t)'
  BY <1>1 DEF Meant
<1> QED BY <1>1, <1>3, <1>4, OneMoves DEF Around, Settings

(* A document with another order.                                          *)
LEMMA WithOrder ==
  ASSUME Inv, Settings, NEW t \in Threads, NEW mods \in Seq(Entries), Once(mods), EnabledOn(mods) \subseteq asked
  PROVE  /\ Doc(WithMods(t, mods))
         /\ \A r : Loaded = op[t].cfg /\ OrderMeets(r, Loaded.mods, mods) => Meets(r, Loaded, WithMods(t, mods))
<1>1. Doc(op[t].cfg)
  BY DEF Settings, OpTyped
<1>2. /\ WithMods(t, mods).mods = mods /\ WithMods(t, mods).params = op[t].cfg.params
      /\ WithMods(t, mods).limit = op[t].cfg.limit /\ WithMods(t, mods) \in Documents
  BY <1>1 DEF WithMods, Cfg, Doc, Documents
<1> QED BY <1>2 DEF Doc, Meets

LEMMA SteadyAround ==
  ASSUME Settings, Steady
  PROVE  Around /\ raced' = raced
BY DEF Settings, Steady, files, Around, Files

(* The document as an operation that is not an add opened it.              *)
LEMMA Opened ==
  ASSUME Settings, NEW t \in Threads, op[t].at = "open"
  PROVE  /\ op[t].at # "idle" /\ Doc(op[t].cfg) /\ op[t].cfg.mods \in Seq(Entries) /\ Once(op[t].cfg.mods)
         /\ EnabledOn(op[t].cfg.mods) \subseteq asked
         /\ t \notin raced /\ op[t].req.op # "add" => Loaded = op[t].cfg
         /\ Asks(op[t].req) \subseteq asked
BY DEF Settings, OpTyped, Doc, Documents, Meant

LEMMA ListSettings == ASSUME Inv, Settings, NEW t \in Threads, List(t) PROVE Settings'
<1> DEFINE mods == Reconciled(op[t].cfg.mods)
<1>1. op[t].at = "open" /\ op[t].req.op = "list"
  BY DEF List, At
<1>2. Around /\ raced' = raced
  BY SteadyAround DEF List
<1>3. /\ mods \in Seq(Entries) /\ Once(mods) /\ EnabledOn(mods) \subseteq asked
      /\ OrderMeets(op[t].req, op[t].cfg.mods, mods)
  BY <1>1, Opened, ReconciledOrder
<1>4. t \notin raced => Loaded = op[t].cfg
  BY <1>1, Opened
<1> HIDE DEF mods
<1>5. Doc(WithMods(t, mods)) /\ (t \notin raced => Meets(op[t].req, Loaded, WithMods(t, mods)))
  BY <1>3, <1>4, WithOrder
<1>6. Finish(t, TRUE) \/ Change(t, WithMods(t, mods))
  BY DEF List, mods, Cfg
<1> QED BY <1>1, <1>2, <1>5, <1>6, FinishSettings, ChangeSettings

LEMMA PrepareSettings == ASSUME Inv, Settings, NEW t \in Threads, Prepare(t) PROVE Settings'
<1> DEFINE mods == Reconciled(op[t].cfg.mods)
<1>1. op[t].at = "open" /\ op[t].req.op # "add" /\ op[t].req.op # "remove"
  BY DEF Prepare
<1>2. Around /\ raced' = raced
  BY SteadyAround DEF Prepare
<1>3. /\ mods \in Seq(Entries) /\ Once(mods) /\ EnabledOn(mods) \subseteq asked
      /\ OrderMeets(op[t].req, op[t].cfg.mods, mods)
  BY <1>1, Opened, ReconciledOrder
<1>4. t \notin raced => Loaded = op[t].cfg
  BY <1>1, Opened
<1> HIDE DEF mods
<1>5. Doc(WithMods(t, mods)) /\ (t \notin raced => Meets(op[t].req, Loaded, WithMods(t, mods)))
  BY <1>3, <1>4, WithOrder
<1>6. Goto(t, "load", op[t].cfg) \/ Change(t, WithMods(t, mods))
  BY DEF Prepare, mods, Cfg
<1> QED BY <1>1, <1>2, <1>5, <1>6, StaySettings, ChangeSettings

LEMMA AddAllSettings == ASSUME Inv, Settings, NEW t \in Threads, AddAll(t) PROVE Settings'
<1>1. op[t].at = "open" /\ Change(t, op[t].cfg)
  BY DEF AddAll, At, Cfg
<1>2. Around /\ raced' = raced
  BY SteadyAround DEF AddAll
<1>3. Doc(op[t].cfg) /\ (t \notin raced => Meets(op[t].req, Loaded, op[t].cfg))
  BY <1>1 DEF Settings, OpTyped, Meant
<1> QED BY <1>1, <1>2, <1>3, ChangeSettings

LEMMA SetModEnabledSettings == ASSUME Inv, Settings, NEW t \in Threads, SetModEnabled(t) PROVE Settings'
<1> DEFINE S == Range(op[t].req.names)
    mods == Switched(op[t].cfg.mods, S, op[t].req.on)
<1>1. op[t].at = "open" /\ op[t].req.op = "enable" /\ op[t].req \in Requests
  BY DEF SetModEnabled, At, Inv, Shaped, IsOp
<1>2. Around /\ raced' = raced
  BY SteadyAround DEF SetModEnabled
<1>3. ASSUME S \subseteq Listed(op[t].cfg.mods)
      PROVE  /\ mods \in Seq(Entries) /\ Once(mods) /\ EnabledOn(mods) \subseteq asked
             /\ OrderMeets(op[t].req, op[t].cfg.mods, mods)
  <2>1. op[t].req.on \in BOOLEAN
    BY <1>1, RequestsAssumption
  <2>2. op[t].cfg.mods \in Seq(Entries) /\ Once(op[t].cfg.mods) /\ EnabledOn(op[t].cfg.mods) \subseteq asked
    BY <1>1, Opened
  <2>3. /\ mods \in Seq(Entries) /\ (Once(op[t].cfg.mods) => Once(mods))
        /\ EnabledOn(mods) \subseteq EnabledOn(op[t].cfg.mods) \cup IF op[t].req.on THEN S ELSE {}
        /\ OrderMeets(op[t].req, op[t].cfg.mods, mods)
    BY <1>1, <1>3, <2>1, <2>2, SwitchedOrder
  <2>4. op[t].req.on => S \subseteq asked
    BY <1>1, Opened DEF Asks
  <2> HIDE DEF mods
  <2> QED BY <2>2, <2>3, <2>4
<1>4. t \notin raced => Loaded = op[t].cfg
  BY <1>1, Opened
<1>5. Finish(t, FALSE) \/ (S \subseteq Listed(op[t].cfg.mods) /\ Change(t, WithMods(t, mods)))
  BY DEF SetModEnabled, Cfg
<1> HIDE DEF mods, S
<1>6. S \subseteq Listed(op[t].cfg.mods) =>
        Doc(WithMods(t, mods)) /\ (t \notin raced => Meets(op[t].req, Loaded, WithMods(t, mods)))
  BY <1>3, <1>4, WithOrder
<1> QED BY <1>1, <1>2, <1>5, <1>6, FinishSettings, ChangeSettings

LEMMA MoveModSettings == ASSUME Inv, Settings, NEW t \in Threads, MoveMod(t) PROVE Settings'
<1> DEFINE r == op[t].req
    mods == Moved(op[t].cfg.mods, r.name, r.to)
<1>1. op[t].at = "open" /\ r.op = "move"
  BY DEF MoveMod, At
<1>2. Around /\ raced' = raced
  BY SteadyAround DEF MoveMod
<1>3. ASSUME r.name \in Listed(op[t].cfg.mods), r.to \in DOMAIN op[t].cfg.mods
      PROVE  /\ mods \in Seq(Entries) /\ Once(mods) /\ EnabledOn(mods) \subseteq asked
             /\ OrderMeets(r, op[t].cfg.mods, mods)
  <2>1. op[t].cfg.mods \in Seq(Entries) /\ Once(op[t].cfg.mods) /\ EnabledOn(op[t].cfg.mods) \subseteq asked
    BY <1>1, Opened
  <2>2. /\ mods \in Seq(Entries) /\ Once(mods) /\ EnabledOn(mods) = EnabledOn(op[t].cfg.mods)
        /\ OrderMeets(r, op[t].cfg.mods, mods)
    BY <1>1, <1>3, <2>1, MovedOrder
  <2> HIDE DEF mods
  <2> QED BY <2>1, <2>2
<1>4. t \notin raced => Loaded = op[t].cfg
  BY <1>1, Opened
<1>5. Finish(t, FALSE) \/ (/\ r.name \in Listed(op[t].cfg.mods) /\ r.to \in DOMAIN op[t].cfg.mods
                           /\ Change(t, WithMods(t, mods)))
  BY DEF MoveMod, Cfg
<1> HIDE DEF mods
<1>6. r.name \in Listed(op[t].cfg.mods) /\ r.to \in DOMAIN op[t].cfg.mods =>
        Doc(WithMods(t, mods)) /\ (t \notin raced => Meets(r, Loaded, WithMods(t, mods)))
  BY <1>3, <1>4, WithOrder
<1> QED BY <1>1, <1>2, <1>5, <1>6, FinishSettings, ChangeSettings

LEMMA RemoveModSettings == ASSUME Inv, Settings, NEW t \in Threads, RemoveMod(t) PROVE Settings'
<1> DEFINE r == op[t].req
    mods == Dropped(op[t].cfg.mods, r.name)
<1>1. op[t].at = "open" /\ r.op = "remove"
  BY DEF RemoveMod, At
<1>2. Around /\ raced' = raced
  BY DEF RemoveMod, Settings, Files, Around
<1>3. /\ mods \in Seq(Entries) /\ Once(mods) /\ EnabledOn(mods) \subseteq asked
      /\ OrderMeets(r, op[t].cfg.mods, mods)
  <2>1. op[t].cfg.mods \in Seq(Entries) /\ Once(op[t].cfg.mods) /\ EnabledOn(op[t].cfg.mods) \subseteq asked
    BY <1>1, Opened
  <2>2. /\ mods \in Seq(Entries) /\ (Once(op[t].cfg.mods) => Once(mods))
        /\ EnabledOn(mods) = EnabledOn(op[t].cfg.mods) \ {r.name}
    BY <2>1, DroppedOrder
  <2>3. OrderMeets(r, op[t].cfg.mods, mods)
    BY <1>1, <2>1, RemovedOrder
  <2> HIDE DEF mods
  <2> QED BY <2>1, <2>2, <2>3
<1>4. t \notin raced => Loaded = op[t].cfg
  BY <1>1, Opened
<1>5. Finish(t, FALSE) \/ Finish(t, TRUE) \/ Change(t, WithMods(t, mods))
  BY DEF RemoveMod, Cfg
<1> HIDE DEF mods
<1>6. Doc(WithMods(t, mods)) /\ (t \notin raced => Meets(r, Loaded, WithMods(t, mods)))
  BY <1>3, <1>4, WithOrder
<1> QED BY <1>1, <1>2, <1>5, <1>6, FinishSettings, ChangeSettings

(* A document with another value for one parameter.                        *)
LEMMA KnownOrder ==
  ASSUME Settings, NEW t \in Threads, op[t].at = "open", op[t].req.op \in {"set", "reset"}
  PROVE  LET mods == Reconciled(op[t].cfg.mods) IN
         /\ mods \in Seq(Entries) /\ Once(mods) /\ EnabledOn(mods) \subseteq asked
         /\ OrderMeets(op[t].req, op[t].cfg.mods, mods)
<1>1. op[t].cfg.mods \in Seq(Entries) /\ Once(op[t].cfg.mods) /\ EnabledOn(op[t].cfg.mods) \subseteq asked
  BY Opened
<1> QED BY <1>1, ReconciledOrder

LEMMA WithParam ==
  ASSUME Inv, Settings, NEW t \in Threads, op[t].at = "open", op[t].req.op \in {"set", "reset"},
         op[t].req.name \in Names, NEW v \in Values \cup {None}
  PROVE  LET doc == [Cfg(t) EXCEPT !.mods = Reconciled(@), !.params[op[t].req.name] = v] IN
         Doc(doc) /\ (t \notin raced => Meets(op[t].req, Loaded, doc))
<1> DEFINE n == op[t].req.name
    mods == Reconciled(op[t].cfg.mods)
    doc == [Cfg(t) EXCEPT !.mods = Reconciled(@), !.params[n] = v]
<1>1. Doc(op[t].cfg)
  BY DEF Settings, OpTyped
<1>2. /\ mods \in Seq(Entries) /\ Once(mods) /\ EnabledOn(mods) \subseteq asked
      /\ OrderMeets(op[t].req, op[t].cfg.mods, mods)
  BY KnownOrder
<1>3. doc.mods = mods /\ doc.params = [op[t].cfg.params EXCEPT ![n] = v] /\ doc.limit = op[t].cfg.limit
      /\ doc = [mods |-> doc.mods, params |-> doc.params, limit |-> doc.limit]
  <2> DEFINE c == op[t].cfg
  <2>1. c = [mods |-> c.mods, params |-> c.params, limit |-> c.limit]
    BY <1>1 DEF Doc, Documents
  <2>2. doc = [mods |-> mods, params |-> [c.params EXCEPT ![n] = v], limit |-> c.limit]
    <3> DEFINE d == [c EXCEPT !.mods = mods]
    <3>1. d = [mods |-> mods, params |-> c.params, limit |-> c.limit]
      BY <2>1
    <3>2. doc = [d EXCEPT !.params[n] = v]
      BY DEF Cfg
    <3> HIDE DEF d, c, mods, doc
    <3> QED BY <3>1, <3>2
  <2> HIDE DEF doc, mods
  <2> QED BY <2>2
<1> HIDE DEF doc, mods
<1>4. op[t].cfg.params \in [Names -> Values \cup {None}] /\ op[t].cfg.limit \in Limits
  BY <1>1 DEF Doc, Documents
<1>5. doc.params \in [Names -> Values \cup {None}] /\ \A m \in Names : m # n => doc.params[m] = op[t].cfg.params[m]
  BY <1>3, <1>4
<1>6. Doc(doc)
  BY <1>2, <1>3, <1>4, <1>5 DEF Doc, Documents
<1>7. ASSUME t \notin raced PROVE Meets(op[t].req, Loaded, doc)
  <2>1. Loaded = op[t].cfg
    BY <1>7, Opened
  <2> QED BY <1>2, <1>3, <1>5, <2>1 DEF Meets
<1> QED BY <1>6, <1>7 DEF doc

LEMMA BoundedType == \A v \in Int : Bounded(v) \in Low..High /\ Bounded(v) \in Values
BY DEF Bounded, Values

LEMMA SetTweakParamSettings == ASSUME Inv, Settings, NEW t \in Threads, SetTweakParam(t) PROVE Settings'
<1> DEFINE n == op[t].req.name
    v == IF n \in Builtin THEN Bounded(op[t].req.value) ELSE op[t].req.value
    doc == [Cfg(t) EXCEPT !.mods = Reconciled(@), !.params[n] = v]
<1>1. op[t].at = "open" /\ op[t].req.op = "set" /\ op[t].req \in Requests
  BY DEF SetTweakParam, At, Inv, Shaped, IsOp
<1>2. Around /\ raced' = raced
  BY SteadyAround DEF SetTweakParam
<1>3. n \in Names /\ v \in Values
  <2>1. n \in Names /\ op[t].req.value \in Values
    BY <1>1, RequestsAssumption
  <2>2. op[t].req.value \in Int
    BY <2>1 DEF Values
  <2> QED BY <2>1, <2>2, BoundedType
<1>4. Finish(t, FALSE) \/ Change(t, doc)
  BY DEF SetTweakParam
<1> HIDE DEF v
<1>5. Doc(doc) /\ (t \notin raced => Meets(op[t].req, Loaded, doc))
  BY <1>1, <1>3, WithParam
<1> HIDE DEF doc
<1> QED BY <1>1, <1>2, <1>4, <1>5, FinishSettings, ChangeSettings

LEMMA ResetTweakSettings == ASSUME Inv, Settings, NEW t \in Threads, ResetTweak(t) PROVE Settings'
<1> DEFINE n == op[t].req.name
    doc == [Cfg(t) EXCEPT !.mods = Reconciled(@), !.params[n] = None]
<1>1. op[t].at = "open" /\ op[t].req.op = "reset" /\ op[t].req \in Requests
  BY DEF ResetTweak, At, Inv, Shaped, IsOp
<1>2. Around /\ raced' = raced
  BY SteadyAround DEF ResetTweak
<1>3. n \in Names
  BY <1>1, RequestsAssumption
<1>4. Finish(t, FALSE) \/ Change(t, doc)
  BY DEF ResetTweak
<1>5. Doc(doc) /\ (t \notin raced => Meets(op[t].req, Loaded, doc))
  BY <1>1, <1>3, WithParam
<1> HIDE DEF doc
<1> QED BY <1>1, <1>2, <1>4, <1>5, FinishSettings, ChangeSettings

LEMMA ConfigSetSettings == ASSUME Inv, Settings, NEW t \in Threads, ConfigSet(t) PROVE Settings'
<1> DEFINE l == Settable(op[t].req.limit)
    doc == [Cfg(t) EXCEPT !.limit = l]
<1>1. op[t].at = "open" /\ op[t].req.op = "config" /\ op[t].req \in Requests
  BY DEF ConfigSet, At, Inv, Shaped, IsOp
<1>2. Around /\ raced' = raced
  BY SteadyAround DEF ConfigSet
<1>3. Finish(t, FALSE) \/ (op[t].req.limit >= 0 /\ Change(t, doc))
  <2>1. op[t].req.limit \in Int
    BY <1>1, RequestsAssumption
  <2>2. CASE op[t].req.limit < 0
    BY <2>2 DEF ConfigSet
  <2>3. CASE ~(op[t].req.limit < 0)
    <3>1. Change(t, doc)
      BY <2>3 DEF ConfigSet
    <3>2. op[t].req.limit >= 0
      BY <2>1, <2>3
    <3> QED BY <3>1, <3>2
  <2> QED BY <2>2, <2>3
<1>4. op[t].req.limit >= 0 => l \in Limits
  BY <1>1, RequestsAssumption DEF Settable, Defaults
<1> HIDE DEF l
<1>5. Doc(op[t].cfg)
  BY DEF Settings, OpTyped
<1>6. doc.mods = op[t].cfg.mods /\ doc.params = op[t].cfg.params /\ (l \in Limits => doc \in Documents)
  BY <1>5 DEF Cfg, Doc, Documents
<1> HIDE DEF doc
<1>7. l \in Limits => Doc(doc)
  BY <1>5, <1>6 DEF Doc
<1>8. ASSUME t \notin raced PROVE Meets(op[t].req, Loaded, doc)
  <2>1. Loaded = op[t].cfg /\ op[t].cfg.mods \in Seq(Entries)
    BY <1>1, <1>8, Opened
  <2> QED BY <1>1, <1>6, <2>1, SameOrder DEF Meets
<1> QED BY <1>1, <1>2, <1>3, <1>4, <1>7, <1>8, FinishSettings, ChangeSettings

(* Adding a file: its destination is truncated, and then filled.           *)
LEMMA TruncateSettings == ASSUME Inv, Settings, NEW t \in Threads, Truncate(t) PROVE Settings'
<1>1. op[t].at = "open" /\ op[t].req.op = "add" /\ op[t].rest # << >>
  BY DEF Truncate, At
<1>2. OpTyped(op[t]) /\ Meant(t)
  BY DEF Settings
<1>3. Head(op[t].rest) \in Names
  BY <1>1, <1>2 DEF OpTyped
<1>4. Around /\ raced' = raced
  BY <1>3 DEF Truncate, Settings, Files, Around
<1>5. CASE Finish(t, FALSE)
  BY <1>1, <1>4, <1>5, FinishSettings
<1>6. CASE Goto(t, "copy", Cfg(t))
  <2>1. /\ op' = [op EXCEPT ![t] = op'[t]] /\ op'[t].at = "copy" /\ op'[t].cfg = op[t].cfg
        /\ op'[t].req = op[t].req /\ op'[t].rest = op[t].rest /\ op'[t].ok = op[t].ok
    BY <1>1, <1>6, GotoOp DEF Cfg
  <2>2. OpTyped(op[t])'
    BY <1>1, <1>2, <1>4, <2>1 DEF OpTyped, Doc, Around, Stages
  <2>3. Meant(t)'
    BY <1>1, <1>2, <1>4, <2>1 DEF Meant, Loaded, Around
  <2> QED BY <1>4, <2>1, <2>2, <2>3, OneMoves DEF Around, Settings
<1> QED BY <1>5, <1>6 DEF Truncate

LEMMA CopyInSettings == ASSUME Inv, Settings, NEW t \in Threads, CopyIn(t) PROVE Settings'
<1> DEFINE r == op[t].req
    n == Head(op[t].rest)
    old == op[t].cfg.mods
    mods == IF n \in Listed(old) THEN old ELSE Append(old, Entry(n, r.on))
    o == [op[t] EXCEPT !.at = "open", !.cfg = WithMods(t, mods), !.rest = Tail(@)]
<1>1. op[t].at = "copy" /\ r.op = "add" /\ r \in Requests
  BY DEF CopyIn, At, Inv, Shaped, IsOp
<1>2. OpTyped(op[t]) /\ Meant(t)
  BY DEF Settings
<1>3. op[t].rest \in Seq(Names) /\ op[t].rest # << >> /\ Range(op[t].rest) \subseteq Range(r.names)
  BY <1>1, <1>2 DEF OpTyped
<1>4. /\ n \in Names /\ n \in Range(op[t].rest) /\ Tail(op[t].rest) \in Seq(Names)
      /\ Range(Tail(op[t].rest)) \subseteq Range(op[t].rest)
  <2>1. /\ n = op[t].rest[1] /\ n \in Names /\ Tail(op[t].rest) \in Seq(Names)
        /\ Len(op[t].rest) \in Nat \ {0} /\ DOMAIN op[t].rest = 1..Len(op[t].rest)
        /\ DOMAIN Tail(op[t].rest) = 1..(Len(op[t].rest) - 1)
        /\ \A i \in 1..(Len(op[t].rest) - 1) : Tail(op[t].rest)[i] = op[t].rest[i + 1]
    BY <1>3
  <2>2. \A i \in 1..(Len(op[t].rest) - 1) : i + 1 \in 1..Len(op[t].rest)
    BY <2>1
  <2> QED BY <2>1, <2>2 DEF Range
<1>5. r.on \in BOOLEAN /\ r.text \in Texts
  BY <1>1, RequestsAssumption
<1>6. old \in Seq(Entries) /\ Once(old) /\ EnabledOn(old) \subseteq asked
  BY <1>2 DEF OpTyped, Doc, Documents
<1>7. /\ mods \in Seq(Entries) /\ Once(mods) /\ EnabledOn(mods) \subseteq asked
      /\ \A was \in Seq(Entries) : OrderMeets(r, was, old) => OrderMeets(r, was, mods)
  <2>1. CASE n \in Listed(old)
    BY <1>6, <2>1
  <2>2. CASE n \notin Listed(old)
    <3> DEFINE one == <<Entry(n, r.on)>>
    <3>1. Entry(n, r.on) \in Entries /\ Entry(n, r.on).name = n /\ Entry(n, r.on).on = r.on
      BY <1>4, <1>5, EntryType
    <3>2. one \in Seq(Entries) /\ Once(one) /\ Listed(one) = {n} /\ EnabledOn(one) = {m \in {n} : r.on}
      BY <3>1, OneEntry
    <3>3. mods = old \o one
      BY <1>6, <2>2, <3>1, AppendIsConcat
    <3> HIDE DEF one, mods
    <3>4. mods \in Seq(Entries) /\ Once(mods) /\ EnabledOn(mods) = EnabledOn(old) \cup EnabledOn(one)
      BY <1>6, <2>2, <3>2, <3>3, OrderOfConcat, OnceOfConcat
    <3>5. n \in SwitchedBy(r) /\ (r.on => n \in asked)
      BY <1>1, <1>2, <1>3, <1>4 DEF SwitchedBy, OpTyped, Asks
    <3>6. ASSUME NEW was \in Seq(Entries), OrderMeets(r, was, old) PROVE OrderMeets(r, was, mods)
      <4>1. EnabledOn(one) \subseteq SwitchedBy(r) /\ Once(old \o one) /\ r.op # "remove"
        BY <1>1, <3>2, <3>3, <3>4, <3>5
      <4> QED BY <1>6, <3>2, <3>3, <3>6, <4>1, AppendedOrder
    <3> QED BY <1>6, <3>2, <3>4, <3>5, <3>6
  <2> QED BY <2>1, <2>2
<1>8. /\ library' = [library EXCEPT ![n] = r.text] /\ UNCHANGED <<config, kept, asked, raced>>
      /\ op' = [op EXCEPT ![t].at = "open", ![t].cfg = WithMods(t, mods), ![t].rest = Tail(@)]
  BY DEF CopyIn, Cfg
<1> HIDE DEF mods
<1>9. Around
  BY <1>4, <1>5, <1>8 DEF Settings, Files, Around
<1>10. op'[t] = o /\ op' = [op EXCEPT ![t] = op'[t]]
  <2>1. op' = [op EXCEPT ![t] = o]
    BY <1>8 DEF Inv, Shaped
  <2> HIDE DEF o
  <2> QED BY <2>1, OneOp
<1>11. /\ op'[t].at = "open" /\ op'[t].cfg = WithMods(t, mods) /\ op'[t].rest = Tail(op[t].rest)
       /\ op'[t].req = r /\ op'[t].ok = op[t].ok
  BY <1>10 DEF Inv, Shaped, IsOp
<1>12. Doc(WithMods(t, mods))
  BY <1>7, WithOrder
<1>13. OpTyped(op[t])'
  BY <1>1, <1>2, <1>3, <1>4, <1>8, <1>11, <1>12 DEF OpTyped, Doc, Stages
<1>14. ASSUME t \notin raced PROVE Meets(r, Loaded, WithMods(t, mods))
  <2>1. Meets(r, Loaded, op[t].cfg)
    BY <1>1, <1>2, <1>14 DEF Meant
  <2>2. /\ WithMods(t, mods).mods = mods /\ WithMods(t, mods).params = op[t].cfg.params
        /\ WithMods(t, mods).limit = op[t].cfg.limit
    BY <1>2 DEF WithMods, Cfg, OpTyped, Doc, Documents
  <2>3. Loaded.mods \in Seq(Entries)
    BY DEF Settings, Doc, Documents
  <2> QED BY <1>7, <2>1, <2>2, <2>3 DEF Meets
<1>15. Meant(t)'
  BY <1>1, <1>8, <1>11, <1>14 DEF Meant, Loaded
<1> QED BY <1>8, <1>9, <1>10, <1>13, <1>15, OneMoves DEF Around, Settings

(* The steps of an edit, of a build and of a fix.                          *)
LEMMA HeldSettings ==
  ASSUME Inv, Settings, NEW t \in Threads, NEW stage, NEW held,
         op' = [op EXCEPT ![t].at = stage, ![t].held = held], op[t].at # "idle", Around, raced' = raced,
         \/ stage = "keep" /\ held \in Texts \cup {None}
         \/ stage = "merge"
         \/ stage = "apply" /\ held \in [Builtin -> Values \cup {None}]
            /\ \A n \in Builtin : held[n] # None => held[n] < InForce(Loaded.params, n)
  PROVE  Settings'
<1>1. op' = [op EXCEPT ![t] = [op[t] EXCEPT !.at = stage, !.held = held]]
  BY DEF Inv, Shaped
<1>2. op'[t] = [op[t] EXCEPT !.at = stage, !.held = held] /\ op' = [op EXCEPT ![t] = op'[t]]
  BY <1>1, OneOp
<1>3. OpTyped(op[t])
  BY DEF Settings
<1>4. /\ op'[t].at = stage /\ op'[t].held = held /\ op'[t].cfg = op[t].cfg /\ op'[t].req = op[t].req
      /\ op'[t].ok = op[t].ok
  <2>1. IsOp(op[t])
    BY DEF Inv, Shaped
  <2> DEFINE o == op[t]
      p == op'[t]
  <2>2. o = [at |-> o.at, req |-> o.req, cfg |-> o.cfg, rest |-> o.rest, held |-> o.held, ok |-> o.ok]
    BY <2>1 DEF IsOp
  <2>3. p = [o EXCEPT !.at = stage, !.held = held]
    BY <1>2
  <2> HIDE DEF o, p
  <2>4. p.at = stage /\ p.held = held /\ p.cfg = o.cfg /\ p.req = o.req /\ p.ok = o.ok
    BY <2>2, <2>3
  <2> QED BY <2>4 DEF o, p
<1>5. OpTyped(op[t])'
  BY <1>3, <1>4 DEF OpTyped, Doc, Around, Stages
<1>6. Meant(t)'
  BY <1>4 DEF Meant, Lowers, Loaded, InForce, Around
<1> QED BY <1>2, <1>5, <1>6, OneMoves DEF Around, Settings

LEMMA ReadCurrentSettings == ASSUME Inv, Settings, NEW t \in Threads, ReadCurrent(t) PROVE Settings'
<1>1. op[t].at = "open" /\ op[t].req.op = "write" /\ op[t].req \in Requests
  BY DEF ReadCurrent, At, Inv, Shaped, IsOp
<1>2. Around /\ raced' = raced
  BY SteadyAround DEF ReadCurrent
<1>3. library[op[t].req.name] \in Texts \cup {None}
  BY <1>1, RequestsAssumption DEF Settings, Files
<1>4. \/ Finish(t, FALSE) \/ Finish(t, TRUE)
      \/ op' = [op EXCEPT ![t].at = "keep", ![t].held = library[op[t].req.name]]
  BY DEF ReadCurrent
<1> QED BY <1>1, <1>2, <1>3, <1>4, FinishSettings, HeldSettings

LEMMA KeepPreviousSettings == ASSUME Inv, Settings, NEW t \in Threads, KeepPrevious(t) PROVE Settings'
<1>1. op[t].at = "keep" /\ op[t].req.op = "write" /\ op[t].req \in Requests
  BY DEF KeepPrevious, At, Inv, Shaped, IsOp
<1>2. OpTyped(op[t])
  BY DEF Settings
<1>3. op[t].req.name \in Names /\ op[t].held \in Texts \cup {None}
  BY <1>1, <1>2, RequestsAssumption DEF OpTyped
<1>4. Around
  BY <1>3 DEF KeepPrevious, Settings, Files, Around
<1>5. /\ op' = [op EXCEPT ![t] = op'[t]] /\ op'[t].at = "replace" /\ op'[t].cfg = op[t].cfg
      /\ op'[t].req = op[t].req /\ op'[t].held = op[t].held /\ op'[t].ok = op[t].ok
  BY <1>1, GotoOp DEF KeepPrevious, Cfg
<1>6. OpTyped(op[t])'
  BY <1>1, <1>2, <1>4, <1>5 DEF OpTyped, Doc, Around, Stages
<1>7. Meant(t)'
  BY <1>5 DEF Meant
<1>8. raced \subseteq raced' /\ raced' \subseteq Threads
  BY DEF KeepPrevious, Settings
<1> QED BY <1>4, <1>5, <1>6, <1>7, <1>8, OneMoves DEF Around, Settings

LEMMA ReplaceScriptSettings == ASSUME Inv, Settings, NEW t \in Threads, ReplaceScript(t) PROVE Settings'
<1>1. op[t].at = "replace" /\ op[t].req.op = "write" /\ op[t].req \in Requests /\ Finish(t, TRUE)
  BY DEF ReplaceScript, At, Inv, Shaped, IsOp
<1>2. op[t].req.name \in Names /\ op[t].req.text \in Texts
  BY <1>1, RequestsAssumption
<1>3. Around /\ raced' = raced
  BY <1>2 DEF ReplaceScript, Settings, Files, Around
<1> QED BY <1>1, <1>3, FinishSettings

LEMMA FailsAtFileSettings == ASSUME Inv, Settings, NEW t \in Threads, FailsAtFile(t) PROVE Settings'
<1>1. op[t].at # "idle" /\ Finish(t, FALSE)
  BY DEF FailsAtFile
<1>2. Around /\ raced' = raced
  BY SteadyAround DEF FailsAtFile
<1> QED BY <1>1, <1>2, FinishSettings

LEMMA BuildSettings == ASSUME Inv, Settings, NEW t \in Threads, Build(t) PROVE Settings'
<1> DEFINE built == [n \in Names |-> IF IsOn(Cfg(t).mods, n) THEN Script(Cfg(t), n)
                                     ELSE [ok |-> FALSE, value |-> None]]
<1>1. op[t].at = "load"
  BY DEF Build, At
<1>2. Around /\ raced' = raced
  BY SteadyAround DEF Build
<1>3. Finish(t, FALSE) \/ op' = [op EXCEPT ![t].at = "merge", ![t].held = built]
  BY DEF Build
<1> HIDE DEF built
<1> QED BY <1>1, <1>2, <1>3, FinishSettings, HeldSettings

LEMMA WriteReportSettings == ASSUME Inv, Settings, NEW t \in Threads, WriteReport(t) PROVE Settings'
<1>1. op[t].at = "merge" /\ Finish(t, TRUE)
  BY DEF WriteReport, At
<1>2. Around /\ raced' = raced
  BY DEF WriteReport, Settings, Files, Around
<1> QED BY <1>1, <1>2, FinishSettings

(* A plan lowers: what it says is under the value in force, which the last *)
(* build used and which was over the limit.                                *)
LEMMA PlanLowers ==
  ASSUME NEW cfg, cfg \in Documents, NEW rep, rep # None => BuiltFrom(rep.built, rep.params),
         NEW limit \in Int
  PROVE  /\ Plan(cfg, rep, limit) \in [Builtin -> Values \cup {None}]
         /\ \A n \in Builtin : Plan(cfg, rep, limit)[n] # None => Plan(cfg, rep, limit)[n] < InForce(cfg.params, n)
<1> DEFINE knob(n) == n \in Knobs(cfg) \cap Flagged(rep, limit) /\ InForce(cfg.params, n) > Low
    plan == [n \in Builtin |-> IF knob(n) THEN Bounded(limit) ELSE None]
<1>1. Bounded(limit) \in Values
  BY BoundedType
<1>2. NoPlan \in [Builtin -> Values \cup {None}] /\ \A n \in Builtin : NoPlan[n] = None
  BY DEF NoPlan
<1>3. CASE Plan(cfg, rep, limit) = NoPlan
  BY <1>2, <1>3
<1>4. CASE rep # None /\ StaleKnobs(cfg, rep) = {} /\ Plan(cfg, rep, limit) = plan
  <2>1. plan \in [Builtin -> Values \cup {None}] /\ \A n \in Builtin : plan[n] = IF knob(n) THEN Bounded(limit) ELSE None
    BY <1>1
  <2>2. ASSUME NEW n \in Builtin, knob(n) PROVE Bounded(limit) < InForce(cfg.params, n)
    <3>1. InForce(rep.params, n) = InForce(cfg.params, n)
      BY <1>4, <2>2 DEF StaleKnobs
    <3>2. rep.built[n].ok /\ rep.built[n].value > limit
      BY <2>2 DEF Flagged
    <3>3. rep.built[n].value = InForce(rep.params, n)
      BY <1>4, <3>2 DEF BuiltFrom, Override, Declared, InForce
    <3>4. n \in Names /\ cfg.params[n] \in Values \cup {None}
      BY DEF Documents
    <3>5. InForce(cfg.params, n) \in Int
      BY <3>4 DEF InForce, Values
    <3>6. InForce(cfg.params, n) > limit /\ InForce(cfg.params, n) > Low
      BY <2>2, <3>1, <3>2, <3>3
    <3> HIDE DEF knob, plan
    <3> QED BY <3>5, <3>6 DEF Bounded
  <2> HIDE DEF plan, knob
  <2> QED BY <1>4, <2>1, <2>2
<1>5. Plan(cfg, rep, limit) = NoPlan \/ (rep # None /\ StaleKnobs(cfg, rep) = {} /\ Plan(cfg, rep, limit) = plan)
  BY DEF Plan
<1> HIDE DEF plan
<1> QED BY <1>3, <1>4, <1>5

LEMMA PlanFixSettings == ASSUME Inv, Settings, NEW t \in Threads, PlanFix(t) PROVE Settings'
<1> DEFINE plan == Plan(Loaded, report, op[t].cfg.limit)
<1>1. op[t].at = "load" /\ op[t].req.op = "fix"
  BY DEF PlanFix, At
<1>2. Around /\ raced' = raced
  BY SteadyAround DEF PlanFix
<1>3. Loaded \in Documents /\ op[t].cfg.limit \in Int /\ (report # None => BuiltFrom(report.built, report.params))
  BY DEF Settings, OpTyped, Doc, Documents, Inv, Honest
<1>4. /\ plan \in [Builtin -> Values \cup {None}]
      /\ \A n \in Builtin : plan[n] # None => plan[n] < InForce(Loaded.params, n)
  BY <1>3, PlanLowers
<1>5. Finish(t, report # None) \/ op' = [op EXCEPT ![t].at = "apply", ![t].held = plan]
  BY DEF PlanFix, Cfg
<1> HIDE DEF plan
<1>6. (report # None) \in BOOLEAN
  OBVIOUS
<1> QED BY <1>1, <1>2, <1>4, <1>5, <1>6, FinishSettings, HeldSettings

LEMMA ApplyFixSettings == ASSUME Inv, Settings, NEW t \in Threads, ApplyFix(t) PROVE Settings'
<1> DEFINE held == op[t].held
    params == [n \in Names |-> IF n \in Builtin /\ held[n] # None THEN held[n] ELSE Loaded.params[n]]
    doc == [Loaded EXCEPT !.params = params]
<1>1. op[t].at = "apply" /\ op[t].req.op = "fix"
  BY DEF ApplyFix, At
<1>2. Around /\ raced' = raced
  BY SteadyAround DEF ApplyFix
<1>3. Doc(Loaded) /\ held \in [Builtin -> Values \cup {None}]
  BY <1>1 DEF Settings, OpTyped
<1>4. Change(t, doc)
  BY DEF ApplyFix
<1>5. params \in [Names -> Values \cup {None}]
      /\ \A n \in Names : params[n] = IF n \in Builtin /\ held[n] # None THEN held[n] ELSE Loaded.params[n]
  BY <1>3 DEF Doc, Documents
<1> HIDE DEF params, held
<1>6. doc \in Documents /\ doc.mods = Loaded.mods /\ doc.params = params /\ doc.limit = Loaded.limit
  BY <1>3, <1>5 DEF Doc, Documents
<1> HIDE DEF doc
<1>7. Doc(doc)
  BY <1>3, <1>6 DEF Doc
<1>8. ASSUME t \notin raced PROVE Meets(op[t].req, Loaded, doc)
  <2>1. \A n \in Builtin : held[n] # None => held[n] < InForce(Loaded.params, n)
    BY <1>1, <1>8 DEF Settings, Meant, Lowers, held
  <2>2. OrderMeets(op[t].req, Loaded.mods, doc.mods)
    BY <1>3, <1>6, SameOrder DEF Doc, Documents
  <2>3. ASSUME NEW n \in Names, params[n] # Loaded.params[n]
        PROVE  InForce(params, n) < InForce(Loaded.params, n)
    <3>1. n \in Builtin /\ held[n] # None /\ params[n] = held[n]
      BY <1>5, <2>3
    <3>2. InForce(params, n) = held[n]
      BY <3>1 DEF InForce
    <3> QED BY <2>1, <3>1, <3>2
  <2> QED BY <1>1, <1>6, <2>2, <2>3 DEF Meets
<1> QED BY <1>1, <1>2, <1>4, <1>7, <1>8, ChangeSettings

(* Saving: what others hold is overtaken.                                  *)
LEMMA SaveSettings == ASSUME Inv, Settings, NEW t \in Threads, Save(t) PROVE Settings'
<1>1. op[t].at = "save" /\ config' = op[t].cfg /\ UNCHANGED <<library, kept, asked>>
      /\ raced' = raced \cup {u \in Threads \ {t} : op[u].at \notin {"idle", "done"}}
  BY DEF Save, Cfg
<1>2. OpTyped(op[t])
  BY DEF Settings
<1>3. /\ op' = [op EXCEPT ![t] = op'[t]] /\ op'[t].at \in {"load", "done"} /\ op'[t].cfg = op[t].cfg
      /\ op'[t].req = op[t].req /\ op'[t].ok \in BOOLEAN
  <2>1. CASE Goto(t, "load", op[t].cfg)
    BY <1>1, <1>2, <2>1, GotoOp DEF OpTyped
  <2>2. CASE Finish(t, TRUE)
    BY <1>1, <2>2, FinishOp
  <2> QED BY <2>1, <2>2 DEF Save, Cfg
<1>4. Files' /\ asked' \subseteq Names /\ raced' \subseteq Threads
  BY <1>1 DEF Settings, Files
<1>5. Doc(op[t].cfg) /\ Doc(Loaded)
  BY <1>2 DEF OpTyped, Settings
<1>6. (config \in Documents \cup {None})' /\ Doc(Loaded)'
  <2>1. config' \in Documents
    BY <1>1, <1>5 DEF Doc
  <2>2. Loaded' = Defaults \/ Loaded' = op[t].cfg
    BY <1>1 DEF Loaded
  <2>3. Defaults \in Documents /\ Once(Defaults.mods) /\ EnabledOn(Defaults.mods) = {}
    BY DEF Defaults, Documents, NoParams, Once, EnabledOn
  <2>4. Doc(Loaded') <=> Doc(Loaded)'
    BY <1>1 DEF Doc, Documents
  <2> QED BY <1>1, <1>5, <2>1, <2>2, <2>3, <2>4 DEF Doc
<1>7. \A u \in Threads : u # t => op'[u] = op[u]
  BY <1>3 DEF Inv, Shaped
<1>8. ASSUME NEW u \in Threads PROVE OpTyped(op[u])'
  <2>1. OpTyped(op[u])
    BY DEF Settings
  <2>2. CASE u = t
    BY <1>1, <1>2, <1>3, <2>2 DEF OpTyped, Doc, Stages
  <2>3. CASE u # t
    BY <1>1, <1>7, <2>1, <2>3 DEF OpTyped, Doc
  <2> QED BY <2>2, <2>3
<1>9. ASSUME NEW u \in Threads PROVE Meant(u)'
  <2>1. CASE u = t
    BY <1>3, <2>1 DEF Meant
  <2>2. CASE u # t
    BY <1>1, <1>7, <2>2 DEF Meant
  <2> QED BY <2>1, <2>2
<1> QED BY <1>4, <1>6, <1>8, <1>9 DEF Settings

LEMMA DefaultDoc == Doc(Defaults)
BY DEF Doc, Defaults, Documents, NoParams, Once, EnabledOn

(* Opening a document, and letting go of it.                               *)
LEMMA OpenSettings == ASSUME Inv, Settings, NEW t \in Threads, NEW r \in Requests, Open(t, r) PROVE Settings'
<1> DEFINE o == [Quiet EXCEPT !.at = "open", !.req = r, !.cfg = Loaded,
                              !.rest = IF r.op = "add" THEN r.names ELSE << >>]
<1>1. op'[t] = o /\ op' = [op EXCEPT ![t] = op'[t]]
  BY OneOp DEF Open
<1>2. /\ op'[t].at = "open" /\ op'[t].req = r /\ op'[t].cfg = Loaded /\ op'[t].ok = TRUE
      /\ op'[t].rest = IF r.op = "add" THEN r.names ELSE << >>
  BY <1>1 DEF Quiet
<1>3. /\ UNCHANGED <<config, library, kept>> /\ asked' = asked \cup Asks(r) /\ raced' = raced \ {t}
  BY DEF Open, files
<1>4. Asks(r) \subseteq Names
  BY RequestsAssumption, RangeOfSeq DEF Asks
<1>5. Doc(Loaded) /\ Loaded.mods \in Seq(Entries)
  BY DEF Settings, Doc, Documents
<1>6. r.op = "add" => r.names \in Seq(Names)
  BY RequestsAssumption
<1>7. OpTyped(op[t])'
  BY <1>2, <1>3, <1>5, <1>6 DEF OpTyped, Doc, Stages
<1>8. Meant(t)'
  <2>1. Meets(r, Loaded, Loaded)
    BY <1>5, SameOrder DEF Meets
  <2> QED BY <1>2, <1>3, <2>1 DEF Meant, Loaded
<1>9. Files' /\ asked \subseteq asked' /\ asked' \subseteq Names /\ raced' \subseteq Threads /\ raced \ {t} \subseteq raced'
  BY <1>3, <1>4 DEF Settings, Files
<1> QED BY <1>1, <1>3, <1>7, <1>8, <1>9, OneMoves

LEMMA QuietSettings == ASSUME Inv, Settings, NEW t \in Threads, Close(t) \/ Stop(t) PROVE Settings'
<1>1. op'[t] = Quiet /\ op' = [op EXCEPT ![t] = op'[t]]
  BY OneOp DEF Close, Stop
<1>2. op'[t].at = "idle" /\ op'[t].cfg = Defaults /\ op'[t].ok = TRUE
  BY <1>1 DEF Quiet
<1>3. Around /\ raced' = raced
  BY SteadyAround DEF Close, Stop
<1>4. OpTyped(op[t])'
  BY <1>2, <1>3, DefaultDoc DEF OpTyped, Doc, Stages, Around
<1>5. Meant(t)'
  BY <1>2 DEF Meant
<1> QED BY <1>1, <1>3, <1>4, <1>5, OneMoves DEF Around, Settings

LEMMA UserFileSettings ==
  ASSUME Inv, Settings, NEW n \in Names, NEW text \in Texts \cup {None}, UserFile(n, text)
  PROVE  Settings'
<1>1. UNCHANGED <<config, kept, op, asked, raced>> /\ library' = [library EXCEPT ![n] = text]
  BY DEF UserFile
<1>2. Files'
  BY <1>1 DEF Settings, Files
<1>3. \A t \in Threads : OpTyped(op[t])' /\ Meant(t)'
  BY <1>1 DEF Settings, OpTyped, Doc, Meant, Lowers, Loaded
<1> QED BY <1>1, <1>2, <1>3 DEF Settings, Loaded, Doc

LEMMA InitSettings == Init => Settings
<1> SUFFICES ASSUME Init PROVE Settings
  OBVIOUS
<1>1. op = [t \in Threads |-> Quiet] /\ kept = [n \in Names |-> None] /\ raced = {}
  BY DEF Init
<1>2. config \in Documents \cup {None} /\ Doc(Loaded) /\ library \in [Names -> Texts \cup {None}] /\ asked \subseteq Names
  <2>1. CASE FirstRun
    BY <2>1, DefaultDoc DEF FirstRun, Loaded
  <2>2. CASE LaterRun
    <3> DEFINE all == [i \in DOMAIN Order |-> Entry(Order[i], TRUE)]
    <3>1. DOMAIN Order = 1..Len(Order) /\ Len(Order) \in Nat /\ \A i \in 1..Len(Order) : Order[i] \in Names
      OBVIOUS
    <3>2. \A i \in 1..Len(Order) : all[i] = Entry(Order[i], TRUE)
      BY <3>1
    <3>3. \A i \in 1..Len(Order) : all[i] \in Entries /\ all[i].name = Order[i]
      BY <3>1, <3>2, EntryType
    <3>4. all = [i \in 1..Len(Order) |-> all[i]]
      BY <3>1
    <3> HIDE DEF all
    <3>5. all \in Seq(Entries) /\ DOMAIN all = 1..Len(Order)
      BY <3>1, <3>3, <3>4
    <3>6. Once(all)
      BY <3>1, <3>3, <3>5 DEF Once, IsInjective
    <3>7. config = [Defaults EXCEPT !.mods = all] /\ asked = Names
      BY <2>2 DEF LaterRun, all
    <3>8. config \in Documents /\ config.mods = all
      BY <3>5, <3>7 DEF Defaults, Documents, NoParams
    <3>9. Doc(config) /\ Doc(Loaded)
      BY <3>5, <3>6, <3>7, <3>8, ByEntry, DefaultDoc DEF Doc, Loaded
    <3>10. library \in [Names -> Texts \cup {None}]
      BY <2>2 DEF LaterRun
    <3> QED BY <3>7, <3>8, <3>9, <3>10
  <2> QED BY <2>1, <2>2 DEF Init
<1>3. \A t \in Threads : OpTyped(op[t]) /\ Meant(t)
  BY <1>1, DefaultDoc DEF OpTyped, Stages, Meant, Quiet
<1> QED BY <1>1, <1>2, <1>3 DEF Settings, Files

LEMMA NextSettings == ASSUME Inv, Settings, [Next]_vars PROVE Settings'
<1>1. ASSUME NEW t \in Threads, Work(t) PROVE Settings'
  BY <1>1, ListSettings, TruncateSettings, CopyInSettings, AddAllSettings, RemoveModSettings,
     SetModEnabledSettings, MoveModSettings, SetTweakParamSettings, ResetTweakSettings,
     ConfigSetSettings, ReadCurrentSettings, KeepPreviousSettings, ReplaceScriptSettings,
     PrepareSettings, BuildSettings, WriteReportSettings, PlanFixSettings, ApplyFixSettings,
     SaveSettings, FailsAtFileSettings DEF Work
<1>2. ASSUME UNCHANGED vars PROVE Settings'
  <2>1. UNCHANGED <<config, library, kept, op, asked, raced>>
    BY <1>2 DEF vars, files
  <2>2. \A t \in Threads : OpTyped(op[t])' /\ Meant(t)'
    BY <2>1 DEF Settings, OpTyped, Doc, Meant, Lowers, Loaded
  <2> QED BY <2>1, <2>2 DEF Settings, Files, Loaded, Doc
<1>3. ASSUME NEW n \in Names, NEW text \in (Texts \ {Torn}) \cup {None}, UserFile(n, text) PROVE Settings'
  BY <1>3, UserFileSettings
<1> QED BY <1>1, <1>2, <1>3, OpenSettings, QuietSettings DEF Next

(* The types, for any mods, texts, requests and number of programs, and    *)
(* with them that no mod is in the build order twice.                      *)
THEOREM TypesHold == Spec => []TypeOK
<1>1. Inv /\ Settings => TypeOK
  BY DEF Settings, Files, OpTyped, Doc, TypeOK, ListedOnce
<1>2. Inv /\ Settings /\ [Next]_vars => (Inv /\ Settings)'
  BY NextInv, NextSettings
<1> QED BY InitInv, InitSettings, <1>1, <1>2, PTL DEF Spec

(* A mod that is switched on is one somebody asked to switch on.           *)
THEOREM NothingSwitchesItselfOn == Spec => []Consent
<1>1. Settings => Consent
  BY DEF Settings, OpTyped, Doc, Consent
<1>2. Inv /\ Settings /\ [Next]_vars => (Inv /\ Settings)'
  BY NextInv, NextSettings
<1> QED BY InitInv, InitSettings, <1>1, <1>2, PTL DEF Spec

(* A save that no other save overtook changes what its request names and   *)
(* nothing else, and a fix only lowers.                                    *)
SavesFaithfully ==
  \A t \in Threads : Saves(t) /\ t \notin raced => Faithful(op[t].req, Loaded, config')

THEOREM SavesWhatWasAsked == Spec => SavesOnlyWhatWasAsked
<1>1. ASSUME Settings PROVE SavesFaithfully
  <2> SUFFICES ASSUME NEW t \in Threads, op[t].at = "save", t \notin raced
               PROVE  Faithful(op[t].req, Loaded, op[t].cfg)
    BY DEF SavesFaithfully, Saves
  <2>1. Doc(Loaded) /\ Doc(op[t].cfg) /\ Meets(op[t].req, Loaded, op[t].cfg)
    BY <1>1 DEF Settings, OpTyped, Meant
  <2> QED BY <2>1, MeetsFaithful DEF Doc, Documents
<1>2. Inv /\ Settings /\ [Next]_vars => (Inv /\ Settings)' /\ [SavesFaithfully]_vars
  BY <1>1, NextInv, NextSettings
<1>3. Spec => [][SavesFaithfully]_vars
  BY InitInv, InitSettings, <1>2, PTL DEF Spec
<1> QED BY <1>3 DEF SavesOnlyWhatWasAsked, SavesFaithfully

=============================================================================
