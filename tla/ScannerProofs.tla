---------------------------- MODULE ScannerProofs ----------------------------
(***************************************************************************)
(* Proofs about Scanner, for any tree, file names and patterns: the types, *)
(* and that a scan finds the env files it should (FindsEnvFiles).          *)
(*                                                                         *)
(* Three things are shown.  What the loops over patterns and over          *)
(* .gitignore files compute (JudgeIs, IsIgnoredIs): the last that matches  *)
(* decides.  That the stack of patterns is that of the directories on the  *)
(* way, so that what it says of a directory is what the specification says *)
(* (ExcludedIs).  And that a walk forgets nothing: what should be found is *)
(* found or still in a list of a frame (RootsInv, FilesInv).               *)
(*                                                                         *)
(* The prover cannot use a rule of induction over a predicate.  Induction  *)
(* over a set of numbers (from the least number outside it) is enough: a   *)
(* fold is followed from one position of its list to the next.             *)
(***************************************************************************)
EXTENDS Scanner, TLAPS, WellFoundedInduction, SequenceTheorems

-----------------------------------------------------------------------------
(* Induction.                                                               *)

\* A set of natural numbers has a least one.
LEMMA LeastNatural ==
  ASSUME NEW T, T \subseteq Nat, T # {}
  PROVE  \E n \in T : \A m \in T : n <= m
<1> DEFINE R == OpToRel(<, Nat)
<1>1. IsWellFoundedOn(R, Nat) BY NatLessThanWellFounded, Zenon
<1>2. \A x, y \in Nat : x < y => <<x, y>> \in R BY DEF OpToRel
<1> HIDE DEF R
<1>3. PICK n \in T : \A m \in T : ~ (<<m, n>> \in R) BY <1>1, WFMin
<1>4. ASSUME NEW m \in T PROVE n <= m
  <2>1. m \in Nat /\ n \in Nat OBVIOUS
  <2>2. ~(m < n) BY <1>2, <1>3, <2>1
  <2> QED BY <2>1, <2>2
<1> QED BY <1>4

\* Induction over the numbers up to n, with a set for the predicate.
LEMMA Induction ==
  ASSUME NEW n \in Nat, NEW T, 0 \in T, \A k \in 0..(n - 1) : k \in T => k + 1 \in T
  PROVE  0..n \subseteq T
<1> SUFFICES ASSUME 0..n \ T # {} PROVE FALSE OBVIOUS
<1> DEFINE U == (0..n) \ T
<1>1. PICK k \in U : \A m \in U : k <= m
  <2>1. U \subseteq Nat /\ U # {} OBVIOUS
  <2> HIDE DEF U
  <2> QED BY <2>1, LeastNatural
<1>2. k # 0 /\ k - 1 \in 0..(n - 1) /\ k - 1 \in 0..n /\ ~(k <= k - 1) BY <1>1
<1>3. k - 1 \in T BY <1>1, <1>2
<1>4. (k - 1) + 1 \in T BY <1>2, <1>3
<1> QED BY <1>1, <1>4

\* A set of positions has a last one.
LEMMA LastOf ==
  ASSUME NEW n \in Nat, NEW s \in SUBSET (1..n), s # {}
  PROVE  Max(s) \in s /\ \A i \in s : i <= Max(s)
<1> DEFINE T == {n - i : i \in s}
<1>1. T \subseteq Nat /\ T # {}
  <2>1. \A i \in s : i \in 1..n /\ n - i \in Nat OBVIOUS
  <2> QED BY <2>1
<1>2. PICK k \in T : \A m \in T : k <= m BY <1>1, LeastNatural
<1>3. PICK x \in s : k = n - x BY <1>2
<1>4. \A i \in s : x >= i
  <2> SUFFICES ASSUME NEW i \in s PROVE x >= i OBVIOUS
  <2>1. n - i \in T OBVIOUS
  <2>2. n - x <= n - i BY <1>2, <1>3, <2>1
  <2> QED BY <2>2
<1>5. \E y \in s : \A i \in s : y >= i BY <1>4
<1>6. Max(s) \in s /\ \A i \in s : Max(s) >= i BY <1>5 DEF Max
<1> QED BY <1>6

\* The first positions, and the last of them.
LEMMA Interval ==
  ASSUME NEW k \in Nat
  PROVE  /\ 1..(k + 1) # {} /\ Max(1..(k + 1)) = k + 1
         /\ (1..(k + 1)) \ {k + 1} = 1..k
<1> DEFINE s == 1..(k + 1)
<1>1. k + 1 \in s /\ s \in SUBSET (1..(k + 1)) /\ k + 1 \in Nat OBVIOUS
<1> HIDE DEF s
<1>2. Max(s) \in s /\ \A i \in s : i <= Max(s) BY <1>1, LastOf
<1>3. k + 1 <= Max(s) BY <1>1, <1>2
<1>4. Max(s) = k + 1 BY <1>2, <1>3 DEF s
<1>5. (1..(k + 1)) \ {k + 1} = 1..k OBVIOUS
<1> QED BY <1>1, <1>4, <1>5 DEF s

\* Two folds that go on alike from one position to the next agree.
LEMMA FoldsAgree ==
  ASSUME NEW n \in Nat, NEW I, NEW W, I[{}] = W[{}],
         \A k \in 0..(n - 1) : I[1..k] = W[1..k] => I[1..(k + 1)] = W[1..(k + 1)]
  PROVE  I[1..n] = W[1..n]
<1> DEFINE T == {k \in 0..n : I[1..k] = W[1..k]}
<1>1. 0 \in T
  <2>1. 1..0 = {} OBVIOUS
  <2> QED BY <2>1
<1>2. ASSUME NEW k \in 0..(n - 1), k \in T PROVE k + 1 \in T
  BY <1>2
<1> HIDE DEF T
<1>3. 0..n \subseteq T BY <1>1, <1>2, Induction
<1>4. n \in T BY <1>3
<1> QED BY <1>4 DEF T

-----------------------------------------------------------------------------
(* The patterns of one .gitignore.                                          *)

\* What the patterns at positions s say of an entry: the last that matches decides.
Verdict(pats, rel, was, s) ==
  \/ \E i \in s : /\ Matches(pats[i], rel) /\ ~pats[i].negate
                  /\ \A j \in s : j > i /\ Matches(pats[j], rel) => ~pats[j].negate
  \/ was /\ \A j \in s : Matches(pats[j], rel) => ~pats[j].negate

LEMMA VerdictStep ==
  ASSUME NEW pats, NEW rel, NEW was \in BOOLEAN,
         NEW s \in SUBSET Int, NEW m \in s, \A i \in s : i <= m
  PROVE  Verdict(pats, rel, was, s) =
           IF Matches(pats[m], rel) THEN ~pats[m].negate ELSE Verdict(pats, rel, was, s \ {m})
<1>1. Verdict(pats, rel, was, s) <=>
           IF Matches(pats[m], rel) THEN ~pats[m].negate ELSE Verdict(pats, rel, was, s \ {m})
  <2>1. \A i \in s : i # m => m > i OBVIOUS
  <2>2. \A i \in s : ~(i > m) OBVIOUS
  <2> QED BY <2>1, <2>2 DEF Verdict
<1> QED BY <1>1 DEF Verdict

\* The loop over the patterns of one directory computes the verdict of them all.
LEMMA JudgeIs ==
  ASSUME NEW dir, NEW d, NEW rel, NEW was \in BOOLEAN, ignore[dir] \in Seq(Pattern)
  PROVE  Judge(dir, was, d, rel) = Verdict(ignore[dir], rel, was, DOMAIN ignore[dir])
<1> DEFINE pats == ignore[dir]
           n == Len(pats)
           Step(it, s) == IF Matches(pats[Max(s)], rel) THEN ~pats[Max(s)].negate
                                                        ELSE it[s \ {Max(s)}]
           Fold(it) == it = [s \in SUBSET (DOMAIN pats) |-> IF s = {} THEN was ELSE Step(it, s)]
           I == CHOOSE it : Fold(it)
           W == [s \in SUBSET (DOMAIN pats) |-> Verdict(pats, rel, was, s)]
<1>1. Judge(dir, was, d, rel) = I[DOMAIN pats]
  BY DEF Judge, FoldLeft, MapThenFoldSet
<1>2. n \in Nat /\ DOMAIN pats = 1..n OBVIOUS
<1>3. Fold(W)
  <2>1. ASSUME NEW s \in SUBSET (1..n)
        PROVE  Verdict(pats, rel, was, s) = IF s = {} THEN was ELSE Step(W, s)
    <3>1. CASE s = {} BY <3>1 DEF Verdict
    <3>2. CASE s # {}
      <4> DEFINE m == Max(s)
      <4>1. s \in SUBSET Int /\ m \in s /\ \A i \in s : i <= m
        <5>1. n \in Nat /\ s \in SUBSET (1..n) BY <1>2, <2>1
        <5> HIDE DEF n
        <5>2. Max(s) \in s /\ \A i \in s : i <= Max(s) BY <3>2, <5>1, LastOf
        <5> QED BY <5>1, <5>2
      <4>2. W[s \ {m}] = Verdict(pats, rel, was, s \ {m}) BY <1>2
      <4> HIDE DEF pats, n, m, W
      <4>3. Verdict(pats, rel, was, s) =
              IF Matches(pats[m], rel) THEN ~pats[m].negate
              ELSE Verdict(pats, rel, was, s \ {m})
        BY <4>1, VerdictStep
      <4> QED BY <3>2, <4>2, <4>3 DEF m
    <3> QED BY <3>1, <3>2
  <2> HIDE DEF pats, Step
  <2> QED BY <1>2, <2>1, Zenon
<1>4. Fold(I) BY <1>3, Zenon
<1> HIDE DEF pats, I, W, Step
<1>5. /\ I = [s \in SUBSET (1..n) |-> IF s = {} THEN was ELSE Step(I, s)]
      /\ W = [s \in SUBSET (1..n) |-> IF s = {} THEN was ELSE Step(W, s)]
  BY <1>2, <1>3, <1>4
<1>6. I[{}] = W[{}]
  <2>1. {} \in SUBSET (1..n) OBVIOUS
  <2>2. I[{}] = was BY <1>5, <2>1
  <2>3. W[{}] = was BY <1>5, <2>1
  <2> QED BY <2>2, <2>3
<1>7. ASSUME NEW k \in 0..(n - 1), I[1..k] = W[1..k]
      PROVE  I[1..(k + 1)] = W[1..(k + 1)]
  <2> DEFINE s == 1..(k + 1)
  <2>0. k \in Nat BY <1>2
  <2>1. s # {} /\ Max(s) = k + 1 /\ s \ {k + 1} = 1..k BY <2>0, Interval
  <2>2. s \in SUBSET (1..n) BY <1>2
  <2> HIDE DEF s
  <2>3. I[s \ {Max(s)}] = W[s \ {Max(s)}] BY <1>7, <2>1
  <2>4. Step(I, s) = Step(W, s) BY <2>3 DEF Step
  <2>5. I[s] = Step(I, s) BY <1>5, <2>1, <2>2
  <2>6. W[s] = Step(W, s) BY <1>5, <2>1, <2>2
  <2>7. I[s] = W[s] BY <2>4, <2>5, <2>6
  <2> QED BY <2>7 DEF s
<1> HIDE DEF n
<1>8. I[1..n] = W[1..n] BY <1>2, <1>6, <1>7, FoldsAgree
<1>9. W[1..n] = Verdict(pats, rel, was, 1..n) BY <1>2 DEF W
<1> QED BY <1>1, <1>2, <1>8, <1>9 DEF pats

-----------------------------------------------------------------------------
(* The patterns in force.                                                   *)
Applies(d, k, i) == Matches(ignore[inForce[k]][i], From(inForce[k], d))

\* What the .gitignore files at positions s of the stack say of directory d: the
\* last pattern of the last of them that has one for d decides.
Ignores(d, s) ==
  \E k \in s : \E i \in DOMAIN ignore[inForce[k]] :
    /\ Applies(d, k, i) /\ ~ignore[inForce[k]][i].negate
    /\ \A l \in s : \A j \in DOMAIN ignore[inForce[l]] :
         (l > k \/ (l = k /\ j > i)) /\ Applies(d, l, j) => ~ignore[inForce[l]][j].negate

LEMMA IgnoresStep ==
  ASSUME NEW d, NEW s \in SUBSET Int, NEW m \in s, \A k \in s : k <= m
  PROVE  Ignores(d, s) = Verdict(ignore[inForce[m]], From(inForce[m], d),
                                 Ignores(d, s \ {m}), DOMAIN ignore[inForce[m]])
<1> DEFINE neg(k, i) == ignore[inForce[k]][i].negate
           at(k) == DOMAIN ignore[inForce[k]]
           was == Ignores(d, s \ {m})
           verdict == \/ \E i \in at(m) : /\ Applies(d, m, i) /\ ~neg(m, i)
                                          /\ \A j \in at(m) : j > i /\ Applies(d, m, j) => ~neg(m, j)
                      \/ was /\ \A j \in at(m) : Applies(d, m, j) => ~neg(m, j)
<1>1. Verdict(ignore[inForce[m]], From(inForce[m], d), was, at(m)) = verdict
  BY DEF Verdict, Applies
<1>2. \A k \in s : ~(k > m) /\ (k # m => m > k /\ k \in s \ {m}) OBVIOUS
<1> DEFINE last(t, k, i) == \A l \in t : \A j \in at(l) :
             (l > k \/ (l = k /\ j > i)) /\ Applies(d, l, j) => ~neg(l, j)
           decides(t) == \E k \in t : \E i \in at(k) :
                           Applies(d, k, i) /\ ~neg(k, i) /\ last(t, k, i)
<1>i. (Ignores(d, s) <=> decides(s)) /\ (was <=> decides(s \ {m})) BY DEF Ignores
<1> HIDE DEF was, neg, at
<1>3. ASSUME decides(s) PROVE verdict
  <2>1. PICK k \in s : \E i \in at(k) : Applies(d, k, i) /\ ~neg(k, i) /\ last(s, k, i)
    BY <1>3
  <2>2. PICK i \in at(k) : Applies(d, k, i) /\ ~neg(k, i) /\ last(s, k, i) BY <2>1
  <2>3. CASE k = m BY <2>2, <2>3
  <2>4. CASE k # m
    <3>1. k \in s \ {m} /\ m > k BY <1>2, <2>4
    <3>2. last(s \ {m}, k, i) BY <2>2
    <3>3. decides(s \ {m}) BY <2>2, <3>1, <3>2
    <3>4. was BY <1>i, <3>3
    <3>5. \A j \in at(m) : Applies(d, m, j) => ~neg(m, j)
      <4>1. last(s, k, i) BY <2>2
      <4>2. \A j \in at(m) :
              (m > k \/ (m = k /\ j > i)) /\ Applies(d, m, j) => ~neg(m, j) BY <4>1
      <4> QED BY <3>1, <4>2
    <3> QED BY <3>4, <3>5
  <2> QED BY <2>3, <2>4
<1>4. ASSUME verdict PROVE decides(s)
  <2>1. CASE \E i \in at(m) : /\ Applies(d, m, i) /\ ~neg(m, i)
                              /\ \A j \in at(m) : j > i /\ Applies(d, m, j) => ~neg(m, j)
    <3>1. PICK i \in at(m) : /\ Applies(d, m, i) /\ ~neg(m, i)
                             /\ \A j \in at(m) : j > i /\ Applies(d, m, j) => ~neg(m, j)
      BY <2>1
    <3>2. last(s, m, i) BY <1>2, <3>1
    <3> QED BY <3>1, <3>2
  <2>2. CASE was /\ \A j \in at(m) : Applies(d, m, j) => ~neg(m, j)
    <3>1. PICK k \in s \ {m} :
            \E i \in at(k) : Applies(d, k, i) /\ ~neg(k, i) /\ last(s \ {m}, k, i)
      BY <1>i, <2>2
    <3>2. PICK i \in at(k) : Applies(d, k, i) /\ ~neg(k, i) /\ last(s \ {m}, k, i) BY <3>1
    <3>3. last(s, k, i)
      <4>1. \A l \in s : l = m \/ l \in s \ {m} OBVIOUS
      <4> QED BY <2>2, <3>2, <4>1
    <3> QED BY <3>2, <3>3
  <2> QED BY <1>4, <2>1, <2>2
<1>5. Ignores(d, s) <=> verdict BY <1>i, <1>3, <1>4
<1>6. Verdict(ignore[inForce[m]], From(inForce[m], d), Ignores(d, s \ {m}), DOMAIN ignore[inForce[m]])
        = verdict
  BY <1>1 DEF was, at
<1> QED BY <1>5, <1>6 DEF Ignores

\* The loop over the stack computes what all of its files say.
LEMMA IsIgnoredIs ==
  ASSUME NEW d, inForce \in Seq(Dir), \A k \in DOMAIN inForce : IsPrefix(inForce[k], d),
         \A c \in Dir : ignore[c] \in Seq(Pattern)
  PROVE  IsIgnored(d) = Ignores(d, DOMAIN inForce)
<1> DEFINE n == Len(inForce)
           Step(it, s) == IF IsPrefix(inForce[Max(s)], d)
                            THEN Judge(inForce[Max(s)], it[s \ {Max(s)}], d, From(inForce[Max(s)], d))
                            ELSE it[s \ {Max(s)}]
           Fold(it) == it = [s \in SUBSET (DOMAIN inForce) |-> IF s = {} THEN FALSE ELSE Step(it, s)]
           I == CHOOSE it : Fold(it)
           W == [s \in SUBSET (DOMAIN inForce) |-> Ignores(d, s)]
<1>1. IsIgnored(d) = I[DOMAIN inForce]
  BY DEF IsIgnored, FoldLeft, MapThenFoldSet
<1>2. n \in Nat /\ DOMAIN inForce = 1..n OBVIOUS
<1>3. Fold(W)
  <2>1. ASSUME NEW s \in SUBSET (1..n)
        PROVE  Ignores(d, s) = IF s = {} THEN FALSE ELSE Step(W, s)
    <3>1. CASE s = {} BY <3>1 DEF Ignores
    <3>2. CASE s # {}
      <4> DEFINE m == Max(s)
                 was == Ignores(d, s \ {m})
      <4>1. s \in SUBSET Int /\ m \in s /\ m \in DOMAIN inForce /\ \A i \in s : i <= m
        <5>1. n \in Nat /\ s \in SUBSET (1..n) BY <1>2, <2>1
        <5> HIDE DEF n
        <5>2. Max(s) \in s /\ \A i \in s : i <= Max(s) BY <3>2, <5>1, LastOf
        <5>3. m \in DOMAIN inForce BY <1>2, <5>1, <5>2
        <5>4. s \in SUBSET Int BY <5>1
        <5> QED BY <5>2, <5>3, <5>4
      <4>2. W[s \ {m}] = was BY <1>2
      <4>3. IsPrefix(inForce[m], d) /\ inForce[m] \in Dir BY <4>1
      <4>4. was \in BOOLEAN BY DEF Ignores
      <4>5. ignore[inForce[m]] \in Seq(Pattern) BY <4>3
      <4> HIDE DEF n, m, W, was
      <4>6. Ignores(d, s) = Verdict(ignore[inForce[m]], From(inForce[m], d), was,
                                    DOMAIN ignore[inForce[m]])
        BY <4>1, IgnoresStep DEF was
      <4>7. Judge(inForce[m], was, d, From(inForce[m], d)) =
              Verdict(ignore[inForce[m]], From(inForce[m], d), was, DOMAIN ignore[inForce[m]])
        BY <4>4, <4>5, JudgeIs
      <4>8. Ignores(d, s) = Judge(inForce[m], W[s \ {m}], d, From(inForce[m], d))
        BY <4>2, <4>6, <4>7
      <4> QED BY <3>2, <4>3, <4>8 DEF m
    <3> QED BY <3>1, <3>2
  <2> HIDE DEF Step
  <2> QED BY <1>2, <2>1, Zenon
<1>4. Fold(I) BY <1>3, Zenon
<1> HIDE DEF I, W, Step
<1>5. /\ I = [s \in SUBSET (1..n) |-> IF s = {} THEN FALSE ELSE Step(I, s)]
      /\ W = [s \in SUBSET (1..n) |-> IF s = {} THEN FALSE ELSE Step(W, s)]
  BY <1>2, <1>3, <1>4
<1>6. I[{}] = W[{}]
  <2>1. {} \in SUBSET (1..n) OBVIOUS
  <2>2. I[{}] = FALSE BY <1>5, <2>1
  <2>3. W[{}] = FALSE BY <1>5, <2>1
  <2> QED BY <2>2, <2>3
<1>7. ASSUME NEW k \in 0..(n - 1), I[1..k] = W[1..k]
      PROVE  I[1..(k + 1)] = W[1..(k + 1)]
  <2> DEFINE s == 1..(k + 1)
  <2>0. k \in Nat BY <1>2
  <2>1. s # {} /\ Max(s) = k + 1 /\ s \ {k + 1} = 1..k BY <2>0, Interval
  <2>2. s \in SUBSET (1..n) BY <1>2
  <2> HIDE DEF s
  <2>3. I[s \ {Max(s)}] = W[s \ {Max(s)}] BY <1>7, <2>1
  <2>4. Step(I, s) = Step(W, s) BY <2>3 DEF Step
  <2>5. I[s] = Step(I, s) BY <1>5, <2>1, <2>2
  <2>6. W[s] = Step(W, s) BY <1>5, <2>1, <2>2
  <2>7. I[s] = W[s] BY <2>4, <2>5, <2>6
  <2> QED BY <2>7 DEF s
<1> HIDE DEF n
<1>8. I[1..n] = W[1..n] BY <1>2, <1>6, <1>7, FoldsAgree
<1>9. W[1..n] = Ignores(d, 1..n) BY <1>2 DEF W
<1> QED BY <1>1, <1>2, <1>8, <1>9

-----------------------------------------------------------------------------
(* Directories.                                                             *)

\* The directories on the way to d, by their depth.
LEMMA Paths ==
  ASSUME NEW d \in Dir
  PROVE  /\ d \in Seq(STRING) /\ Len(d) \in Nat /\ Above(d, Len(d)) = d
         /\ \A n \in 0..Len(d) : /\ Above(d, n) \in Dir /\ Len(Above(d, n)) = n
                                 /\ \A i \in 1..n : Above(d, n)[i] = d[i]
                                 /\ \A m \in 0..n : Above(Above(d, n), m) = Above(d, m)
<1>1. d \in Seq(STRING) /\ Len(d) \in Nat BY TreeAssumption
<1>2. Above(d, Len(d)) = d BY <1>1, SubSeqFull DEF Above
<1>3. ASSUME NEW e \in Seq(STRING), NEW n \in 0..Len(e)
      PROVE  /\ Above(e, n) \in Seq(STRING) /\ Len(Above(e, n)) = n
             /\ \A i \in 1..n : Above(e, n)[i] = e[i]
  <2>1. \A i \in 1..n : e[i] \in STRING OBVIOUS
  <2> QED BY <2>1, SubSeqProperties DEF Above
<1>4. ASSUME NEW n \in 0..Len(d) PROVE Above(d, n) \in Dir
  BY TreeAssumption DEF Above
<1>5. ASSUME NEW n \in 0..Len(d), NEW m \in 0..n PROVE Above(Above(d, n), m) = Above(d, m)
  <2> DEFINE a == Above(Above(d, n), m)
             b == Above(d, m)
  <2>1. /\ Above(d, n) \in Seq(STRING) /\ Len(Above(d, n)) = n
        /\ \A i \in 1..n : Above(d, n)[i] = d[i]
    BY <1>1, <1>3
  <2>2. /\ b \in Seq(STRING) /\ Len(b) = m /\ \A i \in 1..m : b[i] = d[i]
    BY <1>1, <1>3
  <2>3. /\ a \in Seq(STRING) /\ Len(a) = m /\ \A i \in 1..m : a[i] = Above(d, n)[i]
    BY <2>1, <1>3
  <2>4. \A i \in 1..m : a[i] = b[i] BY <2>1, <2>2, <2>3
  <2> HIDE DEF a, b
  <2>5. a = b BY <2>2, <2>3, <2>4, SeqEqual
  <2> QED BY <2>5 DEF a, b
<1> QED BY <1>1, <1>2, <1>3, <1>4, <1>5

LEMMA PrefixIs ==
  ASSUME NEW c \in Dir, NEW d \in Dir
  PROVE  IsPrefix(c, d) <=> Len(c) <= Len(d) /\ Above(d, Len(c)) = c
<1>1. SubSeq(c, 1, Len(c)) = c BY Paths DEF Above
<1> QED BY <1>1 DEF IsPrefix, Above

LEMMA PrefixTransitive ==
  ASSUME NEW a \in Dir, NEW b \in Dir, NEW c \in Dir, IsPrefix(a, b), IsPrefix(b, c)
  PROVE  IsPrefix(a, c)
<1>1. /\ Len(a) \in Nat /\ Len(b) \in Nat /\ Len(c) \in Nat
      /\ Len(a) <= Len(b) /\ Len(b) <= Len(c)
      /\ Above(b, Len(a)) = a /\ Above(c, Len(b)) = b
  BY Paths, PrefixIs
<1>2. Above(Above(c, Len(b)), Len(a)) = Above(c, Len(a)) BY <1>1, Paths
<1>3. Above(Above(c, Len(b)), Len(a)) = a BY <1>1, Zenon
<1>4. Len(a) <= Len(c) BY <1>1
<1> QED BY <1>2, <1>3, <1>4, PrefixIs

\* What Tree lists.
LEMMA ChildIs ==
  ASSUME NEW d \in Dir, NEW c
  PROVE  c \in ToSet(Tree[d]) <=> c \in Dir /\ Len(c) = Len(d) + 1 /\ IsPrefix(d, c)
BY TreeAssumption

\* A directory below t is in or below one that Tree lists for t.
LEMMA BelowChild ==
  ASSUME NEW t \in Dir, NEW d \in Dir, IsPrefix(t, d), d # t
  PROVE  \E c \in ToSet(Tree[t]) : IsPrefix(c, d)
<1> DEFINE n == Len(t)
           c == Above(d, n + 1)
<1>1. /\ n \in Nat /\ Len(d) \in Nat /\ n <= Len(d) /\ Above(d, n) = t /\ Above(d, Len(d)) = d
  BY Paths, PrefixIs
<1>2. n + 1 <= Len(d) BY <1>1
<1>3. c \in Dir /\ Len(c) = n + 1 /\ Above(c, n) = t BY <1>1, <1>2, Paths
<1>4. IsPrefix(t, c) /\ IsPrefix(c, d) BY <1>1, <1>2, <1>3, PrefixIs
<1> HIDE DEF c
<1> QED BY <1>3, <1>4, ChildIs

-----------------------------------------------------------------------------
(* The stack of frames.                                                     *)
Walk(fs) ==
  /\ fs \in Seq([dir : Dir, todo : Seq(Dir)])
  /\ \A i \in DOMAIN fs : ToSet(fs[i].todo) \subseteq ToSet(Tree[fs[i].dir])
  /\ \A i \in DOMAIN fs : i > 1 => fs[i].dir \in ToSet(Tree[fs[i - 1].dir])

\* d is still to come in a walk.
Pending(fs, d) == \E i \in DOMAIN fs : \E t \in ToSet(fs[i].todo) : IsPrefix(t, d)

LEMMA FrameIs ==
  ASSUME NEW d \in Dir
  PROVE  /\ Frame(d) \in [dir : Dir, todo : Seq(Dir)]
         /\ Frame(d).dir = d /\ Frame(d).todo = Tree[d]
BY TreeAssumption DEF Frame

\* Each frame is below the ones before it, one name deeper each.
LEMMA WayDown ==
  ASSUME NEW fs, Walk(fs), NEW i \in DOMAIN fs, NEW j \in DOMAIN fs, i <= j
  PROVE  IsPrefix(fs[i].dir, fs[j].dir) /\ Len(fs[j].dir) = Len(fs[i].dir) + (j - i)
<1> DEFINE T == {k \in Nat : i + k \in DOMAIN fs =>
                    /\ IsPrefix(fs[i].dir, fs[i + k].dir)
                    /\ Len(fs[i + k].dir) = Len(fs[i].dir) + k}
<1>1. /\ DOMAIN fs = 1..Len(fs) /\ Len(fs) \in Nat
      /\ \A k \in 1..Len(fs) : fs[k].dir \in Dir
  <2> DEFINE R == [dir : Dir, todo : Seq(Dir)]
  <2>1. \A f \in R : f.dir \in Dir OBVIOUS
  <2>2. fs \in Seq(R) BY DEF Walk
  <2> HIDE DEF R
  <2>3. \A k \in 1..Len(fs) : fs[k] \in R BY <2>2
  <2> QED BY <2>1, <2>2, <2>3
<1>2. 0 \in T
  <2>1. fs[i].dir \in Dir BY <1>1
  <2>2. IsPrefix(fs[i].dir, fs[i].dir) /\ Len(fs[i].dir) \in Nat BY <2>1, Paths, PrefixIs
  <2>3. i + 0 = i BY <1>1
  <2> QED BY <2>2, <2>3
<1>3. ASSUME NEW k \in 0..(j - i - 1), k \in T PROVE k + 1 \in T
  <2> SUFFICES ASSUME i + (k + 1) \in DOMAIN fs
               PROVE  /\ IsPrefix(fs[i].dir, fs[i + (k + 1)].dir)
                      /\ Len(fs[i + (k + 1)].dir) = Len(fs[i].dir) + (k + 1)
    <3>1. k + 1 \in Nat BY <1>1
    <3> QED BY <3>1
  <2> DEFINE a == fs[i].dir
             b == fs[i + k].dir
             c == fs[i + (k + 1)].dir
  <2>1. i + k \in DOMAIN fs /\ i + (k + 1) > 1 /\ (i + (k + 1)) - 1 = i + k BY <1>1
  <2>2. a \in Dir /\ b \in Dir /\ IsPrefix(a, b) /\ Len(b) = Len(a) + k
    BY <1>1, <1>3, <2>1
  <2>3. c \in ToSet(Tree[b]) BY <2>1 DEF Walk
  <2> HIDE DEF a, b, c
  <2>4. c \in Dir /\ Len(c) = Len(b) + 1 /\ IsPrefix(b, c) BY <2>2, <2>3, ChildIs
  <2>5. IsPrefix(a, c) BY <2>2, <2>4, PrefixTransitive
  <2>6. Len(c) = Len(a) + (k + 1)
    <3>1. Len(a) \in Nat BY <2>2, Paths
    <3> QED BY <2>2, <2>4, <3>1
  <2> QED BY <2>5, <2>6 DEF a, c
<1>4. j - i \in Nat /\ i + (j - i) = j BY <1>1
<1> HIDE DEF T
<1>5. j - i \in T
  <2> DEFINE n == j - i
  <2>1. n \in Nat /\ n \in 0..n BY <1>4
  <2>2. \A k \in 0..(n - 1) : k \in T => k + 1 \in T BY <1>3
  <2> HIDE DEF n
  <2>3. 0..n \subseteq T BY <1>2, <2>1, <2>2, Induction
  <2> QED BY <2>1, <2>3 DEF n
<1>6. j - i \in {k \in Nat : i + k \in DOMAIN fs =>
                    /\ IsPrefix(fs[i].dir, fs[i + k].dir)
                    /\ Len(fs[i + k].dir) = Len(fs[i].dir) + k}
  BY <1>5 DEF T
<1> QED BY <1>4, <1>6

\* The members of a walk.
LEMMA WalkIs ==
  ASSUME NEW fs, Walk(fs)
  PROVE  /\ Len(fs) \in Nat /\ DOMAIN fs = 1..Len(fs)
         /\ fs # <<>> => Len(fs) \in DOMAIN fs /\ 1 \in DOMAIN fs
         /\ \A i \in DOMAIN fs : /\ fs[i] \in [dir : Dir, todo : Seq(Dir)]
                                 /\ fs[i].dir \in Dir /\ fs[i].todo \in Seq(Dir)
<1> DEFINE R == [dir : Dir, todo : Seq(Dir)]
<1>1. \A f \in R : f.dir \in Dir /\ f.todo \in Seq(Dir) OBVIOUS
<1>2. fs \in Seq(R) BY DEF Walk
<1> HIDE DEF R
<1>3. Len(fs) \in Nat /\ DOMAIN fs = 1..Len(fs) /\ \A i \in 1..Len(fs) : fs[i] \in R
  BY <1>2
<1>4. fs # <<>> => Len(fs) > 0 BY <1>2
<1> QED BY <1>1, <1>3, <1>4 DEF R

\* The rest of a list is in the list.
LEMMA TailIs ==
  ASSUME NEW s \in Seq(Dir), s # <<>>
  PROVE  /\ Tail(s) \in Seq(Dir) /\ Head(s) \in ToSet(s)
         /\ ToSet(s) = {Head(s)} \cup ToSet(Tail(s))
<1>1. /\ Len(s) \in Nat /\ DOMAIN s = 1..Len(s) /\ Len(s) > 0 /\ Head(s) = s[1]
      /\ Tail(s) \in Seq(Dir) /\ Len(Tail(s)) = Len(s) - 1
      /\ DOMAIN Tail(s) = 1..(Len(s) - 1)
      /\ \A i \in 1..(Len(s) - 1) : Tail(s)[i] = s[i + 1]
  OBVIOUS
<1>2. ASSUME NEW x \in ToSet(s) PROVE x = Head(s) \/ x \in ToSet(Tail(s))
  <2>1. PICK i \in 1..Len(s) : x = s[i] BY <1>1, <1>2 DEF ToSet
  <2>2. CASE i = 1 BY <1>1, <2>1, <2>2
  <2>3. CASE i # 1
    <3>1. i - 1 \in 1..(Len(s) - 1) /\ (i - 1) + 1 = i BY <1>1, <2>1, <2>3
    <3>2. x = Tail(s)[i - 1] BY <1>1, <2>1, <3>1
    <3> QED BY <1>1, <3>1, <3>2 DEF ToSet
  <2> QED BY <2>2, <2>3
<1>3. ASSUME NEW x \in ToSet(Tail(s)) PROVE x \in ToSet(s)
  <2>1. PICK i \in 1..(Len(s) - 1) : x = Tail(s)[i] BY <1>1, <1>3 DEF ToSet
  <2>2. x = s[i + 1] /\ i + 1 \in 1..Len(s) BY <1>1, <2>1
  <2> QED BY <1>1, <2>2 DEF ToSet
<1>4. Head(s) \in ToSet(s) BY <1>1 DEF ToSet
<1> QED BY <1>1, <1>2, <1>3, <1>4

\* All but the last of a list.
LEMMA FrontIs ==
  ASSUME NEW S, NEW s \in Seq(S), s # <<>>
  PROVE  /\ Len(s) \in Nat /\ Len(s) \in 1..Len(s) /\ DOMAIN s = 1..Len(s)
         /\ Front(s) \in Seq(S) /\ DOMAIN Front(s) = 1..(Len(s) - 1)
         /\ \A i \in 1..(Len(s) - 1) : Front(s)[i] = s[i]
<1> DEFINE n == Len(s)
           new == Front(s)
<1>1. n \in Nat /\ n \in 1..n /\ DOMAIN s = 1..n OBVIOUS
<1>2. \A i \in 1..(n - 1) : s[i] \in S BY <1>1
<1>3. /\ new \in Seq(S) /\ Len(new) = IF 1 <= n - 1 THEN (n - 1) - 1 + 1 ELSE 0
      /\ \A i \in 1..((n - 1) - 1 + 1) : new[i] = s[1 + i - 1]
  BY <1>1, <1>2, SubSeqProperties DEF Front
<1> HIDE DEF n, new
<1>4. Len(new) = n - 1
  <2>1. n \in Nat /\ n >= 1 BY <1>1
  <2> QED BY <1>3, <2>1
<1>5. DOMAIN new = 1..(n - 1) BY <1>3, <1>4
<1>6. ASSUME NEW i \in 1..(n - 1) PROVE new[i] = s[i]
  <2>1. i \in 1..((n - 1) - 1 + 1) /\ 1 + i - 1 = i BY <1>1
  <2> QED BY <1>3, <2>1
<1> QED BY <1>1, <1>3, <1>5, <1>6 DEF n, new

\* The directory at hand is taken from the list of the top frame.
LEMMA RestIs ==
  ASSUME Walk(frames), frames # <<>>, Top.todo # <<>>
  PROVE  /\ Walk(Rest) /\ Len(Rest) = Len(frames)
         /\ \A i \in DOMAIN frames : Rest[i].dir = frames[i].dir
         /\ Head(Top.todo) \in ToSet(Tree[Top.dir])
         /\ \A d : Pending(frames, d) => Pending(Rest, d) \/ IsPrefix(Head(Top.todo), d)
<1> DEFINE n == Len(frames)
<1>1. /\ n \in DOMAIN frames /\ DOMAIN frames = 1..n /\ n \in Nat
      /\ \A i \in DOMAIN frames : /\ frames[i] \in [dir : Dir, todo : Seq(Dir)]
                                  /\ frames[i].todo \in Seq(Dir) /\ frames[i].dir \in Dir
      /\ frames \in Seq([dir : Dir, todo : Seq(Dir)])
  BY WalkIs DEF Walk
<1>2. Top = frames[n] BY DEF Top, Last
<1>3. /\ Tail(Top.todo) \in Seq(Dir) /\ Head(Top.todo) \in ToSet(Top.todo)
      /\ ToSet(Top.todo) = {Head(Top.todo)} \cup ToSet(Tail(Top.todo))
  BY <1>1, <1>2, TailIs
<1>4. /\ Rest \in Seq([dir : Dir, todo : Seq(Dir)]) /\ Len(Rest) = n /\ DOMAIN Rest = 1..n
      /\ \A i \in 1..n : /\ Rest[i].dir = frames[i].dir
                         /\ Rest[i].todo = IF i = n THEN Tail(Top.todo) ELSE frames[i].todo
  <2> DEFINE f == [frames[n] EXCEPT !.todo = Tail(@)]
  <2>1. /\ f \in [dir : Dir, todo : Seq(Dir)] /\ f.dir = frames[n].dir
        /\ f.todo = Tail(frames[n].todo)
    BY <1>1, <1>2, <1>3
  <2>2. Rest = [frames EXCEPT ![n] = f] BY <1>1 DEF Rest
  <2> HIDE DEF f
  <2>3. /\ Rest \in Seq([dir : Dir, todo : Seq(Dir)]) /\ Len(Rest) = n
        /\ \A i \in 1..n : Rest[i] = IF i = n THEN f ELSE frames[i]
    BY <1>1, <2>1, <2>2, ExceptSeq
  <2>4. DOMAIN Rest = 1..n BY <2>3
  <2> QED BY <1>1, <1>2, <2>1, <2>3, <2>4
<1>5. \A i \in 1..n : ToSet(Rest[i].todo) \subseteq ToSet(frames[i].todo)
  BY <1>2, <1>3, <1>4
<1>6. Walk(Rest)
  <2>1. \A i \in 1..n : i > 1 => i - 1 \in 1..n BY <1>1
  <2> QED BY <1>1, <1>4, <1>5, <2>1 DEF Walk
<1>7. ASSUME NEW d, Pending(frames, d), ~IsPrefix(Head(Top.todo), d) PROVE Pending(Rest, d)
  <2>1. PICK i \in 1..n : \E t \in ToSet(frames[i].todo) : IsPrefix(t, d)
    BY <1>1, <1>7 DEF Pending
  <2>2. PICK t \in ToSet(frames[i].todo) : IsPrefix(t, d) BY <2>1
  <2>3. t \in ToSet(Rest[i].todo) BY <1>2, <1>3, <1>4, <1>7, <2>2
  <2> QED BY <1>4, <2>2, <2>3 DEF Pending
<1>8. Head(Top.todo) \in ToSet(Tree[Top.dir]) BY <1>1, <1>2, <1>3 DEF Walk
<1> QED BY <1>1, <1>4, <1>6, <1>7, <1>8

\* A directory is entered: it and what is below it is found or still to come.
LEMMA PushIs ==
  ASSUME NEW fs, Walk(fs), NEW t \in Dir, fs # <<>> => t \in ToSet(Tree[fs[Len(fs)].dir])
  PROVE  /\ Walk(Append(fs, Frame(t))) /\ Len(Append(fs, Frame(t))) = Len(fs) + 1
         /\ \A i \in DOMAIN fs : Append(fs, Frame(t))[i].dir = fs[i].dir
         /\ Append(fs, Frame(t))[Len(fs) + 1].dir = t
         /\ \A d : Pending(fs, d) => Pending(Append(fs, Frame(t)), d)
         /\ \A d \in Dir : IsPrefix(t, d) /\ d # t => Pending(Append(fs, Frame(t)), d)
<1> DEFINE R == [dir : Dir, todo : Seq(Dir)]
           n == Len(fs)
           new == Append(fs, Frame(t))
<1>1. n \in Nat /\ DOMAIN fs = 1..n /\ fs \in Seq(R) /\ (fs # <<>> => n \in 1..n)
  BY WalkIs DEF Walk
<1>2. Frame(t) \in R /\ Frame(t).dir = t /\ Frame(t).todo = Tree[t] BY FrameIs
<1>3. /\ new \in Seq(R) /\ Len(new) = n + 1 /\ DOMAIN new = 1..(n + 1)
      /\ \A i \in 1..n : new[i] = fs[i]
      /\ new[n + 1] = Frame(t)
  <2> HIDE DEF R
  <2>1. /\ new \in Seq(R) /\ Len(new) = n + 1 /\ \A i \in 1..n : new[i] = fs[i]
        /\ new[n + 1] = Frame(t)
    BY <1>1, <1>2, AppendProperties
  <2> QED BY <2>1
<1> HIDE DEF new, R
<1>4. \A i \in 1..(n + 1) : i \in 1..n \/ i = n + 1 BY <1>1
<1>5. ASSUME NEW i \in 1..(n + 1), i > 1 PROVE new[i].dir \in ToSet(Tree[new[i - 1].dir])
  <2>1. i - 1 \in 1..n /\ new[i - 1] = fs[i - 1] BY <1>1, <1>3, <1>5
  <2>2. CASE i \in 1..n BY <1>1, <1>3, <1>5, <2>1, <2>2 DEF Walk
  <2>3. CASE i = n + 1
    <3>1. i - 1 = n /\ fs # <<>> BY <1>1, <1>5, <2>3
    <3> QED BY <1>2, <1>3, <2>1, <2>3, <3>1
  <2> QED BY <1>4, <2>2, <2>3
<1>6. \A i \in 1..(n + 1) : ToSet(new[i].todo) \subseteq ToSet(Tree[new[i].dir])
  BY <1>1, <1>2, <1>3, <1>4 DEF Walk
<1>7. Walk(new) BY <1>3, <1>5, <1>6 DEF Walk, R
<1>8. ASSUME NEW d, Pending(fs, d) PROVE Pending(new, d)
  <2>1. PICK i \in 1..n : \E u \in ToSet(fs[i].todo) : IsPrefix(u, d)
    BY <1>1, <1>8 DEF Pending
  <2>2. i \in 1..(n + 1) /\ new[i] = fs[i] BY <1>1, <1>3, <2>1
  <2> QED BY <1>3, <2>1, <2>2 DEF Pending
<1>9. ASSUME NEW d \in Dir, IsPrefix(t, d), d # t PROVE Pending(new, d)
  <2>1. PICK c \in ToSet(Tree[t]) : IsPrefix(c, d) BY <1>9, BelowChild
  <2>2. n + 1 \in 1..(n + 1) /\ new[n + 1].todo = Tree[t] BY <1>1, <1>2, <1>3
  <2> QED BY <1>3, <2>1, <2>2 DEF Pending
<1>10. (\A i \in DOMAIN fs : new[i].dir = fs[i].dir) /\ new[n + 1].dir = t
  BY <1>1, <1>2, <1>3
<1> QED BY <1>3, <1>7, <1>8, <1>9, <1>10 DEF new

\* A directory whose list is done with is left: nothing in it is still to come.
LEMMA PopIs ==
  ASSUME Walk(frames), frames # <<>>, Top.todo = <<>>
  PROVE  /\ Walk(Front(frames)) /\ Len(Front(frames)) = Len(frames) - 1
         /\ \A i \in DOMAIN Front(frames) : i \in DOMAIN frames /\ Front(frames)[i] = frames[i]
         /\ \A d : Pending(frames, d) => Pending(Front(frames), d)
<1> DEFINE R == [dir : Dir, todo : Seq(Dir)]
           n == Len(frames)
           new == Front(frames)
<1>1. n \in Nat /\ n \in 1..n /\ DOMAIN frames = 1..n /\ frames \in Seq(R)
  BY WalkIs DEF Walk
<1>2. /\ new \in Seq(R) /\ Len(new) = n - 1 /\ DOMAIN new = 1..(n - 1)
      /\ \A i \in 1..(n - 1) : new[i] = frames[i]
  <2> HIDE DEF R
  <2>1. new \in Seq(R) /\ DOMAIN new = 1..(n - 1) /\ \A i \in 1..(n - 1) : new[i] = frames[i]
    BY <1>1, FrontIs
  <2>2. Len(new) = n - 1
    <3> HIDE DEF n, new
    <3>1. n \in Nat /\ n >= 1 /\ Len(new) \in Nat /\ DOMAIN new = 1..Len(new) BY <1>1, <2>1
    <3> QED BY <2>1, <3>1
  <2> QED BY <2>1, <2>2
<1> HIDE DEF new, R
<1>3. \A i \in 1..(n - 1) : i \in 1..n /\ (i > 1 => i - 1 \in 1..(n - 1)) BY <1>1
<1>4. Walk(new)
  <2>1. \A i \in 1..(n - 1) : ToSet(new[i].todo) \subseteq ToSet(Tree[new[i].dir])
    BY <1>1, <1>2, <1>3 DEF Walk
  <2>2. \A i \in 1..(n - 1) : i > 1 => new[i].dir \in ToSet(Tree[new[i - 1].dir])
    BY <1>1, <1>2, <1>3 DEF Walk
  <2> QED BY <1>2, <2>1, <2>2 DEF Walk, R
<1>5. ASSUME NEW d, Pending(frames, d) PROVE Pending(new, d)
  <2>1. PICK i \in 1..n : \E t \in ToSet(frames[i].todo) : IsPrefix(t, d)
    BY <1>1, <1>5 DEF Pending
  <2>2. i # n
    <3>1. ToSet(frames[n].todo) = {} BY DEF Top, Last, ToSet
    <3> QED BY <2>1, <3>1
  <2>3. i \in 1..(n - 1)
    <3>1. i \in 1..n /\ n \in Nat BY <1>1
    <3> HIDE DEF n
    <3> QED BY <2>2, <3>1
  <2> QED BY <1>2, <2>1, <2>3 DEF Pending
<1> QED BY <1>1, <1>2, <1>3, <1>4, <1>5 DEF new

-----------------------------------------------------------------------------
(* What the stack of patterns says is what the specification says.          *)

\* The directories on the way to t, from the repository, are those of the frames.
LEMMA OnTheWay ==
  ASSUME Walk(frames), frames # <<>>, NEW t \in ToSet(Tree[Top.dir])
  PROVE  /\ t \in Dir /\ Len(t) = Len(frames[1].dir) + Len(frames)
         /\ \A i \in DOMAIN frames : /\ Len(frames[i].dir) = Len(frames[1].dir) + (i - 1)
                                     /\ IsPrefix(frames[i].dir, t)
                                     /\ Above(t, Len(frames[i].dir)) = frames[i].dir
         /\ \A m \in Len(frames[1].dir)..(Len(t) - 1) :
              \E i \in DOMAIN frames : Above(t, m) = frames[i].dir
<1> DEFINE n == Len(frames)
           h == Len(frames[1].dir)
<1>1. /\ n \in Nat /\ DOMAIN frames = 1..n /\ n \in DOMAIN frames /\ 1 \in DOMAIN frames
      /\ \A i \in DOMAIN frames : frames[i].dir \in Dir
  BY WalkIs
<1>2. Top = frames[n] BY DEF Top, Last
<1>3. h \in Nat BY <1>1, Paths
<1>4. ASSUME NEW i \in DOMAIN frames
      PROVE  Len(frames[i].dir) = h + (i - 1) /\ IsPrefix(frames[i].dir, frames[n].dir)
  <2>1. 1 <= i /\ i <= n BY <1>1
  <2>2. Len(frames[i].dir) = h + (i - 1) BY <1>1, <2>1, WayDown
  <2>3. IsPrefix(frames[i].dir, frames[n].dir) BY <1>1, <2>1, WayDown
  <2> QED BY <2>2, <2>3
<1>5. t \in Dir /\ Len(t) = Len(frames[n].dir) + 1 /\ IsPrefix(frames[n].dir, t)
  BY <1>1, <1>2, ChildIs
<1>6. Len(t) = h + n
  <2>1. Len(frames[n].dir) = h + (n - 1) BY <1>1, <1>4
  <2> HIDE DEF n, h
  <2> QED BY <1>1, <1>3, <1>5, <2>1
<1>7. ASSUME NEW i \in DOMAIN frames
      PROVE  IsPrefix(frames[i].dir, t) /\ Above(t, Len(frames[i].dir)) = frames[i].dir
  <2>1. IsPrefix(frames[i].dir, t) BY <1>1, <1>4, <1>5, PrefixTransitive
  <2> QED BY <1>1, <1>5, <2>1, PrefixIs
<1>8. ASSUME NEW m \in h..(Len(t) - 1)
      PROVE  \E i \in DOMAIN frames : Above(t, m) = frames[i].dir
  <2> DEFINE i == (m - h) + 1
  <2>1. i \in DOMAIN frames /\ h + (i - 1) = m
    <3> HIDE DEF n, h
    <3>1. m \in Int /\ h <= m /\ m <= (h + n) - 1 BY <1>1, <1>3, <1>6, <1>8
    <3>2. i \in 1..n /\ h + (i - 1) = m BY <1>1, <1>3, <3>1
    <3> QED BY <1>1, <3>2
  <2>2. Len(frames[i].dir) = m BY <1>4, <2>1
  <2> HIDE DEF i
  <2>3. Above(t, m) = frames[i].dir BY <1>7, <2>1, <2>2
  <2> QED BY <2>1, <2>3
<1> QED BY <1>4, <1>5, <1>6, <1>7, <1>8

\* The patterns in force, by the depth of their directory.
LEMMA ForceIs ==
  ASSUME ScanTypeOK, phase = "files", frames # <<>>, NEW t \in ToSet(Tree[Top.dir])
  PROVE  /\ \A k \in DOMAIN inForce :
              /\ Len(inForce[k]) \in Len(frames[1].dir)..(Len(t) - 1)
              /\ Above(t, Len(inForce[k])) = inForce[k] /\ IsPrefix(inForce[k], t)
         /\ \A k, l \in DOMAIN inForce : /\ Len(inForce[l]) > Len(inForce[k]) <=> l > k
                                         /\ Len(inForce[l]) = Len(inForce[k]) => l = k
         /\ \A m \in Len(frames[1].dir)..(Len(t) - 1) :
              ignore[Above(t, m)] # <<>> => \E k \in DOMAIN inForce : inForce[k] = Above(t, m)
<1> DEFINE n == Len(frames)
           h == Len(frames[1].dir)
<1>1. Walk(frames) BY DEF ScanTypeOK, Walk
<1>2. /\ n \in Nat /\ DOMAIN frames = 1..n /\ 1 \in DOMAIN frames
      /\ \A i \in DOMAIN frames : frames[i].dir \in Dir
  BY <1>1, WalkIs
<1>3. /\ t \in Dir /\ Len(t) = h + n /\ h \in Nat
      /\ \A i \in DOMAIN frames : /\ Len(frames[i].dir) = h + (i - 1)
                                  /\ IsPrefix(frames[i].dir, t)
                                  /\ Above(t, Len(frames[i].dir)) = frames[i].dir
      /\ \A m \in h..(Len(t) - 1) : \E i \in DOMAIN frames : Above(t, m) = frames[i].dir
  BY <1>1, <1>2, OnTheWay, Paths
<1>4. \A x : x \in ToSet(inForce) <=>
               (\E i \in DOMAIN frames : x = frames[i].dir) /\ ignore[x] # <<>>
  <2>1. ToSet(inForce) = {d \in {frames[i].dir : i \in DOMAIN frames} : ignore[d] # <<>>}
    BY DEF ScanTypeOK
  <2> QED BY <2>1
<1> HIDE DEF n, h
<1>5. ASSUME NEW k \in DOMAIN inForce
      PROVE  /\ Len(inForce[k]) \in h..(Len(t) - 1)
             /\ Above(t, Len(inForce[k])) = inForce[k] /\ IsPrefix(inForce[k], t)
  <2>1. inForce[k] \in ToSet(inForce) BY DEF ToSet
  <2>2. PICK i \in DOMAIN frames : inForce[k] = frames[i].dir BY <1>4, <2>1
  <2>3. h + (i - 1) \in h..((h + n) - 1)
    <3>1. i \in 1..n BY <1>2
    <3>2. n \in Nat /\ h \in Nat BY <1>2, <1>3
    <3> QED BY <3>1, <3>2
  <2>4. Len(inForce[k]) = h + (i - 1) /\ IsPrefix(inForce[k], t)
        /\ Above(t, Len(inForce[k])) = inForce[k]
    BY <1>3, <2>2
  <2>5. Len(t) = h + n BY <1>3
  <2>6. Len(inForce[k]) \in h..(Len(t) - 1)
    <3>1. h..(Len(t) - 1) = h..((h + n) - 1) BY <2>5, Zenon
    <3> QED BY <2>3, <2>4, <3>1, Zenon
  <2> QED BY <2>4, <2>6
<1>6. ASSUME NEW k \in DOMAIN inForce, NEW l \in DOMAIN inForce
      PROVE  /\ Len(inForce[l]) > Len(inForce[k]) <=> l > k
             /\ Len(inForce[l]) = Len(inForce[k]) => l = k
  <2>1. inForce \in Seq(Dir) /\ DOMAIN inForce = 1..Len(inForce) BY DEF ScanTypeOK
  <2>2. k \in Int /\ l \in Int BY <2>1
  <2>3. Len(inForce[k]) \in Nat /\ Len(inForce[l]) \in Nat /\ Len(t) \in Nat
    BY <2>1, Paths, <1>3
  <2>4. k < l => Len(inForce[k]) < Len(inForce[l])
    <3>1. k < l => IsStrictPrefix(inForce[k], inForce[l]) BY DEF ScanTypeOK
    <3>2. IsStrictPrefix(inForce[k], inForce[l]) =>
            Len(inForce[k]) < Len(inForce[l])
      BY <1>5, <2>1, <2>3, PrefixIs, Paths DEF IsStrictPrefix
    <3> QED BY <3>1, <3>2
  <2>5. l < k => Len(inForce[l]) < Len(inForce[k])
    <3>1. l < k => IsStrictPrefix(inForce[l], inForce[k]) BY DEF ScanTypeOK
    <3>2. IsStrictPrefix(inForce[l], inForce[k]) =>
            Len(inForce[l]) < Len(inForce[k])
      BY <1>5, <2>1, <2>3, PrefixIs, Paths DEF IsStrictPrefix
    <3> QED BY <3>1, <3>2
  <2> QED BY <2>2, <2>3, <2>4, <2>5
<1>7. ASSUME NEW m \in h..(Len(t) - 1), ignore[Above(t, m)] # <<>>
      PROVE  \E k \in DOMAIN inForce : inForce[k] = Above(t, m)
  <2>1. Above(t, m) \in ToSet(inForce) BY <1>3, <1>4, <1>7
  <2> QED BY <2>1 DEF ToSet
<1> QED BY <1>5, <1>6, <1>7 DEF h

\* A directory is left out by the stack just when the patterns on its way exclude it.
LEMMA ExcludedIs ==
  ASSUME ScanTypeOK, phase = "files", frames # <<>>, NEW t \in ToSet(Tree[Top.dir])
  PROVE  IsIgnored(t) <=> Excluded(frames[1].dir, t)
<1> DEFINE h == Len(frames[1].dir)
           dep(k) == Len(inForce[k])
           pat(m) == ignore[Above(t, m)]
           app(m, j) == Matches(pat(m)[j], From(Above(t, m), t))
           lastF(k, i) == \A l \in DOMAIN inForce : \A j \in DOMAIN pat(dep(l)) :
              (l > k \/ (l = k /\ j > i)) /\ app(dep(l), j) => ~pat(dep(l))[j].negate
           lastD(m, i) == \A l \in m..(Len(t) - 1) : \A j \in DOMAIN pat(l) :
              (l > m \/ j > i) /\ app(l, j) => ~pat(l)[j].negate
<1>1. /\ \A k \in DOMAIN inForce : /\ dep(k) \in h..(Len(t) - 1)
                                   /\ Above(t, dep(k)) = inForce[k] /\ IsPrefix(inForce[k], t)
      /\ \A k, l \in DOMAIN inForce : (dep(l) > dep(k) <=> l > k) /\ (dep(l) = dep(k) => l = k)
      /\ \A m \in h..(Len(t) - 1) :
           pat(m) # <<>> => \E k \in DOMAIN inForce : inForce[k] = Above(t, m)
  BY ForceIs
<1>2. h \in Nat /\ Len(t) \in Nat
  <2>1. Walk(frames) BY DEF ScanTypeOK, Walk
  <2> QED BY <2>1, OnTheWay, Paths, WalkIs
<1>3. IsIgnored(t) <=> Ignores(t, DOMAIN inForce)
  <2>1. inForce \in Seq(Dir) /\ \A c \in Dir : ignore[c] \in Seq(Pattern) BY DEF ScanTypeOK
  <2>2. IsIgnored(t) = Ignores(t, DOMAIN inForce) BY <1>1, <2>1, IsIgnoredIs
  <2> QED BY <2>2
<1>4. Ignores(t, DOMAIN inForce) <=>
        \E k \in DOMAIN inForce : \E i \in DOMAIN pat(dep(k)) :
          app(dep(k), i) /\ ~pat(dep(k))[i].negate /\ lastF(k, i)
  BY <1>1 DEF Ignores, Applies
<1>5. Excluded(frames[1].dir, t) <=>
        \E m \in h..(Len(t) - 1) : \E i \in DOMAIN pat(m) :
          app(m, i) /\ ~pat(m)[i].negate /\ lastD(m, i)
  BY DEF Excluded
<1>6. \A m \in h..(Len(t) - 1) : \A i \in DOMAIN pat(m) : \E k \in DOMAIN inForce : dep(k) = m
  <2> SUFFICES ASSUME NEW m \in h..(Len(t) - 1), NEW i \in DOMAIN pat(m)
               PROVE  \E k \in DOMAIN inForce : dep(k) = m
    OBVIOUS
  <2>1. pat(m) # <<>> OBVIOUS
  <2>2. PICK k \in DOMAIN inForce : inForce[k] = Above(t, m) BY <1>1, <2>1
  <2>3. Len(Above(t, m)) = m
    <3>1. Walk(frames) BY DEF ScanTypeOK, Walk
    <3>2. t \in Dir BY <3>1, OnTheWay
    <3>3. m \in 0..Len(t) BY <1>2
    <3> QED BY <3>2, <3>3, Paths
  <2> QED BY <2>2, <2>3
<1>7. ASSUME NEW k \in DOMAIN inForce, NEW i PROVE lastF(k, i) <=> lastD(dep(k), i)
  <2> HIDE DEF pat, app, dep, h
  <2>1. ASSUME lastF(k, i), NEW l \in dep(k)..(Len(t) - 1), NEW j \in DOMAIN pat(l),
               l > dep(k) \/ j > i, app(l, j)
        PROVE  ~pat(l)[j].negate
    <3>0. dep(k) \in Nat /\ l \in h..(Len(t) - 1) BY <1>1, <1>2
    <3>1. PICK q \in DOMAIN inForce : dep(q) = l BY <1>6, <3>0
    <3>2. q > k \/ (q = k /\ j > i)
      <4>1. l > dep(k) \/ l = dep(k) BY <1>2, <3>0
      <4> QED BY <1>1, <2>1, <3>1, <4>1
    <3> QED BY <2>1, <3>1, <3>2
  <2>2. ASSUME lastD(dep(k), i), NEW l \in DOMAIN inForce, NEW j \in DOMAIN pat(dep(l)),
               l > k \/ (l = k /\ j > i), app(dep(l), j)
        PROVE  ~pat(dep(l))[j].negate
    <3>1. dep(l) > dep(k) \/ (dep(l) = dep(k) /\ j > i) BY <1>1, <2>2
    <3>2. dep(l) \in dep(k)..(Len(t) - 1) /\ (dep(l) > dep(k) \/ j > i) BY <1>1, <1>2, <3>1
    <3> QED BY <2>2, <3>2
  <2> QED BY <2>1, <2>2
<1> HIDE DEF pat, app, dep, h, lastF, lastD
<1>8. (\E k \in DOMAIN inForce : \E i \in DOMAIN pat(dep(k)) :
          app(dep(k), i) /\ ~pat(dep(k))[i].negate /\ lastF(k, i)) <=>
      (\E m \in h..(Len(t) - 1) : \E i \in DOMAIN pat(m) :
          app(m, i) /\ ~pat(m)[i].negate /\ lastD(m, i))
  BY <1>1, <1>6, <1>7
<1> QED BY <1>3, <1>4, <1>5, <1>8

-----------------------------------------------------------------------------
(* The names of env files.                                                  *)

LEMMA NameIs ==
  ASSUME NEW f \in Seq(STRING)
  PROVE  IsEnvFileName(f) <=> f \in Accepted
<1>1. Len(f) \in Nat /\ DOMAIN f = 1..Len(f) /\ ToSet(f) = {f[i] : i \in 1..Len(f)}
  BY DEF ToSet
<1>2. ASSUME IsEnvFileName(f) PROVE f \in Accepted
  <2>1. Len(f) \in {1, 2, 3} /\ f[1] = "env" BY <1>1, <1>2 DEF IsEnvFileName
  <2>2. CASE Len(f) = 1
    <3>1. f = <<"env">> BY <2>1, <2>2
    <3> QED BY <3>1 DEF Accepted
  <2>3. CASE Len(f) = 2
    <3>1. f[2] \in Base BY <1>2, <2>3 DEF IsEnvFileName
    <3>2. f = <<"env", f[2]>> BY <2>1, <2>3
    <3> QED BY <3>1, <3>2 DEF Accepted
  <2>4. CASE Len(f) = 3
    <3>1. f[2] \in Base /\ f[3] = "local" BY <1>2, <2>4 DEF IsEnvFileName
    <3>2. f = <<"env", f[2], "local">> BY <2>1, <2>4, <3>1
    <3>3. CASE f[2] = "local" BY <3>2, <3>3 DEF Accepted
    <3>4. CASE f[2] # "local" BY <3>1, <3>2, <3>4 DEF Accepted
    <3> QED BY <3>3, <3>4
  <2> QED BY <2>1, <2>2, <2>3, <2>4
<1>3. ASSUME f \in Accepted PROVE IsEnvFileName(f)
  <2>1. \/ f = <<"env">>
        \/ \E b \in Base : f = <<"env", b>>
        \/ \E b \in Base : f = <<"env", b, "local">>
    BY <1>3 DEF Accepted, Base
  <2>2. \A b \in Base \cup {"env", "local"} : b \notin Placeholder BY DEF Base, Placeholder
  <2>3. CASE f = <<"env">>
    <3>1. Len(f) = 1 /\ f[1] = "env" /\ f # <<>> BY <2>3
    <3>2. ToSet(f) \cap Placeholder = {} BY <1>1, <2>2, <3>1
    <3> QED BY <3>1, <3>2 DEF IsEnvFileName
  <2>4. ASSUME NEW b \in Base, f = <<"env", b>> PROVE IsEnvFileName(f)
    <3>1. Len(f) = 2 /\ f[1] = "env" /\ f[2] = b /\ f # <<>> BY <2>4
    <3>2. ToSet(f) \cap Placeholder = {} BY <1>1, <2>2, <3>1
    <3> QED BY <3>1, <3>2 DEF IsEnvFileName
  <2>5. ASSUME NEW b \in Base, f = <<"env", b, "local">> PROVE IsEnvFileName(f)
    <3>1. Len(f) = 3 /\ f[1] = "env" /\ f[2] = b /\ f[3] = "local" /\ f # <<>> BY <2>5
    <3>2. ToSet(f) \cap Placeholder = {} BY <1>1, <2>2, <3>1
    <3> QED BY <3>1, <3>2 DEF IsEnvFileName
  <2> QED BY <2>1, <2>3, <2>4, <2>5
<1> QED BY <1>2, <1>3

-----------------------------------------------------------------------------
(* The directories a scan should go to, one name at a time.                 *)
Open(d) == \A n \in 0..Len(d) : Above(d, n) \notin repos /\ (n > 0 => d[n] \notin NeverEnter)

\* What is above a directory that Tree lists is above its parent too.
LEMMA ChildPath ==
  ASSUME NEW d \in Dir, NEW t \in ToSet(Tree[d])
  PROVE  /\ t \in Dir /\ Len(t) = Len(d) + 1 /\ Len(d) \in Nat /\ Above(t, Len(t)) = t
         /\ Last(t) = t[Len(t)]
         /\ \A n \in 0..Len(d) : Above(t, n) = Above(d, n)
         /\ \A n \in 1..Len(d) : t[n] = d[n]
         /\ IsPrefix(d, t)
<1>1. t \in Dir /\ Len(t) = Len(d) + 1 /\ IsPrefix(d, t) BY ChildIs
<1>2. /\ Len(d) \in Nat /\ Above(t, Len(t)) = t /\ Above(t, Len(d)) = d
      /\ Len(d) \in 0..Len(t)
  BY <1>1, Paths, PrefixIs
<1>3. \A n \in 0..Len(d) : Above(t, n) = Above(d, n) BY <1>1, <1>2, Paths
<1>4. \A n \in 1..Len(d) : t[n] = d[n] BY <1>1, <1>2, Paths
<1> QED BY <1>1, <1>2, <1>3, <1>4 DEF Last

\* Above a directory below t is what is above t.
LEMMA BelowPath ==
  ASSUME NEW t \in Dir, NEW d \in Dir, IsPrefix(t, d)
  PROVE  /\ Len(t) \in Nat /\ Len(d) \in Nat /\ Len(t) <= Len(d)
         /\ Above(d, Len(t)) = t /\ Above(t, Len(t)) = t
         /\ \A n \in 1..Len(t) : d[n] = t[n]
<1>1. Len(t) \in Nat /\ Len(d) \in Nat /\ Len(t) <= Len(d) /\ Above(d, Len(t)) = t
  BY Paths, PrefixIs
<1>2. Len(t) \in 0..Len(d) BY <1>1
<1>3. \A n \in 1..Len(t) : Above(d, Len(t))[n] = d[n] BY <1>2, Paths
<1> QED BY <1>1, <1>3, Paths

LEMMA OpenStep ==
  ASSUME repos \subseteq Dir, NEW d \in Dir, Open(d), NEW t \in ToSet(Tree[d]), ~LeftOut(t)
  PROVE  IF t \in repos THEN t \in Outermost ELSE Open(t)
<1>1. /\ t \in Dir /\ Len(t) = Len(d) + 1 /\ Len(d) \in Nat /\ Above(t, Len(t)) = t
      /\ Last(t) = t[Len(t)]
      /\ \A n \in 0..Len(d) : Above(t, n) = Above(d, n)
      /\ \A n \in 1..Len(d) : t[n] = d[n]
  BY ChildPath
<1>2. \A n \in 0..Len(t) : n \in 0..Len(d) \/ n = Len(t) BY <1>1
<1>3. ASSUME NEW n \in 0..Len(d) PROVE Above(t, n) \notin repos /\ (n > 0 => t[n] \notin NeverEnter)
  <2>1. n > 0 => n \in 1..Len(d) OBVIOUS
  <2> QED BY <1>1, <2>1 DEF Open
<1>4. t[Len(t)] \notin NeverEnter BY <1>1 DEF LeftOut
<1>5. CASE t \in repos
  <2>1. \A n \in 0..Len(t) : n < Len(t) => n \in 0..Len(d) BY <1>1
  <2> QED BY <1>2, <1>3, <1>4, <1>5, <2>1 DEF Outermost
<1>6. CASE t \notin repos BY <1>1, <1>2, <1>3, <1>4, <1>6 DEF Open
<1> QED BY <1>5, <1>6

LEMMA OutermostIs ==
  ASSUME repos \subseteq Dir, NEW t \in Dir, Len(t) > 0, NEW r \in Outermost, IsPrefix(t, r)
  PROVE  ~LeftOut(t) /\ (t \in repos => r = t)
<1>1. r \in Dir BY DEF Outermost
<1>2. /\ Len(t) \in Nat /\ Len(r) \in Nat /\ Len(t) <= Len(r) /\ Above(r, Len(t)) = t
      /\ \A n \in 1..Len(t) : r[n] = t[n]
  BY <1>1, BelowPath
<1>3. Len(t) \in 0..Len(r) /\ Len(t) \in 1..Len(t) BY <1>2
<1>4. r[Len(t)] \notin NeverEnter BY <1>3 DEF Outermost
<1>5. ~LeftOut(t) BY <1>2, <1>3, <1>4 DEF LeftOut, Last
<1>6. ASSUME t \in repos PROVE r = t
  <2>1. ~(Len(t) < Len(r)) BY <1>2, <1>3, <1>6 DEF Outermost
  <2>2. Len(t) = Len(r) BY <1>2, <2>1
  <2>3. Above(r, Len(r)) = r BY <1>1, Paths
  <2> QED BY <1>2, <2>2, <2>3
<1> QED BY <1>5, <1>6

LEMMA SearchedStep ==
  ASSUME NEW r \in Dir, NEW d \in Searched(r), NEW t \in ToSet(Tree[d])
  PROVE  t \in Searched(r) <=> ~LeftOut(t) /\ ~Excluded(r, t)
<1>1. d \in Dir /\ IsPrefix(r, d) BY DEF Searched
<1>2. /\ t \in Dir /\ Len(t) = Len(d) + 1 /\ Len(d) \in Nat /\ Above(t, Len(t)) = t
      /\ Last(t) = t[Len(t)] /\ IsPrefix(d, t)
      /\ \A n \in 0..Len(d) : Above(t, n) = Above(d, n)
      /\ \A n \in 1..Len(d) : t[n] = d[n]
  BY <1>1, ChildPath
<1>3. IsPrefix(r, t) BY <1>1, <1>2, PrefixTransitive
<1>4. Len(r) \in Nat /\ Len(r) <= Len(d) BY <1>1, Paths, PrefixIs
<1>5. ASSUME NEW n \in (Len(r) + 1)..Len(d)
      PROVE  t[n] \notin NeverEnter /\ ~Excluded(r, Above(t, n))
  <2>1. n \in 0..Len(d) /\ n \in 1..Len(d) BY <1>2, <1>4
  <2> QED BY <1>2, <2>1 DEF Searched
<1>6. /\ \A n \in (Len(r) + 1)..Len(t) : n \in (Len(r) + 1)..Len(d) \/ n = Len(t)
      /\ Len(t) \in (Len(r) + 1)..Len(t)
  BY <1>2, <1>4
<1>7. t \in Searched(r) <=> t[Len(t)] \notin NeverEnter /\ ~Excluded(r, Above(t, Len(t)))
  BY <1>2, <1>3, <1>5, <1>6 DEF Searched
<1> QED BY <1>2, <1>7 DEF LeftOut

LEMMA SearchedIs ==
  ASSUME NEW r \in Dir, NEW t \in Dir, Len(r) < Len(t), NEW d \in Searched(r), IsPrefix(t, d)
  PROVE  ~LeftOut(t) /\ ~Excluded(r, t)
<1>1. d \in Dir BY DEF Searched
<1>2. /\ Len(t) \in Nat /\ Len(d) \in Nat /\ Len(t) <= Len(d) /\ Above(d, Len(t)) = t
      /\ \A n \in 1..Len(t) : d[n] = t[n]
  BY <1>1, BelowPath
<1>3. Len(r) \in Nat BY Paths
<1>4. Len(t) \in (Len(r) + 1)..Len(d) /\ Len(t) \in 1..Len(t) BY <1>2, <1>3
<1>5. d[Len(t)] \notin NeverEnter /\ ~Excluded(r, Above(d, Len(t))) BY <1>4 DEF Searched
<1> QED BY <1>2, <1>4, <1>5 DEF LeftOut, Last

LEMMA SearchedSelf ==
  ASSUME NEW r \in Dir
  PROVE  r \in Searched(r)
<1>1. Len(r) \in Nat /\ IsPrefix(r, r) BY Paths, PrefixIs
<1>2. (Len(r) + 1)..Len(r) = {} BY <1>1
<1> QED BY <1>1, <1>2 DEF Searched

-----------------------------------------------------------------------------
(* The type invariant.                                                      *)
Dirs(fs) == {fs[i].dir : i \in DOMAIN fs}

\* The stack of patterns, for the directories ds on the way.
PatternStack(ds, force) ==
  /\ force \in Seq(Dir)
  /\ ToSet(force) = {d \in ds : ignore[d] # <<>>}
  /\ \A i, j \in DOMAIN force : i < j => IsStrictPrefix(force[i], force[j])

LEMMA StrictIs ==
  ASSUME NEW c \in Dir, NEW d \in Dir
  PROVE  IsStrictPrefix(c, d) => Len(c) < Len(d) /\ ~IsStrictPrefix(d, c)
<1>1. Len(c) \in Nat /\ Len(d) \in Nat /\ Above(c, Len(c)) = c /\ Above(d, Len(d)) = d BY Paths
<1>2. IsStrictPrefix(c, d) => Len(c) <= Len(d) /\ Above(d, Len(c)) = c /\ c # d
  BY PrefixIs DEF IsStrictPrefix
<1>3. IsStrictPrefix(d, c) => Len(d) <= Len(c) /\ Above(c, Len(d)) = d /\ c # d
  BY PrefixIs DEF IsStrictPrefix
<1> QED BY <1>1, <1>2, <1>3

LEMMA ForceMore ==
  ASSUME NEW ds, NEW force, PatternStack(ds, force), NEW t \in Dir, \A d \in ds : IsStrictPrefix(d, t)
  PROVE  PatternStack(ds \cup {t}, IF ignore[t] = <<>> THEN force ELSE Append(force, t))
<1>1. CASE ignore[t] = <<>>
  <2>1. {d \in ds \cup {t} : ignore[d] # <<>>} = {d \in ds : ignore[d] # <<>>} BY <1>1
  <2> QED BY <1>1, <2>1 DEF PatternStack
<1>2. CASE ignore[t] # <<>>
  <2> DEFINE new == Append(force, t)
             n == Len(force)
  <2>1. n \in Nat /\ DOMAIN force = 1..n /\ force \in Seq(Dir) BY DEF PatternStack
  <2>2. /\ new \in Seq(Dir) /\ DOMAIN new = 1..(n + 1)
        /\ \A i \in 1..n : new[i] = force[i]
        /\ new[n + 1] = t
    <3>1. /\ new \in Seq(Dir) /\ Len(new) = n + 1 /\ \A i \in 1..n : new[i] = force[i]
          /\ new[n + 1] = t
      BY <2>1, AppendProperties
    <3> QED BY <3>1
  <2> HIDE DEF new
  <2>3. \A i \in 1..(n + 1) : i \in 1..n \/ i = n + 1 BY <2>1
  <2>4. ToSet(new) = ToSet(force) \cup {t}
    <3>1. ASSUME NEW x \in ToSet(new) PROVE x \in ToSet(force) \cup {t}
      BY <2>1, <2>2, <2>3 DEF ToSet
    <3>2. 1..n \subseteq 1..(n + 1) /\ n + 1 \in 1..(n + 1) BY <2>1
    <3>3. ASSUME NEW x \in ToSet(force) \cup {t} PROVE x \in ToSet(new)
      BY <2>1, <2>2, <3>2 DEF ToSet
    <3> QED BY <3>1, <3>3
  <2>5. ToSet(new) = {d \in ds \cup {t} : ignore[d] # <<>>} BY <1>2, <2>4 DEF PatternStack
  <2>6. ASSUME NEW i \in 1..(n + 1), NEW j \in 1..(n + 1), i < j
        PROVE  IsStrictPrefix(new[i], new[j])
    <3>1. i \in 1..n BY <2>1, <2>6
    <3>2. CASE j \in 1..n BY <2>1, <2>2, <2>6, <3>1, <3>2 DEF PatternStack
    <3>3. CASE j = n + 1
      <4>1. force[i] \in ToSet(force) BY <2>1, <3>1 DEF ToSet
      <4>2. force[i] \in ds BY <4>1 DEF PatternStack
      <4> QED BY <2>2, <3>1, <3>3, <4>2
    <3> QED BY <2>3, <3>2, <3>3
  <2>7. PatternStack(ds \cup {t}, new) BY <2>2, <2>5, <2>6 DEF PatternStack
  <2> QED BY <1>2, <2>7 DEF new
<1> QED BY <1>1, <1>2

LEMMA ForceLess ==
  ASSUME NEW ds \in SUBSET Dir, NEW t \in Dir, NEW force, PatternStack(ds \cup {t}, force),
         \A d \in ds : IsStrictPrefix(d, t)
  PROVE  PatternStack(ds, IF ignore[t] = <<>> THEN force ELSE Front(force))
<1>1. CASE ignore[t] = <<>>
  <2>1. {d \in ds \cup {t} : ignore[d] # <<>>} = {d \in ds : ignore[d] # <<>>} BY <1>1
  <2> QED BY <1>1, <2>1 DEF PatternStack
<1>2. CASE ignore[t] # <<>>
  <2> DEFINE n == Len(force)
             new == Front(force)
  <2>1. /\ force \in Seq(Dir) /\ \A x : x \in ToSet(force) <=> x \in ds \cup {t} /\ ignore[x] # <<>>
        /\ \A i, j \in DOMAIN force : i < j => IsStrictPrefix(force[i], force[j])
    BY DEF PatternStack
  <2>2. t \in ToSet(force) BY <1>2, <2>1
  <2>3. PICK k \in DOMAIN force : force[k] = t BY <2>2 DEF ToSet
  <2>4. force # <<>> BY <2>3
  <2>5. /\ n \in Nat /\ n \in 1..n /\ DOMAIN force = 1..n
        /\ new \in Seq(Dir) /\ DOMAIN new = 1..(n - 1)
        /\ \A i \in 1..(n - 1) : new[i] = force[i]
    BY <2>1, <2>4, FrontIs
  <2> HIDE DEF n, new
  <2>6. ~IsStrictPrefix(t, t) /\ t \notin ds BY StrictIs DEF IsStrictPrefix
  <2>7. k = n
    <3>1. SUFFICES ASSUME k < n PROVE FALSE BY <2>3, <2>5
    <3>2. IsStrictPrefix(t, force[n]) BY <2>1, <2>3, <2>5, <3>1
    <3>3. force[n] \in ToSet(force) BY <2>5 DEF ToSet
    <3>4. force[n] \in ds BY <2>1, <2>6, <3>2, <3>3
    <3> QED BY <3>2, <3>4, StrictIs
  <2>8. \A i \in 1..(n - 1) : i \in 1..n /\ i < n BY <2>5
  <2>9. ASSUME NEW x \in ToSet(new) PROVE x \in ds /\ ignore[x] # <<>>
    <3>1. PICK i \in 1..(n - 1) : x = force[i] BY <2>5, <2>9 DEF ToSet
    <3>2. IsStrictPrefix(x, t) BY <2>1, <2>3, <2>5, <2>7, <2>8, <3>1
    <3>3. x \in ToSet(force) BY <2>5, <2>8, <3>1 DEF ToSet
    <3> QED BY <2>1, <2>6, <3>2, <3>3
  <2>10. ASSUME NEW x \in ds, ignore[x] # <<>> PROVE x \in ToSet(new)
    <3>1. x \in ToSet(force) BY <2>1, <2>10
    <3>2. PICK i \in DOMAIN force : x = force[i] BY <3>1 DEF ToSet
    <3>3. i # n BY <2>3, <2>6, <2>7, <3>2
    <3>4. i \in 1..(n - 1) BY <2>5, <3>3
    <3> QED BY <2>5, <3>2, <3>4 DEF ToSet
  <2>11. ToSet(new) = {d \in ds : ignore[d] # <<>>} BY <2>9, <2>10
  <2>12. \A i, j \in DOMAIN new : i < j => IsStrictPrefix(new[i], new[j]) BY <2>1, <2>5, <2>8
  <2>13. PatternStack(ds, new) BY <2>5, <2>11, <2>12 DEF PatternStack
  <2> QED BY <1>2, <2>13 DEF new
<1> QED BY <1>1, <1>2

LEMMA DirsOfRest ==
  ASSUME Walk(frames), frames # <<>>, Top.todo # <<>>
  PROVE  Dirs(Rest) = Dirs(frames) /\ Rest # <<>>
<1>1. Walk(Rest) /\ Len(Rest) = Len(frames) /\ \A i \in DOMAIN frames : Rest[i].dir = frames[i].dir
  BY RestIs
<1>2. DOMAIN Rest = DOMAIN frames BY <1>1, WalkIs
<1>3. frames \in Seq([dir : Dir, todo : Seq(Dir)]) BY DEF Walk
<1>4. Len(frames) # 0 BY <1>3
<1>5. Rest # <<>> BY <1>1, <1>4
<1> QED BY <1>1, <1>2, <1>5 DEF Dirs

LEMMA DirsOfPush ==
  ASSUME NEW fs, Walk(fs), NEW t \in Dir, fs # <<>> => t \in ToSet(Tree[fs[Len(fs)].dir])
  PROVE  Dirs(Append(fs, Frame(t))) = Dirs(fs) \cup {t}
<1> DEFINE n == Len(fs)
           new == Append(fs, Frame(t))
<1>1. Walk(new) /\ Len(new) = n + 1 /\ (\A i \in DOMAIN fs : new[i].dir = fs[i].dir)
      /\ new[n + 1].dir = t
  BY PushIs
<1>2. n \in Nat /\ DOMAIN fs = 1..n BY WalkIs
<1> HIDE DEF new, n
<1>3. DOMAIN new = 1..(n + 1) BY <1>1, WalkIs
<1>4. 1..(n + 1) = (1..n) \cup {n + 1} BY <1>2
<1>5. ASSUME NEW x \in Dirs(new) PROVE x \in Dirs(fs) \cup {t}
  BY <1>1, <1>2, <1>3, <1>4 DEF Dirs
<1>6. ASSUME NEW x \in Dirs(fs) \cup {t} PROVE x \in Dirs(new)
  BY <1>1, <1>2, <1>3, <1>4 DEF Dirs
<1>7. Dirs(new) = Dirs(fs) \cup {t} BY <1>5, <1>6
<1> QED BY <1>7 DEF new

LEMMA DirsOfPop ==
  ASSUME Walk(frames), frames # <<>>, Top.todo = <<>>
  PROVE  /\ Dirs(frames) = Dirs(Front(frames)) \cup {Top.dir}
         /\ Dirs(Front(frames)) \in SUBSET Dir /\ Top.dir \in Dir
         /\ \A d \in Dirs(Front(frames)) : IsStrictPrefix(d, Top.dir)
<1> DEFINE n == Len(frames)
           new == Front(frames)
<1>1. /\ Walk(new) /\ Len(new) = n - 1
      /\ \A i \in DOMAIN new : i \in DOMAIN frames /\ new[i] = frames[i]
  BY PopIs
<1>2. /\ n \in Nat /\ n \in 1..n /\ DOMAIN frames = 1..n
      /\ \A i \in DOMAIN frames : frames[i].dir \in Dir
  BY WalkIs
<1>3. Top = frames[n] BY DEF Top, Last
<1> HIDE DEF new, n
<1>4. DOMAIN new = 1..(n - 1) BY <1>1, WalkIs
<1>5. 1..n = (1..(n - 1)) \cup {n} BY <1>2
<1>6. Dirs(frames) = Dirs(new) \cup {Top.dir}
  <2>1. ASSUME NEW x \in Dirs(frames) PROVE x \in Dirs(new) \cup {Top.dir}
    BY <1>1, <1>2, <1>3, <1>4, <1>5, <2>1 DEF Dirs
  <2>2. ASSUME NEW x \in Dirs(new) \cup {Top.dir} PROVE x \in Dirs(frames)
    BY <1>1, <1>2, <1>3, <1>4, <1>5, <2>2 DEF Dirs
  <2> QED BY <2>1, <2>2
<1>7. ASSUME NEW i \in 1..(n - 1) PROVE IsStrictPrefix(frames[i].dir, Top.dir)
  <2>1. i \in 1..n /\ i <= n /\ i # n /\ n - i # 0 BY <1>2
  <2>2. IsPrefix(frames[i].dir, frames[n].dir)
        /\ Len(frames[n].dir) = Len(frames[i].dir) + (n - i)
    BY <1>2, <2>1, WayDown
  <2>3. Len(frames[i].dir) \in Nat BY <1>2, <2>1, Paths
  <2>4. frames[i].dir # frames[n].dir
    <3>1. Len(frames[n].dir) # Len(frames[i].dir) BY <1>2, <2>1, <2>2, <2>3
    <3> QED BY <3>1
  <2> QED BY <1>3, <2>2, <2>4 DEF IsStrictPrefix
<1>8. \A x \in Dirs(new) : \E i \in 1..(n - 1) : x = frames[i].dir
  BY <1>1, <1>4 DEF Dirs
<1>9. Dirs(new) \in SUBSET Dir BY <1>1, <1>2, <1>4, <1>8
<1>10. \A x \in Dirs(new) : IsStrictPrefix(x, Top.dir) BY <1>7, <1>8
<1> QED BY <1>2, <1>3, <1>6, <1>9, <1>10 DEF new

\* The directories on the way to one that Tree lists are above it.
LEMMA DirsAbove ==
  ASSUME Walk(frames), frames # <<>>, NEW t \in ToSet(Tree[Top.dir])
  PROVE  \A d \in Dirs(frames) : IsStrictPrefix(d, t)
<1>1. /\ t \in Dir /\ Len(t) = Len(frames[1].dir) + Len(frames)
      /\ \A i \in DOMAIN frames : /\ Len(frames[i].dir) = Len(frames[1].dir) + (i - 1)
                                  /\ IsPrefix(frames[i].dir, t)
  BY OnTheWay
<1>2. Len(frames) \in Nat /\ DOMAIN frames = 1..Len(frames) /\ Len(frames[1].dir) \in Nat
  BY WalkIs, Paths
<1>3. ASSUME NEW i \in DOMAIN frames PROVE IsStrictPrefix(frames[i].dir, t)
  <2>1. Len(frames[i].dir) # Len(t) BY <1>1, <1>2
  <2>2. frames[i].dir # t BY <2>1
  <2> QED BY <1>1, <2>2 DEF IsStrictPrefix
<1> QED BY <1>3 DEF Dirs

LEMMA TypeIs ==
  ScanTypeOK <=> /\ repos \subseteq Dir /\ ignore \in [Dir -> Seq(Pattern)]
                 /\ phase \in {"roots", "files", "done", "failed"}
                 /\ Walk(frames)
                 /\ PatternStack(IF phase = "files" THEN Dirs(frames) ELSE {}, inForce)
                 /\ roots \subseteq repos
                 /\ envFiles \subseteq repos \X Dir \X File
<1>1. CASE phase = "files" BY <1>1 DEF ScanTypeOK, Walk, PatternStack, Dirs
<1>2. CASE phase # "files"
  <2>1. ToSet(inForce) = {} <=> ToSet(inForce) = {d \in {} : ignore[d] # <<>>} OBVIOUS
  <2> QED BY <1>2, <2>1 DEF ScanTypeOK, Walk, PatternStack, Dirs
<1> QED BY <1>1, <1>2

LEMMA TypeNext ==
  ASSUME ScanTypeOK, UNCHANGED <<repos, ignore>>,
         phase' \in {"roots", "files", "done", "failed"}, Walk(frames'),
         PatternStack(IF phase' = "files" THEN Dirs(frames') ELSE {}, inForce'),
         roots' \subseteq repos, envFiles' \subseteq repos \X Dir \X File
  PROVE  ScanTypeOK'
<1>1. repos' \subseteq Dir /\ ignore' \in [Dir -> Seq(Pattern)] BY DEF ScanTypeOK
<1>2. ToSet(inForce') = {d \in IF phase' = "files" THEN Dirs(frames') ELSE {} : ignore'[d] # <<>>}
  BY DEF PatternStack
<1>3. CASE phase' = "files" BY <1>1, <1>2, <1>3 DEF ScanTypeOK, Walk, PatternStack, Dirs
<1>4. CASE phase' # "files"
  <2>1. ToSet(inForce') = {} BY <1>2, <1>4
  <2> QED BY <1>1, <1>4, <2>1 DEF ScanTypeOK, Walk, PatternStack
<1> QED BY <1>3, <1>4

LEMMA NothingInForce == Walk(<<>>) /\ Dirs(<<>>) = {} /\ PatternStack({}, <<>>)
BY DEF Walk, PatternStack, Dirs, ToSet

LEMMA TypeInit == ScanInit => ScanTypeOK
<1> SUFFICES ASSUME ScanInit PROVE ScanTypeOK OBVIOUS
<1>1. ScanRoot \in Dir BY TreeAssumption
<1>2. Walk(<<>>) /\ PatternStack({}, <<>>) BY NothingInForce
<1>3. Walk(<<Frame(ScanRoot)>>)
  <2>1. Walk(Append(<<>>, Frame(ScanRoot))) BY <1>1, <1>2, PushIs
  <2> QED BY <2>1
<1>4. Walk(frames) BY <1>2, <1>3 DEF ScanInit
<1> QED BY <1>2, <1>4, TypeIs DEF ScanInit

LEMMA EnterType ==
  ASSUME ScanTypeOK, UNCHANGED <<repos, ignore>>, phase' = "files", NEW repo \in repos,
         NEW fs, Walk(fs), NEW force, PatternStack(Dirs(fs), force), NEW t \in Dir,
         fs # <<>> => t \in ToSet(Tree[fs[Len(fs)].dir]),
         \A d \in Dirs(fs) : IsStrictPrefix(d, t),
         Enter(repo, t, fs, force), roots' \subseteq repos
  PROVE  ScanTypeOK'
<1>1. Walk(frames') /\ Dirs(frames') = Dirs(fs) \cup {t} BY PushIs, DirsOfPush DEF Enter
<1>2. PatternStack(Dirs(frames'), inForce')
  <2>1. PatternStack(Dirs(fs) \cup {t}, IF ignore[t] = <<>> THEN force ELSE Append(force, t))
    BY ForceMore
  <2>2. inForce' = IF ignore[t] = <<>> THEN force ELSE Append(force, t) BY DEF Enter
  <2> QED BY <1>1, <2>1, <2>2
<1>3. envFiles' \subseteq repos \X Dir \X File
  <2>1. envFiles \subseteq repos \X Dir \X File BY DEF ScanTypeOK
  <2>2. envFiles' = envFiles \cup {<<repo, t, f>> : f \in {g \in File : IsEnvFileName(g)}}
    BY DEF Enter
  <2> QED BY <2>1, <2>2
<1> QED BY <1>1, <1>2, <1>3, TypeNext

\* The walk for env files starts at a repository.
Rooted == phase = "files" /\ frames # <<>> => frames[1].dir \in repos

LEMMA TypeStep == ScanTypeOK /\ Rooted /\ [ScanNext]_scanVars => ScanTypeOK'
<1> SUFFICES ASSUME ScanTypeOK, Rooted, [ScanNext]_scanVars PROVE ScanTypeOK' OBVIOUS
<1>1. /\ repos \subseteq Dir /\ Walk(frames) /\ roots \subseteq repos
      /\ PatternStack(IF phase = "files" THEN Dirs(frames) ELSE {}, inForce)
      /\ envFiles \subseteq repos \X Dir \X File
      /\ phase \in {"roots", "files", "done", "failed"}
  BY TypeIs
<1>2. ASSUME frames # <<>>
      PROVE  /\ Top = frames[Len(frames)] /\ Top.dir \in Dir /\ Len(frames) \in Nat
             /\ frames[1].dir \in Dir /\ 1 \in DOMAIN frames
  BY <1>1, <1>2, WalkIs DEF Top, Last
<1>3. CASE NextDir
  <2> DEFINE d == Head(Top.todo)
  <2>1. Walk(Rest) /\ Len(Rest) = Len(frames) /\ d \in ToSet(Tree[Top.dir])
        /\ \A i \in DOMAIN frames : Rest[i].dir = frames[i].dir
    BY <1>1, <1>3, RestIs DEF NextDir
  <2>2. d \in Dir /\ d \in ToSet(Tree[Rest[Len(Rest)].dir])
    BY <1>1, <1>2, <1>3, <2>1, ChildIs, WalkIs DEF NextDir
  <2>3. Walk(Append(Rest, Frame(d))) BY <2>1, <2>2, PushIs
  <2>4. Walk(frames') BY <1>3, <2>1, <2>3 DEF NextDir
  <2>5. roots' \subseteq repos BY <1>1, <1>3 DEF NextDir
  <2> QED BY <1>1, <1>3, <2>4, <2>5, TypeNext DEF NextDir
<1>4. CASE LeaveDir
  <2>1. Walk(frames') BY <1>1, <1>4, PopIs DEF LeaveDir
  <2> QED BY <1>1, <1>4, <2>1, TypeNext DEF LeaveDir
<1>5. CASE NextRepo
  <2>1. PatternStack({}, inForce) BY <1>1, <1>5, NothingInForce DEF NextRepo
  <2>2. CASE roots = {} BY <1>1, <1>5, <2>1, <2>2, TypeNext DEF NextRepo
  <2>3. CASE roots # {}
    <3>1. PICK r \in roots : phase' = "files" /\ roots' = roots \ {r} /\ Enter(r, r, <<>>, <<>>)
      BY <1>5, <2>3 DEF NextRepo
    <3>2. r \in repos /\ r \in Dir /\ roots' \subseteq repos BY <1>1, <3>1
    <3>3. UNCHANGED <<repos, ignore>> BY <1>5 DEF NextRepo
    <3>4. Walk(<<>>) /\ Dirs(<<>>) = {} /\ PatternStack(Dirs(<<>>), <<>>) BY NothingInForce
    <3> QED BY <3>1, <3>2, <3>3, <3>4, EnterType
  <2> QED BY <2>2, <2>3
<1>6. CASE WalkDir
  <2> DEFINE d == Head(Top.todo)
  <2>1. /\ Walk(Rest) /\ Len(Rest) = Len(frames) /\ d \in ToSet(Tree[Top.dir])
        /\ \A i \in DOMAIN frames : Rest[i].dir = frames[i].dir
    BY <1>1, <1>6, RestIs DEF WalkDir
  <2>2. Dirs(Rest) = Dirs(frames) /\ frames # <<>> /\ phase = "files"
    BY <1>1, <1>6, DirsOfRest DEF WalkDir
  <2>3. PatternStack(Dirs(Rest), inForce) BY <1>1, <2>2
  <2>4. d \in Dir /\ d \in ToSet(Tree[Rest[Len(Rest)].dir])
    BY <1>1, <1>2, <2>1, <2>2, ChildIs, WalkIs
  <2>5. \A c \in Dirs(Rest) : IsStrictPrefix(c, d) BY <1>1, <2>1, <2>2, DirsAbove
  <2>6. UNCHANGED <<repos, ignore, phase, roots>> BY <1>6 DEF WalkDir
  <2>7. CASE frames' = Rest /\ UNCHANGED <<inForce, envFiles>>
    BY <1>1, <2>1, <2>2, <2>3, <2>6, <2>7, TypeNext
  <2>8. CASE Enter(frames[1].dir, d, Rest, inForce)
    <3>1. frames[1].dir \in repos BY <2>2 DEF Rooted
    <3> QED BY <1>1, <2>1, <2>2, <2>3, <2>4, <2>5, <2>6, <2>8, <3>1, EnterType
  <2> QED BY <1>6, <2>7, <2>8 DEF WalkDir
<1>7. CASE Return
  <2>1. Walk(Front(frames)) BY <1>1, <1>7, PopIs DEF Return
  <2>2. /\ Dirs(frames) = Dirs(Front(frames)) \cup {Top.dir}
        /\ Dirs(Front(frames)) \in SUBSET Dir /\ Top.dir \in Dir
        /\ \A d \in Dirs(Front(frames)) : IsStrictPrefix(d, Top.dir)
    BY <1>1, <1>7, DirsOfPop DEF Return
  <2>3. PatternStack(Dirs(frames), inForce) BY <1>1, <1>7 DEF Return
  <2>4. PatternStack(Dirs(Front(frames)), IF ignore[Top.dir] = <<>> THEN inForce ELSE Front(inForce))
    BY <2>2, <2>3, ForceLess
  <2> QED BY <1>1, <1>7, <2>1, <2>4, TypeNext DEF Return
<1>8. CASE Unreadable
  BY <1>1, <1>8, NothingInForce, TypeNext DEF Unreadable
<1>9. CASE UNCHANGED scanVars
  BY <1>1, <1>9, TypeNext DEF scanVars
<1> QED BY <1>3, <1>4, <1>5, <1>6, <1>7, <1>8, <1>9 DEF ScanNext

-----------------------------------------------------------------------------
(* The walks.                                                               *)
FoundIn(r, d) == {r} \X {d} \X (File \cap Accepted)
Wanted == UNION {{r} \X Searched(r) \X (File \cap Accepted) : r \in Outermost}

\* No repository is found inside another, and each is found or still to come.
RootsInv ==
  /\ envFiles = {}
  /\ \A d \in Dirs(frames) : Open(d)
  /\ \A r \in Outermost : r \in roots \/ Pending(frames, r)

\* The walk is in directories that are searched, and each directory that is
\* searched of the repositories taken so far is done with or still to come.
FilesInv ==
  /\ frames # <<>> => frames[1].dir \in Outermost \ roots
  /\ Dirs(frames) \subseteq Searched(frames[1].dir)
  /\ envFiles \subseteq Wanted
  /\ \A r \in Outermost \ roots : \A d \in Searched(r) :
       \/ FoundIn(r, d) \subseteq envFiles
       \/ frames # <<>> /\ r = frames[1].dir /\ Pending(frames, d)

ScanInv == /\ ScanTypeOK
           /\ phase # "failed" => roots \subseteq Outermost
           /\ phase = "roots" => RootsInv
           /\ phase = "files" => FilesInv
           /\ FindsEnvFiles

LEMMA SameTree ==
  ASSUME UNCHANGED <<repos, ignore>>
  PROVE  /\ Outermost' = Outermost /\ Wanted' = Wanted
         /\ \A r : Searched(r)' = Searched(r)
         /\ \A d : Open(d)' = Open(d)
<1>1. Outermost' = Outermost BY DEF Outermost
<1>2. ASSUME NEW r, NEW d PROVE Excluded(r, d)' <=> Excluded(r, d) BY DEF Excluded
<1>3. ASSUME NEW r PROVE Searched(r)' = Searched(r) BY <1>2 DEF Searched
<1>4. \A d : Open(d)' = Open(d) BY DEF Open
<1>5. Wanted' = Wanted BY <1>1, <1>3 DEF Wanted
<1> QED BY <1>1, <1>3, <1>4, <1>5

\* The scan root is above every directory.
LEMMA RootIs ==
  /\ ScanRoot \in Dir /\ Len(ScanRoot) = 0
  /\ \A d \in Dir : /\ IsPrefix(ScanRoot, d) /\ Above(d, 0) = ScanRoot
                    /\ Len(d) = 0 => d = ScanRoot
<1>1. ScanRoot \in Dir /\ Len(ScanRoot) = 0 BY TreeAssumption DEF ScanRoot
<1>2. ASSUME NEW d \in Dir PROVE Above(d, 0) = ScanRoot
  <2>1. Above(d, 0) \in Dir /\ Len(Above(d, 0)) = 0 BY Paths
  <2>2. Above(d, 0) \in Seq(STRING) BY <2>1, Paths
  <2>3. Above(d, 0) = <<>> BY <2>1, <2>2
  <2> QED BY <2>3 DEF ScanRoot
<1>3. ASSUME NEW d \in Dir PROVE IsPrefix(ScanRoot, d)
  <2>1. Len(d) \in Nat BY Paths
  <2> QED BY <1>1, <1>2, <2>1, PrefixIs
<1>4. ASSUME NEW d \in Dir, Len(d) = 0 PROVE d = ScanRoot
  <2>1. Above(d, Len(d)) = d BY Paths
  <2> QED BY <1>2, <1>4, <2>1
<1> QED BY <1>1, <1>2, <1>3, <1>4

LEMMA NothingPending == \A d : ~Pending(<<>>, d)
BY DEF Pending

LEMMA FindsIs == FindsEnvFiles <=> (phase = "done" => envFiles = Wanted)
BY DEF FindsEnvFiles, Wanted

LEMMA ScanInvInit == ScanInit => ScanInv
<1> SUFFICES ASSUME ScanInit PROVE ScanInv OBVIOUS
<1>1. ScanTypeOK BY TypeInit
<1>2. repos \subseteq Dir /\ phase = "roots" /\ envFiles = {} /\ roots = repos \cap {ScanRoot}
  BY DEF ScanInit
<1>3. roots \subseteq Outermost
  <2> SUFFICES ASSUME ScanRoot \in repos PROVE ScanRoot \in Outermost BY <1>2
  <2>1. \A n \in 0..Len(ScanRoot) : ~(n < Len(ScanRoot)) /\ ~(n > 0) BY RootIs
  <2> QED BY <2>1 DEF Outermost
<1>4. CASE ScanRoot \in repos
  <2>1. frames = <<>> BY <1>4 DEF ScanInit
  <2>2. ASSUME NEW r \in Outermost PROVE r \in roots
    <3>1. r \in repos /\ r \in Dir /\ Len(r) \in Nat BY <1>2, Paths DEF Outermost
    <3>2. 0 \in 0..Len(r) /\ Above(r, 0) \in repos BY <1>4, <3>1, RootIs
    <3>3. ~(0 < Len(r)) BY <3>2 DEF Outermost
    <3>4. Len(r) = 0 BY <3>1, <3>3
    <3> QED BY <1>2, <1>4, <3>1, <3>4, RootIs
  <2>3. RootsInv BY <1>2, <2>1, <2>2, NothingInForce DEF RootsInv
  <2> QED BY <1>1, <1>2, <1>3, <2>3 DEF ScanInv, FindsEnvFiles
<1>5. CASE ScanRoot \notin repos
  <2>1. frames = Append(<<>>, Frame(ScanRoot))
    <3>1. frames = <<Frame(ScanRoot)>> BY <1>5 DEF ScanInit
    <3> QED BY <3>1
  <2>2. ScanRoot \in Dir /\ Walk(<<>>) /\ Dirs(<<>>) = {} BY RootIs, NothingInForce
  <2>3. \A d \in Dir : IsPrefix(ScanRoot, d) /\ d # ScanRoot => Pending(frames, d)
    BY <2>1, <2>2, PushIs
  <2>4. \A r \in Outermost : Pending(frames, r) BY <1>2, <1>5, <2>3, RootIs DEF Outermost
  <2>5. Dirs(frames) = {ScanRoot}
    <3>1. Dirs(frames) = Dirs(<<>>) \cup {ScanRoot} BY <2>1, <2>2, DirsOfPush
    <3> QED BY <2>2, <3>1
  <2>6. Open(ScanRoot)
    <3>1. \A n \in 0..Len(ScanRoot) : n = 0 BY RootIs
    <3> QED BY <1>5, <2>2, <3>1, RootIs DEF Open
  <2>7. RootsInv BY <1>2, <2>4, <2>5, <2>6 DEF RootsInv
  <2> QED BY <1>1, <1>2, <1>3, <2>7 DEF ScanInv, FindsEnvFiles
<1> QED BY <1>4, <1>5

LEMMA EnterFinds ==
  ASSUME NEW repo, NEW t, NEW fs, NEW force, Enter(repo, t, fs, force)
  PROVE  frames' = Append(fs, Frame(t)) /\ envFiles' = envFiles \cup FoundIn(repo, t)
<1>1. {g \in File : IsEnvFileName(g)} = File \cap Accepted BY TreeAssumption, NameIs
<1>2. envFiles' = envFiles \cup {<<repo, t, f>> : f \in File \cap Accepted}
  BY <1>1 DEF Enter
<1>3. {<<repo, t, f>> : f \in File \cap Accepted} = FoundIn(repo, t) BY DEF FoundIn
<1> QED BY <1>2, <1>3 DEF Enter

LEMMA RootsStep ==
  ASSUME ScanInv, NextDir \/ LeaveDir
  PROVE  phase = "roots" /\ UNCHANGED <<repos, ignore, phase>> /\ roots' \subseteq Outermost
         /\ RootsInv'
<1>1. /\ repos \subseteq Dir /\ Walk(frames) /\ phase = "roots" /\ RootsInv
      /\ roots \subseteq Outermost /\ frames # <<>> /\ UNCHANGED <<repos, ignore, phase, envFiles>>
  BY TypeIs DEF ScanInv, NextDir, LeaveDir
<1>2. Outermost' = Outermost /\ \A d : Open(d)' = Open(d) BY <1>1, SameTree
<1>3. Top.dir \in Dir /\ Top.dir \in Dirs(frames) BY <1>1, WalkIs DEF Top, Last, Dirs
<1>4. SUFFICES /\ \A d \in Dirs(frames') : Open(d)
               /\ \A r \in Outermost : r \in roots' \/ Pending(frames', r)
               /\ roots' \subseteq Outermost
  BY <1>1, <1>2 DEF RootsInv, Dirs, Pending
<1>5. /\ \A d \in Dirs(frames) : Open(d)
      /\ \A r \in Outermost : r \in roots \/ Pending(frames, r)
  BY <1>1 DEF RootsInv
<1>6. CASE NextDir
  <2> DEFINE d == Head(Top.todo)
  <2>1. /\ Walk(Rest) /\ d \in ToSet(Tree[Top.dir]) /\ Len(Rest) = Len(frames)
        /\ \A i \in DOMAIN frames : Rest[i].dir = frames[i].dir
        /\ \A x : Pending(frames, x) => Pending(Rest, x) \/ IsPrefix(d, x)
    BY <1>1, <1>6, RestIs DEF NextDir
  <2>2. Dirs(Rest) = Dirs(frames) BY <1>1, <1>6, DirsOfRest DEF NextDir
  <2>3. d \in Dir /\ Len(d) > 0
    <3>1. d \in Dir /\ Len(d) = Len(Top.dir) + 1 /\ Len(Top.dir) \in Nat
      BY <1>3, <2>1, ChildPath
    <3> QED BY <3>1
  <2>4. ~LeftOut(d) => IF d \in repos THEN d \in Outermost ELSE Open(d)
    BY <1>1, <1>3, <1>5, <2>1, OpenStep
  <2>5. \A r \in Outermost : IsPrefix(d, r) => ~LeftOut(d) /\ (d \in repos => r = d)
    BY <1>1, <2>3, OutermostIs
  <2> HIDE DEF d
  <2>6. CASE ~LeftOut(d) /\ d \in repos
    <3>1. roots' = roots \cup {d} /\ frames' = Rest BY <1>6, <2>6 DEF NextDir, d
    <3> QED BY <1>1, <1>5, <2>1, <2>2, <2>4, <2>5, <2>6, <3>1
  <2>7. CASE LeftOut(d)
    <3>1. roots' = roots /\ frames' = Rest BY <1>6, <2>7 DEF NextDir, d
    <3> QED BY <1>1, <1>5, <2>1, <2>2, <2>5, <2>7, <3>1
  <2>8. CASE ~LeftOut(d) /\ d \notin repos
    <3>1. roots' = roots /\ frames' = Append(Rest, Frame(d)) BY <1>6, <2>8 DEF NextDir, d
    <3>2. d \in ToSet(Tree[Rest[Len(Rest)].dir]) BY <1>1, <2>1, WalkIs DEF Top, Last
    <3>3. Dirs(frames') = Dirs(frames) \cup {d} BY <2>1, <2>2, <2>3, <3>1, <3>2, DirsOfPush
    <3>4. /\ \A x : Pending(Rest, x) => Pending(frames', x)
          /\ \A x \in Dir : IsPrefix(d, x) /\ x # d => Pending(frames', x)
      BY <2>1, <2>3, <3>1, <3>2, PushIs
    <3>5. \A r \in Outermost : r \in Dir /\ r # d BY <1>1, <2>8 DEF Outermost
    <3> QED BY <1>1, <1>5, <2>1, <2>4, <2>8, <3>1, <3>3, <3>4, <3>5
  <2> QED BY <2>6, <2>7, <2>8
<1>7. CASE LeaveDir
  <2>1. /\ frames' = Front(frames) /\ roots' = roots
        /\ \A d : Pending(frames, d) => Pending(frames', d)
    BY <1>1, <1>7, PopIs DEF LeaveDir
  <2>2. Dirs(frames') \subseteq Dirs(frames) BY <1>1, <1>7, DirsOfPop DEF LeaveDir
  <2> QED BY <1>1, <1>5, <2>1, <2>2
<1> QED BY <1>1, <1>6, <1>7

LEMMA FilesNext ==
  ASSUME UNCHANGED <<repos, ignore>>,
         frames' # <<>> => frames'[1].dir \in Outermost \ roots',
         Dirs(frames') \subseteq Searched(frames'[1].dir),
         envFiles' \subseteq Wanted,
         \A r \in Outermost \ roots' : \A d \in Searched(r) :
           \/ FoundIn(r, d) \subseteq envFiles'
           \/ frames' # <<>> /\ r = frames'[1].dir /\ Pending(frames', d)
  PROVE  FilesInv'
<1>1. Outermost' = Outermost /\ Wanted' = Wanted /\ \A r : Searched(r)' = Searched(r)
  BY SameTree
<1>2. Searched(frames[1].dir)' = Searched(frames'[1].dir) BY DEF Searched, Excluded
<1> QED BY <1>1, <1>2 DEF FilesInv, Dirs, Pending, FoundIn

\* A repository is done with: all that is wanted of those taken is found.
LEMMA NextRepoStep ==
  ASSUME ScanInv, NextRepo
  PROVE  /\ UNCHANGED <<repos, ignore>> /\ roots' \subseteq Outermost
         /\ phase' = "done" => envFiles' = Wanted
         /\ phase' = "files" => FilesInv'
         /\ phase' \in {"files", "done"}
<1>1. /\ repos \subseteq Dir /\ roots \subseteq Outermost /\ frames = <<>>
      /\ UNCHANGED <<repos, ignore>> /\ phase \in {"roots", "files"}
  BY TypeIs DEF ScanInv, NextRepo
<1>2. /\ envFiles \subseteq Wanted
      /\ \A r \in Outermost \ roots : \A d \in Searched(r) : FoundIn(r, d) \subseteq envFiles
  <2>1. CASE phase = "roots" BY <1>1, <2>1, NothingPending DEF ScanInv, RootsInv
  <2>2. CASE phase = "files" BY <1>1, <2>2 DEF ScanInv, FilesInv
  <2> QED BY <1>1, <2>1, <2>2
<1>3. CASE roots = {}
  <2>1. phase' = "done" /\ envFiles' = envFiles /\ roots' = roots BY <1>3 DEF NextRepo
  <2>2. ASSUME NEW x \in Wanted PROVE x \in envFiles
    <3>1. PICK r \in Outermost : x \in {r} \X Searched(r) \X (File \cap Accepted)
      BY DEF Wanted
    <3>2. PICK d \in Searched(r) : x \in FoundIn(r, d) BY <3>1 DEF FoundIn
    <3> QED BY <1>2, <1>3, <3>2
  <2> QED BY <1>1, <1>2, <2>1, <2>2
<1>4. CASE roots # {}
  <2>1. PICK r \in roots : phase' = "files" /\ roots' = roots \ {r} /\ Enter(r, r, <<>>, <<>>)
    BY <1>4 DEF NextRepo
  <2>2. r \in Outermost /\ r \in Dir BY <1>1 DEF Outermost
  <2>3. frames' = Append(<<>>, Frame(r)) /\ envFiles' = envFiles \cup FoundIn(r, r)
    BY <2>1, EnterFinds
  <2>4. frames' # <<>> /\ frames'[1].dir = r
    BY <2>3, FrameIs, <2>2
  <2>5. Dirs(frames') = {r}
    <3>1. Dirs(frames') = Dirs(<<>>) \cup {r} BY <2>2, <2>3, NothingInForce, DirsOfPush
    <3> QED BY <3>1, NothingInForce
  <2>6. Dirs(frames') \subseteq Searched(r) BY <2>2, <2>5, SearchedSelf
  <2>7. envFiles' \subseteq Wanted
    <3>1. FoundIn(r, r) \subseteq Wanted BY <2>2, SearchedSelf DEF FoundIn, Wanted
    <3> QED BY <1>2, <2>3, <3>1
  <2>8. ASSUME NEW q \in Outermost \ roots', NEW d \in Searched(q)
        PROVE  FoundIn(q, d) \subseteq envFiles' \/ (q = r /\ Pending(frames', d))
    <3>1. CASE q # r BY <1>2, <2>1, <2>3, <3>1
    <3>2. CASE q = r /\ d = r BY <2>3, <3>2
    <3>3. CASE q = r /\ d # r
      <4>1. d \in Dir /\ IsPrefix(r, d) BY <3>3 DEF Searched
      <4>2. Pending(frames', d) BY <2>2, <2>3, <3>3, <4>1, NothingInForce, PushIs
      <4> QED BY <3>3, <4>2
    <3> QED BY <3>1, <3>2, <3>3
  <2>9. FilesInv'
    <3>1. frames'[1].dir \in Outermost \ roots' BY <2>1, <2>2, <2>4
    <3> QED BY <1>1, <2>4, <2>6, <2>7, <2>8, <3>1, FilesNext
  <2> QED BY <1>1, <2>1, <2>9
<1> QED BY <1>3, <1>4

LEMMA WalkStep ==
  ASSUME ScanInv, WalkDir
  PROVE  phase = "files" /\ UNCHANGED <<repos, ignore, phase, roots>> /\ FilesInv'
<1> DEFINE r == frames[1].dir
           d == Head(Top.todo)
<1>1. /\ repos \subseteq Dir /\ Walk(frames) /\ phase = "files" /\ frames # <<>> /\ Top.todo # <<>>
      /\ UNCHANGED <<repos, ignore, phase, roots>> /\ ScanTypeOK
  BY TypeIs DEF ScanInv, WalkDir
<1>2. /\ r \in Outermost \ roots /\ Dirs(frames) \subseteq Searched(r) /\ envFiles \subseteq Wanted
      /\ \A q \in Outermost \ roots : \A x \in Searched(q) :
           FoundIn(q, x) \subseteq envFiles \/ (q = r /\ Pending(frames, x))
  BY <1>1 DEF ScanInv, FilesInv
<1>3. /\ Len(frames) \in DOMAIN frames /\ 1 \in DOMAIN frames /\ Top = frames[Len(frames)]
      /\ \A i \in DOMAIN frames : frames[i].dir \in Dir
  BY <1>1, WalkIs DEF Top, Last
<1>4. r \in Dir /\ r \in Dirs(frames) /\ Top.dir \in Searched(r)
  BY <1>2, <1>3 DEF Dirs
<1>5. /\ Walk(Rest) /\ Len(Rest) = Len(frames) /\ d \in ToSet(Tree[Top.dir])
      /\ \A i \in DOMAIN frames : Rest[i].dir = frames[i].dir
      /\ \A x : Pending(frames, x) => Pending(Rest, x) \/ IsPrefix(d, x)
  BY <1>1, RestIs
<1>6. Dirs(Rest) = Dirs(frames) /\ Rest # <<>> /\ Rest[1].dir = r
  BY <1>1, <1>3, <1>5, DirsOfRest
<1>7. d \in Dir /\ Len(r) < Len(d)
  <2>1. d \in Dir BY <1>3, <1>5, ChildIs
  <2>2. IsStrictPrefix(r, d) BY <1>1, <1>4, <1>5, DirsAbove
  <2> QED BY <1>4, <2>1, <2>2, StrictIs
<1>8. IsIgnored(d) <=> Excluded(r, d) BY <1>1, <1>5, ExcludedIs
<1>9. d \in Searched(r) <=> ~LeftOut(d) /\ ~IsIgnored(d) BY <1>4, <1>5, <1>8, SearchedStep
<1>10. \A x \in Searched(r) : IsPrefix(d, x) => ~LeftOut(d) /\ ~IsIgnored(d)
  BY <1>4, <1>7, <1>8, SearchedIs
<1> HIDE DEF d, r
<1>11. CASE LeftOut(d) \/ IsIgnored(d)
  <2>1. frames' = Rest /\ envFiles' = envFiles BY <1>11 DEF WalkDir, d
  <2>2. \A q \in Outermost \ roots : \A x \in Searched(q) :
           FoundIn(q, x) \subseteq envFiles \/ (q = r /\ Pending(Rest, x))
    BY <1>2, <1>5, <1>10, <1>11
  <2>3. FilesInv' BY <1>1, <1>2, <1>6, <2>1, <2>2, FilesNext
  <2> QED BY <1>1, <2>3
<1>12. CASE ~(LeftOut(d) \/ IsIgnored(d))
  <2>1. Enter(r, d, Rest, inForce) BY <1>12 DEF WalkDir, d, r
  <2>2. frames' = Append(Rest, Frame(d)) /\ envFiles' = envFiles \cup FoundIn(r, d)
    BY <2>1, EnterFinds
  <2>3. d \in ToSet(Tree[Rest[Len(Rest)].dir]) BY <1>3, <1>5
  <2>4. Dirs(frames') = Dirs(frames) \cup {d} BY <1>5, <1>6, <1>7, <2>2, <2>3, DirsOfPush
  <2>5. /\ Walk(frames') /\ Len(frames') = Len(Rest) + 1
        /\ \A i \in DOMAIN Rest : frames'[i].dir = Rest[i].dir
        /\ \A x : Pending(Rest, x) => Pending(frames', x)
        /\ \A x \in Dir : IsPrefix(d, x) /\ x # d => Pending(frames', x)
    BY <1>5, <1>7, <2>2, <2>3, PushIs
  <2>6. frames' # <<>> /\ frames'[1].dir = r
    <3>1. Len(Rest) \in Nat /\ 1 \in DOMAIN Rest BY <1>5, <1>6, WalkIs
    <3>2. Len(frames') # 0 BY <2>5, <3>1
    <3> QED BY <1>6, <2>5, <3>1, <3>2
  <2>7. d \in Searched(r) BY <1>9, <1>12
  <2>8. FoundIn(r, d) \subseteq Wanted BY <1>2, <2>7 DEF FoundIn, Wanted
  <2>9. ASSUME NEW q \in Outermost \ roots, NEW x \in Searched(q)
        PROVE  FoundIn(q, x) \subseteq envFiles' \/ (q = r /\ Pending(frames', x))
    <3>1. CASE FoundIn(q, x) \subseteq envFiles BY <2>2, <3>1
    <3>2. CASE q = r /\ Pending(Rest, x) BY <2>5, <3>2
    <3>3. CASE q = r /\ IsPrefix(d, x)
      <4>1. x \in Dir BY DEF Searched
      <4> QED BY <2>2, <2>5, <3>3, <4>1
    <3> QED BY <1>2, <1>5, <3>1, <3>2, <3>3
  <2>10. FilesInv' BY <1>1, <1>2, <2>2, <2>4, <2>6, <2>7, <2>8, <2>9, FilesNext
  <2> QED BY <1>1, <2>10
<1> QED BY <1>11, <1>12

LEMMA ReturnStep ==
  ASSUME ScanInv, Return
  PROVE  phase = "files" /\ UNCHANGED <<repos, ignore, phase, roots>> /\ FilesInv'
<1> DEFINE r == frames[1].dir
<1>1. /\ Walk(frames) /\ phase = "files" /\ frames # <<>> /\ Top.todo = <<>>
      /\ UNCHANGED <<repos, ignore, phase, roots, envFiles>> /\ frames' = Front(frames)
  BY TypeIs DEF ScanInv, Return
<1>2. /\ r \in Outermost \ roots /\ Dirs(frames) \subseteq Searched(r) /\ envFiles \subseteq Wanted
      /\ \A q \in Outermost \ roots : \A x \in Searched(q) :
           FoundIn(q, x) \subseteq envFiles \/ (q = r /\ Pending(frames, x))
  BY <1>1 DEF ScanInv, FilesInv
<1>3. /\ Walk(frames') /\ \A i \in DOMAIN frames' : frames'[i] = frames[i]
      /\ \A x : Pending(frames, x) => Pending(frames', x)
  BY <1>1, PopIs
<1>4. frames' # <<>> => frames'[1].dir = r BY <1>3, WalkIs
<1>5. Dirs(frames') \subseteq Searched(r) BY <1>1, <1>2, DirsOfPop
<1> HIDE DEF r
<1>6. CASE frames' = <<>>
  <2>1. Dirs(frames') = {} BY <1>6, NothingInForce
  <2>2. \A q \in Outermost \ roots : \A x \in Searched(q) : FoundIn(q, x) \subseteq envFiles
    BY <1>2, <1>3, <1>6, NothingPending
  <2>3. FilesInv' BY <1>1, <1>2, <1>6, <2>1, <2>2, FilesNext
  <2> QED BY <1>1, <2>3
<1>7. CASE frames' # <<>>
  <2>1. FilesInv' BY <1>1, <1>2, <1>3, <1>4, <1>5, <1>7, FilesNext
  <2> QED BY <1>1, <2>1
<1> QED BY <1>6, <1>7

LEMMA ScanInvStep == ScanInv /\ [ScanNext]_scanVars => ScanInv'
<1> SUFFICES ASSUME ScanInv, [ScanNext]_scanVars PROVE ScanInv' OBVIOUS
<1>1. ScanTypeOK'
  <2>1. Rooted BY DEF Rooted, ScanInv, FilesInv, Outermost
  <2> QED BY <2>1, TypeStep DEF ScanInv
<1>2. UNCHANGED <<repos, ignore>> => Outermost' = Outermost /\ Wanted' = Wanted BY SameTree
<1>3. CASE NextDir \/ LeaveDir BY <1>1, <1>2, <1>3, RootsStep DEF ScanInv, FindsEnvFiles
<1>4. CASE NextRepo
  <2>1. FindsEnvFiles' <=> (phase' = "done" => envFiles' = Wanted') BY DEF FindsEnvFiles, Wanted
  <2> QED BY <1>1, <1>2, <1>4, <2>1, NextRepoStep DEF ScanInv
<1>5. CASE WalkDir BY <1>1, <1>2, <1>5, WalkStep DEF ScanInv, FindsEnvFiles
<1>6. CASE Return BY <1>1, <1>2, <1>6, ReturnStep DEF ScanInv, FindsEnvFiles
<1>7. CASE Unreadable BY <1>1, <1>7 DEF ScanInv, FindsEnvFiles, Unreadable
<1>8. CASE UNCHANGED scanVars
  <2>1. /\ UNCHANGED <<repos, ignore, phase, frames, inForce, roots, envFiles>>
        /\ Outermost' = Outermost /\ Wanted' = Wanted /\ \A r : Searched(r)' = Searched(r)
        /\ \A d : Open(d)' = Open(d)
    BY <1>8, SameTree DEF scanVars
  <2>2. RootsInv => RootsInv' BY <2>1 DEF RootsInv, Dirs, Pending
  <2>3. FilesInv => FilesInv'
    <3> SUFFICES ASSUME FilesInv PROVE FilesInv' OBVIOUS
    <3> QED BY <2>1, FilesNext DEF FilesInv
  <2>4. FindsEnvFiles => FindsEnvFiles'
    <3>1. FindsEnvFiles' <=> (phase' = "done" => envFiles' = Wanted')
      BY DEF FindsEnvFiles, Wanted
    <3> QED BY <2>1, <3>1, FindsIs
  <2> QED BY <1>1, <2>1, <2>2, <2>3, <2>4 DEF ScanInv
<1> QED BY <1>3, <1>4, <1>5, <1>6, <1>7, <1>8 DEF ScanNext

-----------------------------------------------------------------------------
LEMMA ScanInvAlways == ScanSpec => []ScanInv
BY ScanInvInit, ScanInvStep, PTL DEF ScanSpec

\* The walks keep to the tree, and the patterns in force are those of the
\* directories on the way (scanner.go).
THEOREM ScanTypeCorrect == ScanSpec => []ScanTypeOK
<1>1. ScanInv => ScanTypeOK BY DEF ScanInv
<1> QED BY <1>1, ScanInvAlways, PTL

\* A scan that does not fail finds the env files of every outermost repository
\* in the directories the patterns leave, and no others, whatever the tree and
\* the patterns are (scanner.go:94-166, :236-273).
THEOREM FindsEnvFilesAlways == ScanSpec => []FindsEnvFiles
<1>1. ScanInv => FindsEnvFiles BY DEF ScanInv
<1> QED BY <1>1, ScanInvAlways, PTL
===============================================================================
