----------------------------- MODULE LoopsProofs -----------------------------
(***************************************************************************)
(* Induction over the counter of a loop, what follows from it for sums and *)
(* joined sequences of every length, and that a number is made of its bits.*)
(***************************************************************************)
EXTENDS Loops, WellFoundedInduction, SequenceTheorems, TLAPS

(***************************************************************************)
(* A set of numbers that has 0, and with every number the next, has all of *)
(* them: one that it lacks could not be the least.                         *)
(***************************************************************************)
LEMMA Induct ==
    ASSUME NEW S, 0 \in S, \A n \in Nat : n \in S => n + 1 \in S
    PROVE  Nat \subseteq S
<1> DEFINE T == Nat \ S
           R == {pair \in Nat \X Nat : pair[1] < pair[2]}
<1>1. IsWellFoundedOn(R, Nat)
  BY NatLessThanWellFounded DEF OpToRel
<1>2. \A x, y \in Nat : <<y, x>> \in R <=> y < x
  OBVIOUS
<1>3. SUFFICES ASSUME T # {} PROVE FALSE
  OBVIOUS
<1>4. T \subseteq Nat
  OBVIOUS
<1> HIDE DEF R, T
<1>5. PICK x \in T : \A y \in T : ~ (<<y, x>> \in R)
  BY <1>1, <1>3, <1>4, WFMin
<1>6. x # 0 /\ x \in Nat /\ x - 1 \in Nat /\ x - 1 < x
  BY <1>5 DEF T
<1>7. x - 1 \in S
  BY <1>2, <1>5, <1>6 DEF T
<1>8. x \in S
  BY <1>6, <1>7
<1> QED  BY <1>5, <1>8 DEF T

(***************************************************************************)
(* A loop that goes from one value to the next has a value after every     *)
(* number of rounds, and that number determines it.                        *)
(***************************************************************************)
Steps(A) == [Nat -> [A -> A]]

Tables(A, first, step) ==
    {h \in [Nat -> A] : /\ h[0] = first
                        /\ \A n \in Nat : h[n + 1] = step[n + 1][h[n]]}

Runs(A, first, step, n) ==
    {p \in [0..n -> A] : /\ p[0] = first
                         /\ \A i \in 1..n : p[i] = step[i][p[i - 1]]}

LEMMA RunsAgree ==
    ASSUME NEW A, NEW first \in A, NEW step \in Steps(A),
           NEW m \in Nat, NEW n \in Nat, m <= n,
           NEW p \in Runs(A, first, step, m), NEW q \in Runs(A, first, step, n)
    PROVE  \A i \in 0..m : p[i] = q[i]
<1> DEFINE S == {i \in Nat : i <= m => p[i] = q[i]}
<1>1. 0 \in S
  BY DEF Runs
<1>2. ASSUME NEW i \in Nat, i \in S
      PROVE  i + 1 \in S
  <2> SUFFICES ASSUME i + 1 <= m PROVE p[i + 1] = q[i + 1]
    OBVIOUS
  <2>1. i + 1 \in 1..m /\ i + 1 \in 1..n /\ (i + 1) - 1 = i /\ i <= m
    OBVIOUS
  <2>2. p[i] = q[i]
    BY <1>2, <2>1
  <2>3. p[i + 1] = step[i + 1][p[i]] /\ q[i + 1] = step[i + 1][q[i]]
    BY <2>1 DEF Runs
  <2> QED  BY <2>2, <2>3
<1>3. Nat \subseteq S
  <2> HIDE DEF S
  <2> QED  BY <1>1, <1>2, Induct
<1> QED  BY <1>3

LEMMA RunsExist ==
    ASSUME NEW A, NEW first \in A, NEW step \in Steps(A)
    PROVE  \A n \in Nat : Runs(A, first, step, n) # {}
<1> DEFINE S == {n \in Nat : Runs(A, first, step, n) # {}}
<1>1. 0 \in S
  <2>1. [i \in 0..0 |-> first] \in Runs(A, first, step, 0)
    BY DEF Runs
  <2> QED  BY <2>1
<1>2. ASSUME NEW n \in Nat, n \in S
      PROVE  n + 1 \in S
  <2>1. PICK p : p \in Runs(A, first, step, n)
    BY <1>2
  <2> DEFINE q == [i \in 0..(n + 1) |-> IF i <= n THEN p[i] ELSE step[n + 1][p[n]]]
  <2>2. p \in [0..n -> A] /\ step[n + 1] \in [A -> A]
    BY <2>1 DEF Runs, Steps
  <2>3. q \in [0..(n + 1) -> A]
    BY <2>2
  <2>4. q[0] = first
    BY <2>1 DEF Runs
  <2>5. ASSUME NEW i \in 1..(n + 1)
        PROVE  q[i] = step[i][q[i - 1]]
    <3>1. CASE i <= n
      <4>1. i \in 1..n /\ i \in 0..(n + 1) /\ i - 1 \in 0..(n + 1) /\ i - 1 <= n
        BY <3>1
      <4>2. q[i] = p[i] /\ q[i - 1] = p[i - 1]
        BY <4>1
      <4>3. p[i] = step[i][p[i - 1]]
        BY <2>1, <4>1 DEF Runs
      <4> QED  BY <4>2, <4>3
    <3>2. CASE i = n + 1
      <4>1. i - 1 = n /\ ~ (i <= n) /\ n \in 0..(n + 1) /\ i \in 0..(n + 1)
        BY <3>2
      <4> QED  BY <3>2, <4>1
    <3> QED  BY <3>1, <3>2
  <2>6. q \in Runs(A, first, step, n + 1)
    <3> HIDE DEF q
    <3> QED  BY <2>3, <2>4, <2>5 DEF Runs
  <2> QED  BY <2>6
<1>3. Nat \subseteq S
  <2> HIDE DEF S
  <2> QED  BY <1>1, <1>2, Induct
<1> QED  BY <1>3

LEMMA Recursion ==
    ASSUME NEW A, NEW first \in A, NEW step \in Steps(A)
    PROVE  Tables(A, first, step) # {}
<1> DEFINE Run(n) == CHOOSE p : p \in Runs(A, first, step, n)
           h == [n \in Nat |-> Run(n)[n]]
<1>1. \A n \in Nat : Run(n) \in Runs(A, first, step, n)
  BY RunsExist
<1> HIDE DEF Run
<1>2. h \in [Nat -> A]
  BY <1>1 DEF Runs
<1>3. h[0] = first
  BY <1>1 DEF Runs
<1>4. ASSUME NEW n \in Nat, NEW m \in Nat, m = n + 1
      PROVE  h[m] = step[m][h[n]]
  <2>1. n <= m /\ m \in 1..m /\ m - 1 = n /\ n \in 0..n
    BY <1>4
  <2>2. PICK p \in Runs(A, first, step, n) : p = Run(n)
    BY <1>1
  <2>3. PICK q \in Runs(A, first, step, m) : q = Run(m)
    BY <1>1
  <2>4. q[m] = step[m][q[n]]
    BY <2>1 DEF Runs
  <2>5. \A i \in 0..n : p[i] = q[i]
    BY <2>1, RunsAgree
  <2> QED  BY <2>1, <2>2, <2>3, <2>4, <2>5
<1> HIDE DEF h
<1>5. h \in Tables(A, first, step)
  BY <1>2, <1>3, <1>4 DEF Tables
<1> QED  BY <1>5

(***************************************************************************)
(* The sums and the joined sequences of the first so many elements.        *)
(***************************************************************************)
LEMMA SumTable ==
    ASSUME NEW v, NEW n \in Nat, \A i \in 1..n : v[i] \in Int
    PROVE  \E h \in [Nat -> Int] :
              /\ h[0] = 0
              /\ \A i \in 1..n : h[i] = h[i - 1] + v[i]
              /\ \A m \in 0..n : SumTo(v, m) = h[m]
<1> DEFINE step == [i \in Nat |-> [x \in Int |-> x + (IF i \in 1..n THEN v[i] ELSE 0)]]
<1>1. step \in Steps(Int) /\ 0 \in Int
  BY DEF Steps
<1>2. PICK h \in [Nat -> Int] : h[0] = 0 /\ \A i \in Nat : h[i + 1] = step[i + 1][h[i]]
  <2> HIDE DEF step
  <2>1. PICK h : h \in Tables(Int, 0, step)
    BY <1>1, Recursion
  <2> QED  BY <2>1 DEF Tables
<1>3. ASSUME NEW i \in 1..n
      PROVE  h[i] = h[i - 1] + v[i]
  <2>1. i - 1 \in Nat /\ (i - 1) + 1 = i /\ i \in Nat
    OBVIOUS
  <2>2. h[i] = step[i][h[i - 1]] /\ h[i - 1] \in Int
    BY <1>2, <2>1
  <2>3. step[i][h[i - 1]] = h[i - 1] + v[i]
    BY <2>1, <2>2
  <2> QED  BY <2>2, <2>3
<1>4. ASSUME NEW m \in 0..n
      PROVE  SumTo(v, m) = h[m]
  <2> DEFINE Sums(s) == s = [i \in 0..m |-> IF i = 0 THEN 0 ELSE s[i - 1] + v[i]]
             t == [i \in 0..m |-> h[i]]
  <2>1. Sums(t)
    <3>1. \A i \in 0..m : i # 0 => i \in 1..n /\ i - 1 \in 0..m
      OBVIOUS
    <3>2. \A i \in 0..m : t[i] = IF i = 0 THEN 0 ELSE t[i - 1] + v[i]
      BY <1>2, <1>3, <3>1
    <3> QED  BY <3>2
  <2> DEFINE s == CHOOSE s : Sums(s)
  <2>2. Sums(s)
    <3> HIDE DEF Sums, t
    <3> QED  BY <2>1
  <2>3. SumTo(v, m) = s[m]
    BY DEF SumTo
  <2> HIDE DEF s
  <2>4. /\ s[0] = 0
        /\ \A i \in 1..m : s[i] = s[i - 1] + v[i]
    BY <2>2
  <2> DEFINE Equal == {i \in Nat : i <= m => s[i] = h[i]}
  <2>5. 0 \in Equal
    BY <1>2, <2>4
  <2>6. ASSUME NEW i \in Nat, i \in Equal
        PROVE  i + 1 \in Equal
    <3> SUFFICES ASSUME i + 1 <= m PROVE s[i + 1] = h[i + 1]
      OBVIOUS
    <3>1. i + 1 \in 1..m /\ i + 1 \in 1..n /\ (i + 1) - 1 = i /\ s[i] = h[i]
      BY <2>6
    <3>2. s[i + 1] = s[i] + v[i + 1] /\ h[i + 1] = h[i] + v[i + 1]
      BY <1>3, <2>4, <3>1
    <3> QED  BY <3>1, <3>2
  <2>7. Nat \subseteq Equal
    <3> HIDE DEF Equal
    <3> QED  BY <2>5, <2>6, Induct
  <2> QED  BY <2>3, <2>7
<1> QED  BY <1>2, <1>3, <1>4

LEMMA SumEmpty == ASSUME NEW v PROVE SumTo(v, 0) = 0
  BY SumTable

LEMMA SumNext ==
    ASSUME NEW v, NEW n \in Nat, \A i \in 1..(n + 1) : v[i] \in Int
    PROVE  /\ SumTo(v, n) \in Int
           /\ SumTo(v, n + 1) = SumTo(v, n) + v[n + 1]
<1>1. PICK h \in [Nat -> Int] :
          /\ \A i \in 1..(n + 1) : h[i] = h[i - 1] + v[i]
          /\ \A m \in 0..(n + 1) : SumTo(v, m) = h[m]
  BY SumTable
<1>2. n + 1 \in 1..(n + 1) /\ n + 1 \in 0..(n + 1) /\ n \in 0..(n + 1) /\ (n + 1) - 1 = n
  OBVIOUS
<1> QED  BY <1>1, <1>2
LEMMA SumType ==
    ASSUME NEW v, NEW n \in Nat, \A i \in 1..n : v[i] \in Int
    PROVE  \A m \in 0..n : SumTo(v, m) \in Int
  BY SumTable

LEMMA SumStep ==
    ASSUME NEW v, NEW n \in Nat, \A i \in 1..n : v[i] \in Int,
           NEW m \in Nat, m + 1 <= n
    PROVE  /\ SumTo(v, m) \in Int
           /\ SumTo(v, m + 1) = SumTo(v, m) + v[m + 1]
           /\ m + 1 \in 1..n /\ m <= n
<1>1. m + 1 \in 1..n /\ m <= n /\ \A i \in 1..(m + 1) : v[i] \in Int
  OBVIOUS
<1> QED  BY <1>1, SumNext

(***************************************************************************)
(* A constant taken from every element is taken so many times from the sum.*)
(***************************************************************************)
LEMMA SumLess ==
    ASSUME NEW n \in Nat, NEW v, NEW w, NEW c \in Int,
           \A i \in 1..n : v[i] \in Int /\ w[i] = v[i] - c
    PROVE  SumTo(w, n) = SumTo(v, n) - n * c
<1> DEFINE S == {m \in Nat : m <= n => SumTo(w, m) = SumTo(v, m) - m * c}
<1>0. \A i \in 1..n : w[i] \in Int
  OBVIOUS
<1>1. 0 \in S
  BY SumEmpty
<1>2. ASSUME NEW m \in Nat, m \in S
      PROVE  m + 1 \in S
  <2> SUFFICES ASSUME m + 1 <= n PROVE SumTo(w, m + 1) = SumTo(v, m + 1) - (m + 1) * c
    OBVIOUS
  <2>1. /\ SumTo(v, m) \in Int /\ SumTo(v, m + 1) = SumTo(v, m) + v[m + 1]
        /\ SumTo(w, m) \in Int /\ SumTo(w, m + 1) = SumTo(w, m) + w[m + 1]
        /\ m + 1 \in 1..n /\ m <= n
    BY <1>0, SumStep
  <2>2. /\ v[m + 1] \in Int /\ w[m + 1] = v[m + 1] - c
        /\ SumTo(w, m) = SumTo(v, m) - m * c
    BY <1>2, <2>1
  <2>3. (m + 1) * c = m * c + c /\ m * c \in Int
    OBVIOUS
  <2> HIDE DEF S
  <2> QED  BY <2>1, <2>2, <2>3
<1>3. Nat \subseteq S
  <2> HIDE DEF S
  <2> QED  BY <1>1, <1>2, Induct
<1> QED  BY <1>3

LEMMA SumSame ==
    ASSUME NEW n \in Nat, NEW v, NEW w, \A i \in 1..n : v[i] \in Int /\ w[i] = v[i]
    PROVE  SumTo(w, n) = SumTo(v, n)
<1>1. \A i \in 1..n : v[i] \in Int /\ w[i] = v[i] - 0
  OBVIOUS
<1>2. SumTo(w, n) = SumTo(v, n) - n * 0
  BY <1>1, SumLess
<1>3. SumTo(v, n) \in Int /\ n \in 0..n
  BY SumType
<1> QED  BY <1>2, <1>3

(***************************************************************************)
(* With one element that is not zero the sum is that element.              *)
(***************************************************************************)
LEMMA SumOfOne ==
    ASSUME NEW n \in Nat, NEW v, NEW k \in 1..n, v[k] \in Int,
           \A i \in 1..n : i # k => v[i] = 0
    PROVE  SumTo(v, n) = v[k]
<1> DEFINE S == {m \in Nat : m <= n => SumTo(v, m) = IF k <= m THEN v[k] ELSE 0}
<1>0. \A i \in 1..n : v[i] \in Int
  OBVIOUS
<1>1. 0 \in S
  BY SumEmpty
<1>2. ASSUME NEW m \in Nat, m \in S
      PROVE  m + 1 \in S
  <2> SUFFICES ASSUME m + 1 <= n PROVE SumTo(v, m + 1) = IF k <= m + 1 THEN v[k] ELSE 0
    OBVIOUS
  <2>1. SumTo(v, m + 1) = SumTo(v, m) + v[m + 1] /\ m + 1 \in 1..n /\ m <= n
    BY <1>0, SumStep
  <2>2. SumTo(v, m) = IF k <= m THEN v[k] ELSE 0
    BY <1>2, <2>1
  <2>3. m + 1 # k => v[m + 1] = 0
    BY <2>1
  <2> HIDE DEF S
  <2> QED  BY <2>1, <2>2, <2>3
<1>3. Nat \subseteq S
  <2> HIDE DEF S
  <2> QED  BY <1>1, <1>2, Induct
<1> QED  BY <1>3

LEMMA SumBounds ==
    ASSUME NEW n \in Nat, NEW v, NEW c \in Nat, \A i \in 1..n : v[i] \in 0..c
    PROVE  \A m \in 0..n : SumTo(v, m) \in 0..(m * c)
<1> DEFINE S == {m \in Nat : m <= n => SumTo(v, m) \in 0..(m * c)}
<1>0. \A i \in 1..n : v[i] \in Int
  OBVIOUS
<1>1. 0 \in S
  BY SumEmpty
<1>2. ASSUME NEW m \in Nat, m \in S
      PROVE  m + 1 \in S
  <2> SUFFICES ASSUME m + 1 <= n PROVE SumTo(v, m + 1) \in 0..((m + 1) * c)
    OBVIOUS
  <2>1. SumTo(v, m + 1) = SumTo(v, m) + v[m + 1] /\ m + 1 \in 1..n /\ m <= n
    BY <1>0, SumStep
  <2>2. SumTo(v, m) \in 0..(m * c) /\ v[m + 1] \in 0..c
    BY <1>2, <2>1
  <2>3. (m + 1) * c = m * c + c /\ m * c \in Int
    OBVIOUS
  <2> HIDE DEF S
  <2> QED  BY <2>1, <2>2, <2>3
<1>3. Nat \subseteq S
  <2> HIDE DEF S
  <2> QED  BY <1>1, <1>2, Induct
<1> QED  BY <1>3

LEMMA SumGrows ==
    ASSUME NEW n \in Nat, NEW v, \A i \in 1..n : v[i] \in Nat,
           NEW k \in 0..n
    PROVE  SumTo(v, k) <= SumTo(v, n)
<1> DEFINE S == {m \in Nat : m <= n /\ k <= m => SumTo(v, k) <= SumTo(v, m)}
<1>0. \A i \in 1..n : v[i] \in Int
  OBVIOUS
<1>1. 0 \in S
  <2>1. SumTo(v, 0) = 0
    BY SumEmpty
  <2>2. k <= 0 => k = 0
    OBVIOUS
  <2> QED  BY <2>1, <2>2
<1>2. ASSUME NEW m \in Nat, m \in S
      PROVE  m + 1 \in S
  <2> SUFFICES ASSUME m + 1 <= n, k <= m + 1 PROVE SumTo(v, k) <= SumTo(v, m + 1)
    OBVIOUS
  <2>1. /\ SumTo(v, m) \in Int /\ SumTo(v, m + 1) = SumTo(v, m) + v[m + 1]
        /\ m + 1 \in 1..n /\ m <= n
    BY <1>0, SumStep
  <2>2. SumTo(v, k) \in Int /\ v[m + 1] \in Nat
    BY <1>0, <2>1, SumType
  <2>3. CASE k = m + 1
    BY <2>1, <2>2, <2>3
  <2>4. CASE k # m + 1
    <3>1. SumTo(v, k) <= SumTo(v, m)
      BY <1>2, <2>1, <2>4
    <3> HIDE DEF S
    <3> QED  BY <2>1, <2>2, <3>1
  <2> QED  BY <2>3, <2>4
<1>3. Nat \subseteq S
  <2> HIDE DEF S
  <2> QED  BY <1>1, <1>2, Induct
<1> QED  BY <1>3

(***************************************************************************)
(* The first element apart from the rest.                                  *)
(***************************************************************************)
LEMMA SumFirst ==
    ASSUME NEW n \in Nat, NEW v, NEW w, \A i \in 1..(n + 1) : v[i] \in Int,
           \A i \in 1..n : w[i] = v[i + 1]
    PROVE  SumTo(v, n + 1) = v[1] + SumTo(w, n)
<1> DEFINE S == {m \in Nat : m <= n => SumTo(v, m + 1) = v[1] + SumTo(w, m)}
<1>0. \A i \in 1..n : w[i] \in Int
  OBVIOUS
<1>1. 0 \in S
  <2>1. \A i \in 1..(0 + 1) : v[i] \in Int
    OBVIOUS
  <2>2. SumTo(v, 0 + 1) = SumTo(v, 0) + v[0 + 1]
    BY <2>1, SumNext
  <2> QED  BY <2>1, <2>2, SumEmpty
<1>2. ASSUME NEW m \in Nat, m \in S
      PROVE  m + 1 \in S
  <2> SUFFICES ASSUME m + 1 <= n PROVE SumTo(v, (m + 1) + 1) = v[1] + SumTo(w, m + 1)
    OBVIOUS
  <2>1. /\ SumTo(w, m) \in Int /\ SumTo(w, m + 1) = SumTo(w, m) + w[m + 1]
        /\ m + 1 \in 1..n /\ m <= n
    BY <1>0, SumStep
  <2>2. m + 1 \in Nat /\ (m + 1) + 1 <= n + 1 /\ n + 1 \in Nat
    BY <2>1
  <2>3. SumTo(v, m + 1) \in Int /\ SumTo(v, (m + 1) + 1) = SumTo(v, m + 1) + v[(m + 1) + 1]
    BY <2>2, SumStep
  <2>4. SumTo(v, m + 1) = v[1] + SumTo(w, m) /\ w[m + 1] = v[(m + 1) + 1]
    BY <1>2, <2>1
  <2>5. v[1] \in Int /\ w[m + 1] \in Int
    BY <1>0, <2>1
  <2> HIDE DEF S
  <2> QED  BY <2>1, <2>3, <2>4, <2>5
<1>3. Nat \subseteq S
  <2> HIDE DEF S
  <2> QED  BY <1>1, <1>2, Induct
<1> QED  BY <1>3
-----------------------------------------------------------------------------
(***************************************************************************)
(* Joined sequences.                                                       *)
(***************************************************************************)
Joinable(C, s, n) == \A i \in 1..n : s[i] \in Seq(C)

JoinTables(C, s, n) ==
    {h \in [Nat -> Seq(C)] : /\ h[0] = <<>>
                             /\ \A i \in 1..n : h[i] = h[i - 1] \o s[i]
                             /\ \A m \in 0..n : JoinTo(s, m) = h[m]}

LEMMA JoinTable ==
    ASSUME NEW C, NEW s, NEW n \in Nat, Joinable(C, s, n)
    PROVE  JoinTables(C, s, n) # {}
<1> DEFINE step == [i \in Nat |-> [x \in Seq(C) |-> IF i \in 1..n THEN x \o s[i] ELSE x]]
<1>0. <<>> \in Seq(C)
  OBVIOUS
<1>1. step \in Steps(Seq(C))
  <2>1. ASSUME NEW i \in Nat, NEW x \in Seq(C)
        PROVE  (IF i \in 1..n THEN x \o s[i] ELSE x) \in Seq(C)
    BY <2>1, ConcatProperties DEF Joinable
  <2> QED  BY <2>1 DEF Steps
<1>2. PICK h \in [Nat -> Seq(C)] : h[0] = <<>> /\ \A i \in Nat : h[i + 1] = step[i + 1][h[i]]
  <2> HIDE DEF step
  <2>1. PICK h : h \in Tables(Seq(C), <<>>, step)
    BY <1>0, <1>1, Recursion
  <2> QED  BY <2>1 DEF Tables
<1>3. ASSUME NEW i \in 1..n
      PROVE  h[i] = h[i - 1] \o s[i]
  <2>1. i - 1 \in Nat /\ (i - 1) + 1 = i /\ i \in Nat
    OBVIOUS
  <2>2. h[i] = step[i][h[i - 1]] /\ h[i - 1] \in Seq(C)
    BY <1>2, <2>1
  <2>3. step[i][h[i - 1]] = h[i - 1] \o s[i]
    BY <2>1, <2>2
  <2> QED  BY <2>2, <2>3
<1>4. ASSUME NEW m \in 0..n
      PROVE  JoinTo(s, m) = h[m]
  <2> DEFINE Joins(j) == j = [i \in 0..m |-> IF i = 0 THEN <<>> ELSE j[i - 1] \o s[i]]
             t == [i \in 0..m |-> h[i]]
  <2>1. Joins(t)
    <3>1. \A i \in 0..m : i # 0 => i \in 1..n /\ i - 1 \in 0..m
      OBVIOUS
    <3>2. \A i \in 0..m : t[i] = IF i = 0 THEN <<>> ELSE t[i - 1] \o s[i]
      BY <1>2, <1>3, <3>1
    <3> QED  BY <3>2
  <2> DEFINE j == CHOOSE j : Joins(j)
  <2>2. Joins(j)
    <3> HIDE DEF Joins, t
    <3> QED  BY <2>1
  <2>3. JoinTo(s, m) = j[m]
    BY DEF JoinTo
  <2> HIDE DEF j
  <2>4. /\ j[0] = <<>>
        /\ \A i \in 1..m : j[i] = j[i - 1] \o s[i]
    <3>1. PICK f : f = [i \in 0..m |-> IF i = 0 THEN <<>> ELSE j[i - 1] \o s[i]]
      OBVIOUS
    <3>2. \A i \in 0..m : f[i] = IF i = 0 THEN <<>> ELSE j[i - 1] \o s[i]
      BY <3>1
    <3>3. j = f
      BY <2>2, <3>1
    <3> HIDE DEF Joins
    <3>4. 0 \in 0..m /\ \A i \in 1..m : i \in 0..m /\ i # 0
      OBVIOUS
    <3> QED  BY <3>2, <3>3, <3>4
  <2> DEFINE Equal == {i \in Nat : i <= m => j[i] = h[i]}
  <2>5. 0 \in Equal
    BY <1>2, <2>4
  <2>6. ASSUME NEW i \in Nat, i \in Equal
        PROVE  i + 1 \in Equal
    <3> SUFFICES ASSUME i + 1 <= m PROVE j[i + 1] = h[i + 1]
      OBVIOUS
    <3>1. i + 1 \in 1..m /\ i + 1 \in 1..n /\ (i + 1) - 1 = i /\ j[i] = h[i]
      BY <2>6
    <3>2. j[i + 1] = j[i] \o s[i + 1] /\ h[i + 1] = h[i] \o s[i + 1]
      BY <1>3, <2>4, <3>1
    <3> QED  BY <3>1, <3>2
  <2>7. Nat \subseteq Equal
    <3> HIDE DEF Equal
    <3> QED  BY <2>5, <2>6, Induct
  <2> QED  BY <2>3, <2>7
<1>5. h \in JoinTables(C, s, n)
  BY <1>2, <1>3, <1>4 DEF JoinTables
<1> QED  BY <1>5

LEMMA JoinEmpty == ASSUME NEW s PROVE JoinTo(s, 0) = <<>>
<1>1. 0 \in Nat /\ Joinable({}, s, 0)
  BY DEF Joinable
<1>2. PICK h : h \in JoinTables({}, s, 0)
  BY <1>1, JoinTable
<1> QED  BY <1>2 DEF JoinTables

LEMMA JoinType ==
    ASSUME NEW C, NEW s, NEW n \in Nat, Joinable(C, s, n), NEW m \in 0..n
    PROVE  JoinTo(s, m) \in Seq(C)
<1>1. PICK h : h \in JoinTables(C, s, n)
  BY JoinTable
<1> QED  BY <1>1 DEF JoinTables

LEMMA JoinNext ==
    ASSUME NEW C, NEW s, NEW n \in Nat, Joinable(C, s, n), NEW m \in Nat, m + 1 <= n
    PROVE  /\ JoinTo(s, m) \in Seq(C)
           /\ JoinTo(s, m + 1) = JoinTo(s, m) \o s[m + 1]
<1>1. PICK h : h \in JoinTables(C, s, n)
  BY JoinTable
<1>2. m + 1 \in 1..n /\ m + 1 \in 0..n /\ m \in 0..n /\ (m + 1) - 1 = m
  OBVIOUS
<1> QED  BY <1>1, <1>2 DEF JoinTables

(***************************************************************************)
(* What is joined is as long as its pieces together, and each of them      *)
(* starts where the ones before it end.                                    *)
(***************************************************************************)
Measured(s, length, n) == \A i \in 1..n : length[i] = Len(s[i])

InPieces(joined, s, length, n) ==
    /\ Len(joined) = SumTo(length, n)
    /\ \A i \in 1..n : \A x \in 1..length[i] :
           /\ SumTo(length, i - 1) + x \in 1..SumTo(length, n)
           /\ joined[SumTo(length, i - 1) + x] = s[i][x]

LEMMA JoinPieces ==
    ASSUME NEW C, NEW n \in Nat, NEW s, Joinable(C, s, n), NEW length, Measured(s, length, n)
    PROVE  InPieces(JoinTo(s, n), s, length, n)
<1> DEFINE Piece(m, i, x) == /\ SumTo(length, i - 1) + x \in 1..SumTo(length, m)
                             /\ JoinTo(s, m)[SumTo(length, i - 1) + x] = s[i][x]
           S == {m \in Nat : m <= n => /\ Len(JoinTo(s, m)) = SumTo(length, m)
                                       /\ \A i \in 1..m : \A x \in 1..length[i] : Piece(m, i, x)}
<1>0. \A i \in 1..n : length[i] \in Int /\ length[i] \in Nat
  BY LenProperties DEF Joinable, Measured
<1>1. 0 \in S
  <2>1. Len(JoinTo(s, 0)) = SumTo(length, 0)
    BY SumEmpty, JoinEmpty
  <2> QED  BY <2>1
<1>2. ASSUME NEW m \in Nat, m \in S
      PROVE  m + 1 \in S
  <2> SUFFICES ASSUME m + 1 <= n
               PROVE  /\ Len(JoinTo(s, m + 1)) = SumTo(length, m + 1)
                      /\ \A i \in 1..(m + 1) : \A x \in 1..length[i] : Piece(m + 1, i, x)
    OBVIOUS
  <2>1. /\ SumTo(length, m) \in Int /\ SumTo(length, m + 1) = SumTo(length, m) + length[m + 1]
        /\ m + 1 \in 1..n /\ m <= n
    BY <1>0, SumStep
  <2>2. JoinTo(s, m) \in Seq(C) /\ JoinTo(s, m + 1) = JoinTo(s, m) \o s[m + 1]
    BY JoinNext
  <2>3. /\ Len(JoinTo(s, m)) = SumTo(length, m)
        /\ \A i \in 1..m : \A x \in 1..length[i] : Piece(m, i, x)
    BY <1>2, <2>1
  <2> DEFINE a == JoinTo(s, m)
             b == s[m + 1]
             L == SumTo(length, m)
  <2>4. a \in Seq(C) /\ b \in Seq(C) /\ Len(a) = L /\ Len(b) = length[m + 1] /\ L \in Nat
    <3>1. b \in Seq(C) /\ Len(b) = length[m + 1]
      BY <2>1 DEF Joinable, Measured
    <3>2. Len(a) = L /\ Len(a) \in Nat
      BY <2>2, <2>3, LenProperties
    <3> QED  BY <2>2, <3>1, <3>2
  <2>5. /\ Len(a \o b) = Len(a) + Len(b)
        /\ \A y \in 1..(Len(a) + Len(b)) :
              (a \o b)[y] = IF y <= Len(a) THEN a[y] ELSE b[y - Len(a)]
    BY <2>4, ConcatProperties
  <2>6. JoinTo(s, m + 1) = a \o b /\ SumTo(length, m + 1) = L + length[m + 1]
    BY <2>1, <2>2
  <2>7. length[m + 1] \in Nat
    BY <1>0, <2>1
  <2>8. ASSUME NEW i \in 1..(m + 1), NEW x \in 1..length[i]
        PROVE  Piece(m + 1, i, x)
    <3>1. CASE i = m + 1
      <4>1. i - 1 = m /\ L + x \in 1..(L + length[m + 1]) /\ ~ (L + x <= L) /\ (L + x) - L = x
        BY <2>4, <2>7, <3>1
      <4>2. (a \o b)[L + x] = b[x]
        BY <2>4, <2>5, <4>1
      <4> QED  BY <2>6, <3>1, <4>1, <4>2
    <3>2. CASE i # m + 1
      <4>1. i \in 1..m
        BY <3>2
      <4>2. PICK y : y = SumTo(length, i - 1) + x
        OBVIOUS
      <4>3. y \in 1..L /\ a[y] = s[i][x]
        BY <2>3, <4>1, <4>2
      <4>4. y \in 1..(L + length[m + 1]) /\ y <= L
        BY <2>4, <2>7, <4>3
      <4>5. (a \o b)[y] = a[y]
        BY <2>4, <2>5, <4>4
      <4> QED  BY <2>6, <4>2, <4>3, <4>4, <4>5
    <3> QED  BY <3>1, <3>2
  <2>9. Len(JoinTo(s, m + 1)) = SumTo(length, m + 1)
    BY <2>4, <2>5, <2>6
  <2> QED  BY <2>8, <2>9
<1>3. Nat \subseteq S
  <2> HIDE DEF S
  <2> QED  BY <1>1, <1>2, Induct
<1>4. /\ Len(JoinTo(s, n)) = SumTo(length, n)
      /\ \A i \in 1..n : \A x \in 1..length[i] : Piece(n, i, x)
  <2> HIDE DEF Piece
  <2> QED  BY <1>3
<1> QED  BY <1>4 DEF InPieces
-----------------------------------------------------------------------------
(***************************************************************************)
(* Numbers and their bits.                                                 *)
(***************************************************************************)
LEMMA HalvedTable ==
    ASSUME NEW n \in Nat, NEW top \in Nat
    PROVE  \E h \in [Nat -> Nat] :
              /\ h[0] = n
              /\ \A b \in Nat : h[b + 1] = h[b] \div 2
              /\ \A b \in 0..top : Halved(n, b) = h[b]
<1> DEFINE step == [i \in Nat |-> [x \in Nat |-> x \div 2]]
<1>1. step \in Steps(Nat)
  BY DEF Steps
<1>2. PICK h \in [Nat -> Nat] : h[0] = n /\ \A b \in Nat : h[b + 1] = h[b] \div 2
  <2>1. PICK h : h \in Tables(Nat, n, step)
    <3> HIDE DEF step
    <3> QED  BY <1>1, Recursion
  <2>2. h \in [Nat -> Nat] /\ h[0] = n /\ \A b \in Nat : h[b + 1] = step[b + 1][h[b]]
    <3> HIDE DEF step
    <3> QED  BY <2>1 DEF Tables
  <2>3. ASSUME NEW b \in Nat
        PROVE  h[b + 1] = h[b] \div 2
    <3>1. b + 1 \in Nat /\ h[b] \in Nat
      BY <2>2
    <3>2. step[b + 1][h[b]] = h[b] \div 2
      BY <3>1
    <3> QED  BY <2>2, <3>2
  <2> HIDE DEF step
  <2> QED  BY <2>2, <2>3
<1>3. ASSUME NEW b \in 0..top
      PROVE  Halved(n, b) = h[b]
  <2> DEFINE Halves(s) == s = [i \in 0..b |-> IF i = 0 THEN n ELSE s[i - 1] \div 2]
             t == [i \in 0..b |-> h[i]]
  <2>1. Halves(t)
    <3>1. \A i \in 0..b : i # 0 => i - 1 \in Nat /\ i - 1 \in 0..b /\ (i - 1) + 1 = i
      OBVIOUS
    <3>2. \A i \in 0..b : t[i] = IF i = 0 THEN n ELSE t[i - 1] \div 2
      BY <1>2, <3>1
    <3> QED  BY <3>2
  <2> DEFINE s == CHOOSE s : Halves(s)
  <2>2. Halves(s)
    <3> HIDE DEF Halves, t
    <3> QED  BY <2>1
  <2>3. Halved(n, b) = s[b]
    BY DEF Halved
  <2> HIDE DEF s
  <2>4. /\ s[0] = n
        /\ \A i \in 1..b : s[i] = s[i - 1] \div 2
    <3>1. PICK f : f = [i \in 0..b |-> IF i = 0 THEN n ELSE s[i - 1] \div 2]
      OBVIOUS
    <3>2. \A i \in 0..b : f[i] = IF i = 0 THEN n ELSE s[i - 1] \div 2
      BY <3>1
    <3>3. s = f
      BY <2>2, <3>1
    <3> HIDE DEF Halves
    <3>4. 0 \in 0..b /\ \A i \in 1..b : i \in 0..b /\ i # 0
      OBVIOUS
    <3> QED  BY <3>2, <3>3, <3>4
  <2> DEFINE Equal == {i \in Nat : i <= b => s[i] = h[i]}
  <2>5. 0 \in Equal
    BY <1>2, <2>4
  <2>6. ASSUME NEW i \in Nat, i \in Equal
        PROVE  i + 1 \in Equal
    <3> SUFFICES ASSUME i + 1 <= b PROVE s[i + 1] = h[i + 1]
      OBVIOUS
    <3>1. i + 1 \in 1..b /\ (i + 1) - 1 = i /\ s[i] = h[i]
      BY <2>6
    <3>2. s[i + 1] = s[i] \div 2 /\ h[i + 1] = h[i] \div 2
      BY <1>2, <2>4, <3>1
    <3> QED  BY <3>1, <3>2
  <2>7. Nat \subseteq Equal
    <3> HIDE DEF Equal
    <3> QED  BY <2>5, <2>6, Induct
  <2> QED  BY <2>3, <2>7
<1> QED  BY <1>2, <1>3

LEMMA HalvedNext ==
    ASSUME NEW n \in Nat, NEW b \in Nat
    PROVE  /\ Halved(n, 0) = n
           /\ Halved(n, b) \in Nat
           /\ Halved(n, b + 1) = Halved(n, b) \div 2
<1>1. b + 1 \in Nat /\ b + 1 \in 0..(b + 1) /\ b \in 0..(b + 1) /\ 0 \in 0..(b + 1)
  OBVIOUS
<1>2. PICK h \in [Nat -> Nat] :
          /\ h[0] = n
          /\ \A c \in Nat : h[c + 1] = h[c] \div 2
          /\ \A c \in 0..(b + 1) : Halved(n, c) = h[c]
  BY <1>1, HalvedTable
<1> QED  BY <1>1, <1>2

LEMMA HalvedFourTimes ==
    ASSUME NEW n \in Nat, NEW b \in Nat, NEW m \in Nat, Halved(n, b) < 16 * m
    PROVE  Halved(n, b + 4) < m
<1>1. b + 1 \in Nat /\ b + 2 \in Nat /\ b + 3 \in Nat
  OBVIOUS
<1>2. /\ Halved(n, b) \in Nat /\ Halved(n, b + 1) = Halved(n, b) \div 2
      /\ Halved(n, b + 1) \in Nat /\ Halved(n, (b + 1) + 1) = Halved(n, b + 1) \div 2
      /\ Halved(n, b + 2) \in Nat /\ Halved(n, (b + 2) + 1) = Halved(n, b + 2) \div 2
      /\ Halved(n, b + 3) \in Nat /\ Halved(n, (b + 3) + 1) = Halved(n, b + 3) \div 2
  BY <1>1, HalvedNext
<1>3. (b + 1) + 1 = b + 2 /\ (b + 2) + 1 = b + 3 /\ (b + 3) + 1 = b + 4
  OBVIOUS
<1> DEFINE h0 == Halved(n, b)
           h1 == Halved(n, b + 1)
           h2 == Halved(n, b + 2)
           h3 == Halved(n, b + 3)
           h4 == Halved(n, b + 4)
<1>4. /\ h0 \in Nat /\ h1 \in Nat /\ h2 \in Nat /\ h3 \in Nat
      /\ h1 = h0 \div 2 /\ h2 = h1 \div 2 /\ h3 = h2 \div 2 /\ h4 = h3 \div 2
      /\ h0 < 16 * m
  BY <1>2, <1>3
<1> HIDE DEF h0, h1, h2, h3, h4
<1>5. h4 < m
  BY <1>4
<1> QED  BY <1>5 DEF h4

LEMMA HalvedAway ==
    ASSUME NEW n \in Nat, n <= INT_MAX
    PROVE  Halved(n, 32) = 0
<1>1. Halved(n, 0) < 16 * 134217728
  BY HalvedNext, SMT DEF INT_MAX
<1>2. Halved(n, 4) < 16 * 8388608
  BY <1>1, HalvedFourTimes, SMT
<1>3. Halved(n, 8) < 16 * 524288
  BY <1>2, HalvedFourTimes, SMT
<1>4. Halved(n, 12) < 16 * 32768
  BY <1>3, HalvedFourTimes, SMT
<1>5. Halved(n, 16) < 16 * 2048
  BY <1>4, HalvedFourTimes, SMT
<1>6. Halved(n, 20) < 16 * 128
  BY <1>5, HalvedFourTimes, SMT
<1>7. Halved(n, 24) < 16 * 8
  BY <1>6, HalvedFourTimes, SMT
<1>8. Halved(n, 28) < 8
  BY <1>7, HalvedFourTimes, SMT
<1>9. Halved(n, 32) < 1
  <2>1. Halved(n, 28) < 16 * 1
    BY <1>8, HalvedNext
  <2> QED  BY <2>1, HalvedFourTimes
<1> QED  BY <1>9, HalvedNext

(***************************************************************************)
(* Two words with the same bits are the same.                              *)
(***************************************************************************)
LEMMA BitsDetermine ==
    ASSUME NEW n \in Nat, NEW m \in Nat, n <= INT_MAX, m <= INT_MAX,
           Bits(n) = Bits(m)
    PROVE  n = m
<1> DEFINE S == {k \in Nat : k <= 32 => Halved(n, 32 - k) = Halved(m, 32 - k)}
<1>1. 0 \in S
  BY HalvedAway
<1>2. ASSUME NEW k \in Nat, k \in S
      PROVE  k + 1 \in S
  <2> SUFFICES ASSUME k + 1 <= 32 PROVE Halved(n, 32 - (k + 1)) = Halved(m, 32 - (k + 1))
    OBVIOUS
  <2>1. PICK b \in 0..31 : b = 32 - (k + 1)
    OBVIOUS
  <2>2. b \in Nat /\ b + 1 = 32 - k /\ k <= 32
    BY <2>1
  <2>3. Halved(n, b + 1) = Halved(m, b + 1)
    BY <1>2, <2>2
  <2>4. Halved(n, b) % 2 = 1 <=> Halved(m, b) % 2 = 1
    BY DEF Bits
  <2>5. /\ Halved(n, b) \in Nat /\ Halved(n, b + 1) = Halved(n, b) \div 2
        /\ Halved(m, b) \in Nat /\ Halved(m, b + 1) = Halved(m, b) \div 2
    BY <2>2, HalvedNext
  <2> HIDE DEF S
  <2>6. Halved(n, b) = Halved(m, b)
    BY <2>3, <2>4, <2>5
  <2> QED  BY <2>1, <2>6
<1>3. Nat \subseteq S
  <2> HIDE DEF S
  <2> QED  BY <1>1, <1>2, Induct
<1>4. 32 \in S /\ 32 - 32 = 0
  BY <1>3
<1>5. Halved(n, 0) = Halved(m, 0)
  BY <1>4
<1> QED  BY <1>5, HalvedNext
=============================================================================
