------------------------- MODULE ConfigSessionProofs -------------------------
(***************************************************************************)
(* Theorems about ConfigSession and the modules it is made of, for every   *)
(* number of values of a byte, every contents of the controller, and       *)
(* whatever the user asks for.                                             *)
(***************************************************************************)
EXTENDS ConfigSession, ScaledIntegersProofs, SequenceTheorems, WellFoundedInduction, TLAPS

-----------------------------------------------------------------------------
(* Counting                                                                 *)

LEMMA Least ==
    ASSUME NEW T \in SUBSET Nat, T # {}
    PROVE  \E x \in T : \A y \in T : x <= y
<1> DEFINE R == {p \in Nat \X Nat : p[1] < p[2]}
<1>1. IsWellFoundedOn(R, Nat)
    BY NatLessThanWellFounded DEF OpToRel
<1>2. \E x \in T : \A y \in T : <<y, x>> \notin R
    <2> HIDE DEF R
    <2> QED  BY <1>1, WFMin
<1>3. PICK x \in T : \A y \in T : <<y, x>> \notin R
    BY <1>2
<1>4. \A y \in T : ~(y < x)
    BY <1>3
<1> QED  BY <1>4

LEMMA Upward ==
    ASSUME NEW n \in Nat, NEW T \in SUBSET (0..n), 0 \in T,
           \A i \in 1..n : i - 1 \in T => i \in T
    PROVE  T = 0..n
<1> DEFINE bad == (0..n) \ T
<1>1. SUFFICES ASSUME bad # {} PROVE FALSE
    OBVIOUS
<1>2. bad \in SUBSET Nat
    OBVIOUS
<1>3. PICK i \in bad : \A j \in bad : i <= j
    BY <1>1, <1>2, Least
<1>4. i \in 1..n /\ i - 1 \in 0..n /\ i - 1 \notin bad
    BY <1>3
<1> QED  BY <1>3, <1>4

\* Functions on 0..n that are defined step by step exist.
StepByStep(f, n, zero, step) ==
    \A i \in 0..n : f[i] = IF i = 0 THEN zero ELSE step[<<f[i - 1], i>>]

LEMMA Stepwise ==
    ASSUME NEW V, NEW zero \in V, NEW n \in Nat, NEW step \in [V \X (1..n) -> V]
    PROVE  \E f \in [0..n -> V] : StepByStep(f, n, zero, step)
<1> DEFINE Upto(m, f) == \A i \in 0..m : f[i] = IF i = 0 THEN zero ELSE step[<<f[i - 1], i>>]
           Short(m) == ~\E f \in [0..n -> V] : Upto(m, f)
           short == {m \in 0..n : Short(m)}
<1>1. ~Short(0)
    <2> DEFINE g == [i \in 0..n |-> zero]
    <2>1. g \in [0..n -> V] /\ Upto(0, g)
        OBVIOUS
    <2> QED  BY <2>1
<1>2. ASSUME NEW m \in 1..n, ~Short(m - 1) PROVE ~Short(m)
    <2>1. PICK f \in [0..n -> V] : Upto(m - 1, f)
        BY <1>2
    <2> DEFINE new == step[<<f[m - 1], m>>]
               g == [f EXCEPT ![m] = new]
    <2>2. m - 1 \in 0..n /\ m \in 0..n /\ m # 0 /\ m - 1 # m
        OBVIOUS
    <2>3. new \in V
        BY <2>2
    <2> HIDE DEF new
    <2>4. g \in [0..n -> V] /\ g[m] = new /\ \A i \in 0..m - 1 : g[i] = f[i]
        BY <2>2, <2>3
    <2> HIDE DEF g
    <2>5. g[m] = step[<<g[m - 1], m>>]
        <3>1. m - 1 \in 0..m - 1
            OBVIOUS
        <3>2. g[m - 1] = f[m - 1]
            BY <2>4, <3>1
        <3> QED  BY <2>4, <3>2 DEF new
    <2>6. ASSUME NEW i \in 0..m PROVE g[i] = IF i = 0 THEN zero ELSE step[<<g[i - 1], i>>]
        <3>1. CASE i = m
            BY <2>2, <2>5, <3>1
        <3>2. CASE i # m
            <4>1. i \in 0..m - 1 /\ (i # 0 => i - 1 \in 0..m - 1)
                BY <3>2
            <4>2. f[i] = IF i = 0 THEN zero ELSE step[<<f[i - 1], i>>]
                BY <2>1, <4>1
            <4> QED  BY <2>4, <4>1, <4>2
        <3> QED  BY <3>1, <3>2
    <2> QED  BY <2>4, <2>6
<1> HIDE DEF Short
<1>3. short = {}
    <2>1. SUFFICES ASSUME short # {} PROVE FALSE
        OBVIOUS
    <2>2. short \in SUBSET Nat
        OBVIOUS
    <2>3. PICK m \in short : \A k \in short : m <= k
        BY <2>1, <2>2, Least
    <2>4. m \in 1..n /\ Short(m)
        BY <1>1, <2>3
    <2>5. m - 1 \notin short /\ m - 1 \in 0..n
        BY <2>3, <2>4
    <2> QED  BY <1>2, <2>4, <2>5
<1>4. ~Short(n)
    BY <1>3
<1>5. PICK f \in [0..n -> V] : Upto(n, f)
    BY <1>4 DEF Short
<1> QED  BY <1>5 DEF StepByStep

-----------------------------------------------------------------------------
(* Parts of a sequence                                                      *)

LEMMA Slice ==
    ASSUME NEW S, NEW s \in Seq(S), NEW m \in Nat \ {0}, NEW n \in Nat,
           m <= n + 1, n <= Len(s)
    PROVE  /\ SubSeq(s, m, n) \in Seq(S)
           /\ Len(SubSeq(s, m, n)) = n - m + 1
           /\ \A k \in 1..n - m + 1 : SubSeq(s, m, n)[k] = s[m + k - 1]
<1>1. \A i \in m..n : s[i] \in S
    OBVIOUS
<1>2. /\ SubSeq(s, m, n) \in Seq(S)
      /\ Len(SubSeq(s, m, n)) = IF m <= n THEN n - m + 1 ELSE 0
      /\ \A k \in 1..n - m + 1 : SubSeq(s, m, n)[k] = s[m + k - 1]
    BY <1>1, SubSeqProperties
<1> QED  BY <1>2

LEMMA SameSlice ==
    ASSUME NEW S, NEW s \in Seq(S), NEW m \in Nat \ {0}, NEW n \in Nat,
           m <= n + 1, n <= Len(s),
           NEW t \in Seq(S), Len(t) = n - m + 1, \A k \in 1..Len(t) : t[k] = s[m + k - 1]
    PROVE  SubSeq(s, m, n) = t
<1> DEFINE u == SubSeq(s, m, n)
<1>1. u \in Seq(S) /\ Len(u) = Len(t) /\ \A k \in 1..n - m + 1 : u[k] = s[m + k - 1]
    BY Slice
<1> HIDE DEF u
<1>2. \A k \in 1..Len(u) : u[k] = t[k]
    BY <1>1
<1>3. u = t
    BY <1>1, <1>2, SeqEqual
<1> QED  BY <1>3 DEF u


Joins(st, s, t) ==
    /\ Len(st) = Len(s) + Len(t)
    /\ \A k \in 1..Len(s) : st[k] = s[k]
    /\ \A k \in 1..Len(t) : st[Len(s) + k] = t[k]

LEMMA Joined ==
    ASSUME NEW S, NEW s \in Seq(S), NEW t \in Seq(S)
    PROVE  s \o t \in Seq(S) /\ Joins(s \o t, s, t)
BY DEF Joins

\* Parts that stand one behind the other: where each of them ends.
Ends(parts, end) ==
    /\ end \in [0..Len(parts) -> Nat]
    /\ \A i \in 1..Len(parts) : end[i] = end[i - 1] + Len(parts[i])

LEMMA EndsGrow ==
    ASSUME NEW S, NEW parts \in Seq(Seq(S)), NEW end, Ends(parts, end)
    PROVE  \A i \in 0..Len(parts) : \A j \in 0..i : end[j] <= end[i]
<1> DEFINE n == Len(parts)
           T == {i \in 0..n : \A j \in 0..i : end[j] <= end[i]}
<1>1. n \in Nat /\ end \in [0..n -> Nat] /\ \A i \in 1..n : end[i] = end[i - 1] + Len(parts[i])
    BY DEF Ends
<1>2. \A i \in 1..n : Len(parts[i]) \in Nat
    OBVIOUS
<1> HIDE DEF n
<1>3. 0 \in T
    BY <1>1
<1>4. ASSUME NEW i \in 1..n, i - 1 \in T PROVE i \in T
    <2>1. i - 1 \in 0..n /\ end[i - 1] \in Nat /\ end[i] = end[i - 1] + Len(parts[i]) /\ Len(parts[i]) \in Nat
        BY <1>1, <1>2
    <2>2. ASSUME NEW j \in 0..i PROVE end[j] <= end[i]
        <3>1. CASE j = i
            BY <2>1, <3>1
        <3>2. CASE j # i
            <4>1. j \in 0..i - 1 /\ j \in 0..n
                BY <1>1, <2>1, <3>2
            <4>2. end[j] <= end[i - 1] /\ end[j] \in Nat
                BY <1>1, <1>4, <4>1
            <4> QED  BY <2>1, <4>2
        <3> QED  BY <3>1, <3>2
    <2> QED  BY <2>2
<1>5. T = 0..n
    <2> HIDE DEF T
    <2>1. T \in SUBSET (0..n)
        BY DEF T
    <2> QED  BY <1>1, <1>3, <1>4, <2>1, Upward
<1> QED  BY <1>5 DEF n

\* What of a sequence the first m parts have filled.
Filled(s, parts, end, m) ==
    \A i \in 1..m : \A k \in 1..Len(parts[i]) : s[end[i - 1] - end[0] + k] = parts[i][k]

LEMMA FilledFurther ==
    ASSUME NEW S, NEW parts \in Seq(Seq(S)), NEW end, Ends(parts, end),
           NEW m \in 1..Len(parts),
           NEW s \in Seq(S), Len(s) = end[m - 1] - end[0], Filled(s, parts, end, m - 1)
    PROVE  /\ s \o parts[m] \in Seq(S)
           /\ Len(s \o parts[m]) = end[m] - end[0]
           /\ Filled(s \o parts[m], parts, end, m)
<1> DEFINE p == parts[m]
           t == s \o p
<1> DEFINE n == Len(parts)
<1>0. n \in Nat /\ end \in [0..n -> Nat] /\ \A i \in 1..n : end[i] = end[i - 1] + Len(parts[i])
    BY DEF Ends
<1>1. p \in Seq(S) /\ end[0] \in Nat /\ end[m] \in Nat /\ end[m - 1] \in Nat
      /\ end[m] = end[m - 1] + Len(p)
    <2>1. m \in 1..n /\ parts[m] \in Seq(S)
        OBVIOUS
    <2> HIDE DEF n
    <2>2. m \in 0..n /\ m - 1 \in 0..n /\ 0 \in 0..n
        BY <1>0, <2>1
    <2> QED  BY <1>0, <2>1, <2>2
<1> HIDE DEF p
<1>10. Len(s) \in Nat /\ Len(p) \in Nat
    BY <1>1
<1>2. /\ t \in Seq(S) /\ Len(t) = Len(s) + Len(p)
      /\ \A k \in 1..Len(s) : t[k] = s[k]
      /\ \A k \in 1..Len(p) : t[Len(s) + k] = p[k]
    <2>1. t \in Seq(S) /\ Joins(t, s, p)
        BY <1>1, Joined
    <2> QED  BY <2>1 DEF Joins
<1> HIDE DEF t
<1>3. Len(t) = end[m] - end[0]
    BY <1>1, <1>2
<1>4. ASSUME NEW i \in 1..m, NEW k \in 1..Len(parts[i])
      PROVE  t[end[i - 1] - end[0] + k] = parts[i][k]
    <2>1. CASE i = m
        BY <1>1, <1>2, <1>4, <2>1 DEF p
    <2>2. CASE i # m
        <3>1. i \in 1..m - 1 /\ i \in 0..m - 1 /\ i - 1 \in 0..m - 1 /\ m - 1 \in 0..Len(parts) /\ 0 \in 0..i - 1
              /\ i - 1 \in 0..Len(parts)
            BY <2>2
        <3>2. end[i] <= end[m - 1] /\ end[0] <= end[i - 1]
            BY <3>1, EndsGrow
        <3>3. end[i] \in Nat /\ end[i - 1] \in Nat /\ end[i] = end[i - 1] + Len(parts[i])
              /\ k \in 1..Len(parts[i]) /\ Len(parts[i]) \in Nat
            <4>1. i \in 1..n /\ parts[i] \in Seq(S)
                OBVIOUS
            <4>2. Len(parts[i]) \in Nat
                BY <4>1
            <4> HIDE DEF n
            <4>3. i \in 0..n /\ i - 1 \in 0..n
                BY <1>0, <4>1
            <4>4. end[i] \in Nat /\ end[i - 1] \in Nat /\ end[i] = end[i - 1] + Len(parts[i])
                BY <1>0, <4>1, <4>3
            <4> QED  BY <1>4, <4>2, <4>4
        <3> HIDE DEF n
        <3>4. end[i - 1] - end[0] + k \in 1..Len(s)
            <4> DEFINE e == end[i - 1]
                       o == end[0]
                       f == end[m - 1]
                       l == Len(parts[i])
            <4>1. e \in Nat /\ o \in Nat /\ f \in Nat /\ l \in Nat /\ k \in 1..l /\ o <= e /\ e + l <= f
                BY <1>1, <3>2, <3>3
            <4>2. Len(s) = f - o
                OBVIOUS
            <4> HIDE DEF e, o, f, l
            <4>3. e - o + k \in 1..(f - o)
                BY <4>1
            <4> QED  BY <4>2, <4>3 DEF e, o
        <3>5. s[end[i - 1] - end[0] + k] = parts[i][k]
            BY <3>1, <3>3 DEF Filled
        <3> QED  BY <1>2, <3>4, <3>5
    <2> QED  BY <2>1, <2>2
<1>5. Filled(t, parts, end, m)
    BY <1>4 DEF Filled
<1> QED  BY <1>2, <1>3, <1>5 DEF t, p

LEMMA FlattenFills ==
    ASSUME NEW S, NEW parts \in Seq(Seq(S)), NEW end, Ends(parts, end)
    PROVE  /\ FlattenSeq(parts) \in Seq(S)
           /\ Len(FlattenSeq(parts)) = end[Len(parts)] - end[0]
           /\ Filled(FlattenSeq(parts), parts, end, Len(parts))
<1> DEFINE n == Len(parts)
<1>1. n \in Nat /\ end[0] \in Nat /\ end[n] \in Nat
    BY DEF Ends
<1>2. CASE n = 0
    <2>1. parts = << >> /\ FlattenSeq(parts) = parts
        BY <1>2 DEF FlattenSeq
    <2>2. << >> \in Seq(S) /\ Len(<< >>) = 0
        OBVIOUS
    <2>3. Filled(<< >>, parts, end, n)
        BY <1>2 DEF Filled
    <2>4. end[n] - end[0] = 0
        BY <1>1, <1>2
    <2> QED  BY <2>1, <2>2, <2>3, <2>4
<1>3. CASE n # 0
    <2> DEFINE Body(f, i) == IF i = 1 THEN parts[i] ELSE f[i - 1] \o parts[i]
               flat == CHOOSE f : f = [i \in 1..n |-> Body(f, i)]
               V == Seq(S)
               step == [x \in V \X (1..n) |-> x[1] \o parts[x[2]]]
    <2>1. FlattenSeq(parts) = flat[n]
        BY <1>1, <1>3 DEF FlattenSeq
    <2>2. step \in [V \X (1..n) -> V]
        OBVIOUS
    <2>3. \A c \in V, i \in 1..n : step[<<c, i>>] = c \o parts[i]
        OBVIOUS
    <2>4. << >> \in V
        OBVIOUS
    <2>5. \A i \in 1..n : parts[i] \in V /\ << >> \o parts[i] = parts[i]
        <3>1. \A i \in 1..n : parts[i] \in Seq(S)
            OBVIOUS
        <3> QED  BY <3>1, ConcatEmptySeq
    <2> HIDE DEF n, V, step
    <2>6. PICK f \in [0..n -> V] : StepByStep(f, n, << >>, step)
        BY <1>1, <2>2, <2>4, Stepwise
    <2> DEFINE g == [i \in 1..n |-> f[i]]
    <2>7. ASSUME NEW i \in 1..n PROVE g[i] = Body(g, i)
        <3>1. i \in 0..n /\ i # 0 /\ i - 1 \in 0..n /\ f[i - 1] \in V /\ f[0] = << >> /\ 0 \in 0..n
            <4>1. i \in 0..n /\ i # 0 /\ i - 1 \in 0..n /\ 0 \in 0..n
                BY <1>1
            <4>2. f[0] = << >>
                BY <2>6, <4>1 DEF StepByStep
            <4> QED  BY <4>1, <4>2
        <3>2. f[i] = step[<<f[i - 1], i>>]
            BY <2>6, <3>1 DEF StepByStep
        <3>3. f[i] = f[i - 1] \o parts[i]
            BY <2>3, <3>1, <3>2
        <3>4. CASE i = 1
            <4>1. f[i - 1] = << >>
                BY <3>1, <3>4
            <4>2. f[i] = parts[i]
                BY <2>5, <3>3, <4>1
            <4> QED  BY <3>4, <4>2
        <3>5. CASE i # 1
            <4>1. i - 1 \in 1..n
                BY <1>1, <3>5
            <4> QED  BY <3>3, <3>5, <4>1
        <3> QED  BY <3>4, <3>5
    <2>8. g = [i \in 1..n |-> Body(g, i)]
        BY <2>7
    <2> HIDE DEF g
    <2>9. flat = [i \in 1..n |-> Body(flat, i)]
        BY <2>8
    <2> HIDE DEF flat
    <2> DEFINE Good(i) == /\ flat[i] \in Seq(S) /\ Len(flat[i]) = end[i] - end[0]
                          /\ Filled(flat[i], parts, end, i)
               T == {i \in 0..n : i = 0 \/ Good(i)}
    <2>10. ASSUME NEW i \in 1..n, i - 1 \in T PROVE i \in T
        <3>1. CASE i = 1
            <4>1. flat[i] = parts[i]
                BY <2>9, <3>1
            <4>2. << >> \in Seq(S) /\ Len(<< >>) = end[i - 1] - end[0] /\ Filled(<< >>, parts, end, i - 1)
                BY <1>1, <3>1 DEF Filled
            <4>3. i \in 1..Len(parts)
                BY DEF n
            <4>4. /\ << >> \o parts[i] \in Seq(S)
                  /\ Len(<< >> \o parts[i]) = end[i] - end[0]
                  /\ Filled(<< >> \o parts[i], parts, end, i)
                BY <4>2, <4>3, FilledFurther
            <4> QED  BY <2>5, <4>1, <4>4
        <3>2. CASE i # 1
            <4>1. flat[i] = flat[i - 1] \o parts[i]
                BY <2>9, <3>2
            <4>2. Good(i - 1)
                BY <2>10, <3>2
            <4>3. i \in 1..Len(parts)
                BY DEF n
            <4>4. /\ flat[i - 1] \o parts[i] \in Seq(S)
                  /\ Len(flat[i - 1] \o parts[i]) = end[i] - end[0]
                  /\ Filled(flat[i - 1] \o parts[i], parts, end, i)
                BY <4>2, <4>3, FilledFurther
            <4>5. i \in 0..n
                BY <1>1
            <4> QED  BY <4>1, <4>4, <4>5
        <3> QED  BY <3>1, <3>2
    <2>11. 0 \in T
        BY <1>1
    <2>12. T = 0..n
        <3>1. T \in SUBSET (0..n)
            OBVIOUS
        <3> HIDE DEF T
        <3> QED  BY <1>1, <2>10, <2>11, <3>1, Upward
    <2>13. n \in 0..n /\ n # 0
        BY <1>1, <1>3
    <2>14. Good(n)
        BY <2>12, <2>13
    <2> QED  BY <2>1, <2>14 DEF n
<1> QED  BY <1>2, <1>3

Found(s, head, parts, end, tail) ==
    /\ Len(s) = end[Len(parts)] + Len(tail)
    /\ \A k \in 1..Len(head) : s[k] = head[k]
    /\ \A i \in 1..Len(parts) : SubSeq(s, end[i - 1] + 1, end[i]) = parts[i]

\* Parts that are written one behind the other, each where the last has ended,
\* are found there, whatever stands before and behind them.
LEMMA PartsAreFound ==
    ASSUME NEW S, NEW head \in Seq(S), NEW tail \in Seq(S), NEW parts \in Seq(Seq(S)),
           NEW end, Ends(parts, end), end[0] = Len(head)
    PROVE  /\ head \o FlattenSeq(parts) \o tail \in Seq(S)
           /\ Found(head \o FlattenSeq(parts) \o tail, head, parts, end, tail)
<1> DEFINE n == Len(parts)
           f == FlattenSeq(parts)
           h == Len(head)
           hf == head \o f
           s == hf \o tail
<1>1. n \in Nat /\ end \in [0..n -> Nat] /\ \A i \in 1..n : end[i] = end[i - 1] + Len(parts[i])
    BY DEF Ends
<1>2. f \in Seq(S) /\ Len(f) = end[n] - h /\ Filled(f, parts, end, n)
    BY FlattenFills
<1>3. h \in Nat /\ Len(tail) \in Nat
    OBVIOUS
<1> HIDE DEF f
<1>4. hf \in Seq(S) /\ Joins(hf, head, f)
    BY <1>2, Joined
<1> HIDE DEF hf
<1>5. s \in Seq(S) /\ Joins(s, hf, tail)
    BY <1>4, Joined
<1>6. Len(hf) = end[n] /\ Len(s) = end[n] + Len(tail) /\ end[n] \in Nat
    <2>1. Len(hf) = h + Len(f)
        BY <1>4 DEF Joins
    <2>2. Len(s) = Len(hf) + Len(tail)
        BY <1>5 DEF Joins
    <2> HIDE DEF s, n, h
    <2>3. n \in 0..n
        BY <1>1
    <2>4. end[n] \in Nat
        BY <1>1, <2>3
    <2> QED  BY <1>2, <1>3, <2>1, <2>2, <2>4
<1>7. h <= end[n]
    <2>1. n \in 0..n /\ 0 \in 0..n
        BY <1>1
    <2>2. end[0] <= end[n]
        BY <2>1, EndsGrow
    <2> QED  BY <2>2
<1>8. \A k \in 1..h : s[k] = head[k]
    <2>1. ASSUME NEW k \in 1..h PROVE s[k] = head[k]
        <3>1. hf[k] = head[k]
            BY <1>4 DEF Joins
        <3> HIDE DEF n, h
        <3>2. k \in 1..Len(hf)
            BY <1>3, <1>6, <1>7
        <3>3. s[k] = hf[k]
            BY <1>5, <3>2 DEF Joins
        <3> QED  BY <3>1, <3>3
    <2> QED  BY <2>1
<1>9. ASSUME NEW i \in 1..n PROVE SubSeq(s, end[i - 1] + 1, end[i]) = parts[i]
    <2> DEFINE p == parts[i]
               a == end[i - 1]
               b == end[i]
    <2>1. p \in Seq(S) /\ Len(p) \in Nat
        <3>1. p \in Seq(S)
            OBVIOUS
        <3> QED  BY <3>1
    <2>2. i \in 0..n /\ i - 1 \in 0..n /\ 0 \in 0..i - 1 /\ n \in 0..n
        <3> HIDE DEF n
        <3> QED  BY <1>1
    <2>3. a \in Nat /\ b \in Nat /\ b = a + Len(p)
        BY <1>1, <2>2
    <2>4. h <= a /\ b <= end[n]
        <3>1. end[0] <= end[i - 1]
            BY <2>2, EndsGrow
        <3>2. end[i] <= end[n]
            BY <2>2, EndsGrow
        <3> QED  BY <3>1, <3>2
    <2>5. ASSUME NEW k \in 1..Len(p) PROVE p[k] = s[(a + 1) + k - 1]
        <3>1. f[a - h + k] = p[k]
            BY <1>2 DEF Filled
        <3> HIDE DEF p, a, b, n, h, s
        <3>2. a - h + k \in 1..Len(f) /\ a + k \in 1..Len(hf) /\ h + (a - h + k) = a + k /\ (a + 1) + k - 1 = a + k
            BY <1>2, <1>3, <1>6, <2>1, <2>3, <2>4
        <3>3. PICK j : j = a - h + k
            OBVIOUS
        <3>4. hf[Len(head) + j] = f[j]
            BY <1>4, <3>2, <3>3 DEF Joins
        <3>5. hf[a + k] = p[k]
            BY <3>1, <3>2, <3>3, <3>4 DEF h
        <3>6. s[a + k] = hf[a + k]
            BY <1>5, <3>2 DEF Joins
        <3> QED  BY <3>2, <3>5, <3>6
    <2> HIDE DEF p, a, b, n, h, s
    <2>6. a + 1 \in Nat \ {0} /\ a + 1 <= b + 1 /\ b <= Len(s) /\ Len(p) = b - (a + 1) + 1
        BY <1>3, <1>6, <2>1, <2>3, <2>4
    <2>7. SubSeq(s, a + 1, b) = p
        BY <1>5, <2>1, <2>3, <2>5, <2>6, SameSlice
    <2> QED  BY <2>7 DEF p, a, b
<1> QED  BY <1>5, <1>6, <1>8, <1>9 DEF Found, hf, f

-----------------------------------------------------------------------------
(* Floats                                                                   *)

LEMMA FloatFacts ==
    /\ ExpCount \in Nat \ {0} /\ FracCount \in Nat \ {0}
    /\ ExpCount * FracCount \in Nat \ {0}
    /\ Numbers(4) = 2 * (ExpCount * FracCount)
<1>1. ExpCount \in Nat \ {0} /\ FracCount \in Nat \ {0} /\ Numbers(4) = 2 * (ExpCount * FracCount)
    BY FloatAssumption
<1> QED  BY <1>1, Product

\* The number that has this sign, exponent and fraction.
Composed(a, e, g) == a * (ExpCount * FracCount) + e * FracCount + g

LEMMA ComposedParts ==
    ASSUME NEW a \in 0..1, NEW e \in 0..ExpCount - 1, NEW g \in 0..FracCount - 1
    PROVE  /\ Composed(a, e, g) \in 0..Numbers(4) - 1
           /\ Composed(a, e, g) \div (ExpCount * FracCount) = a
           /\ (Composed(a, e, g) \div FracCount) % ExpCount = e
           /\ Composed(a, e, g) % FracCount = g
<1> DEFINE E == ExpCount
           F == FracCount
           EF == E * F
           u == Composed(a, e, g)
           r == e * F + g
<1>1. E \in Nat \ {0} /\ F \in Nat \ {0} /\ EF \in Nat \ {0} /\ Numbers(4) = 2 * EF
    BY FloatFacts
<1>2. /\ e * F \in Int /\ e * F >= 0 /\ e * F <= EF - F
    <2>1. E - 1 - e \in Nat /\ e \in Nat
        BY <1>1
    <2>2. \A m, n \in Nat : m * n \in Nat
        OBVIOUS
    <2>3. (E - 1 - e) * F \in Nat /\ e * F \in Nat
        BY <1>1, <2>1, <2>2
    <2>4. (E - 1 - e) * F = E * F - F - e * F
        BY <1>1, <2>1
    <2> QED  BY <1>1, <2>3, <2>4
<1>3. r \in 0..EF - 1 /\ r \in Int
    <2> DEFINE m == e * F
    <2>1. m \in Int /\ m >= 0 /\ m <= EF - F /\ r = m + g
        BY <1>2
    <2> HIDE DEF m, EF, r
    <2> QED  BY <1>1, <2>1
<1>4. u = a * EF + r
    <2> DEFINE m == e * F
               k == a * EF
    <2>1. m \in Int /\ u = k + m + g /\ r = m + g /\ k \in Int
        BY <1>1, <1>2 DEF Composed
    <2> HIDE DEF m, k, u, r
    <2> QED  BY <2>1 DEF k
<1>5. u \in 0..Numbers(4) - 1
    <2> HIDE DEF u, EF, r
    <2>1. CASE a = 0
        <3>1. u = r
            BY <1>1, <1>3, <1>4, <2>1
        <3> QED  BY <1>1, <1>3, <3>1
    <2>2. CASE a = 1
        <3>1. u = EF + r
            BY <1>1, <1>3, <1>4, <2>2
        <3> QED  BY <1>1, <1>3, <3>1
    <2> QED  BY <2>1, <2>2
<1>6. u \div EF = a
    <2> HIDE DEF u, EF, r
    <2> QED  BY <1>1, <1>3, <1>4, Combined
<1>7. u = (a * E + e) * F + g
    <2>1. (a * E + e) * F = a * (E * F) + e * F
        BY <1>1
    <2> QED  BY <1>1, <1>2, <2>1 DEF Composed
<1>8. u \div F = a * E + e /\ u % F = g
    <2>1. a * E + e \in Int
        BY <1>1
    <2> HIDE DEF u, EF, r
    <2> QED  BY <1>1, <1>7, <2>1, Combined
<1>9. (a * E + e) % E = e
    <2> HIDE DEF u, EF, r
    <2> QED  BY <1>1, Combined
<1> QED  BY <1>5, <1>6, <1>8, <1>9

LEMMA EveryNumberComposed ==
    ASSUME NEW u \in 0..Numbers(4) - 1
    PROVE  \E a \in 0..1, e \in 0..ExpCount - 1, g \in 0..FracCount - 1 : u = Composed(a, e, g)
<1> DEFINE E == ExpCount
           F == FracCount
           q == u \div F
           g == u % F
<1>1. E \in Nat \ {0} /\ F \in Nat \ {0} /\ E * F \in Nat \ {0} /\ Numbers(4) = 2 * (E * F)
    BY FloatFacts
<1>2. u \in Int /\ u \in 0..2 * (E * F) - 1
    BY <1>1
<1>3. q \in Int /\ g \in 0..F - 1 /\ u = F * q + g
    BY <1>1, <1>2, DivMod
<1>4. q \in 0..(2 * E) - 1
    <2> DEFINE E2 == 2 * E
    <2>1. 2 * (E * F) = F * E2 /\ E2 \in Nat \ {0}
        BY <1>1
    <2> HIDE DEF E, F, E2
    <2>2. u \in 0..(F * E2) - 1 /\ F \in Nat \ {0}
        BY <1>1, <1>2, <2>1
    <2>3. u \div F \in 0..E2 - 1
        BY <2>1, <2>2, Quotient
    <2> QED  BY <2>3 DEF E2
<1> HIDE DEF q, g
<1> DEFINE a == q \div E
           e == q % E
<1>5. e \in 0..E - 1 /\ q = E * a + e /\ a \in Int
    BY <1>1, <1>3, DivMod
<1>6. a \in 0..1
    <2> HIDE DEF E
    <2>1. q \in 0..(E * 2) - 1 /\ E \in Nat \ {0} /\ 2 \in Nat \ {0}
        BY <1>1, <1>4
    <2>2. q \div E \in 0..2 - 1
        BY <2>1, Quotient
    <2> QED  BY <2>2
<1> HIDE DEF a, e
<1>7. u = Composed(a, e, g)
    <2>1. F * (E * a + e) = a * (E * F) + e * F
        BY <1>1, <1>5
    <2> QED  BY <1>3, <1>5, <2>1 DEF Composed
<1> QED  BY <1>3, <1>5, <1>6, <1>7

LEMMA FloatOfComposed ==
    ASSUME NEW a \in 0..1, NEW e \in 0..ExpCount - 1, NEW g \in 0..FracCount - 1
    PROVE  FloatOf(Composed(a, e, g)) = [neg |-> a = 1, exp |-> e, frac |-> 2 * g]
BY ComposedParts DEF FloatOf

\* What is read is a float, and what is written is a number of four bytes.
LEMMA FloatOfIsFloat ==
    ASSUME NEW u \in 0..Numbers(4) - 1
    PROVE  FloatOf(u) \in Floats
<1>1. PICK a \in 0..1, e \in 0..ExpCount - 1, g \in 0..FracCount - 1 : u = Composed(a, e, g)
    BY EveryNumberComposed
<1>2. FloatOf(u) = [neg |-> a = 1, exp |-> e, frac |-> 2 * g]
    BY <1>1, FloatOfComposed
<1>3. 2 * g \in 0..2 * FracCount - 1 /\ (a = 1) \in BOOLEAN
    BY FloatFacts
<1> QED  BY <1>2, <1>3 DEF Floats

LEMMA BitsOfFloat ==
    ASSUME NEW v \in Floats, ~Tiny(v)
    PROVE  /\ v.frac \div 2 \in 0..FracCount - 1
           /\ v.frac - 2 * (v.frac \div 2) \in {0, 1}
           /\ FloatBits(v) = Composed(IF v.neg THEN 1 ELSE 0, v.exp, v.frac \div 2)
<1> DEFINE g == v.frac \div 2
           f == v.frac
<1>1. v.neg \in BOOLEAN /\ v.exp \in 0..ExpCount - 1 /\ f \in 0..2 * FracCount - 1
    BY DEF Floats
<1>2. ExpCount \in Nat \ {0} /\ FracCount \in Nat \ {0} /\ ExpCount * FracCount \in Nat \ {0}
    BY FloatFacts
<1>3. v.exp % ExpCount = v.exp /\ v.exp \in Int
    BY <1>1, <1>2, ModWithin
<1>4. f \in Int /\ g \in Int /\ f % 2 \in 0..1 /\ f = 2 * g + (f % 2)
    <2>1. f \in Int /\ 2 \in Nat \ {0}
        BY <1>1
    <2> HIDE DEF f
    <2>2. f \div 2 \in Int /\ f % 2 \in 0..2 - 1 /\ f = 2 * (f \div 2) + (f % 2)
        BY <2>1, DivMod
    <2> QED  BY <2>1, <2>2 DEF f
<1>5. g \in 0..FracCount - 1 /\ f - 2 * g \in {0, 1}
    <2> HIDE DEF f, g
    <2> QED  BY <1>1, <1>2, <1>4
<1>6. FloatBits(v) = (IF v.neg THEN ExpCount * FracCount ELSE 0) + (v.exp % ExpCount) * FracCount + g
    BY DEF FloatBits
<1>7. FloatBits(v) = Composed(IF v.neg THEN 1 ELSE 0, v.exp, g)
    <2> HIDE DEF g
    <2>1. 1 * (ExpCount * FracCount) = ExpCount * FracCount /\ 0 * (ExpCount * FracCount) = 0
        BY <1>2
    <2> QED  BY <1>3, <1>6, <2>1 DEF Composed
<1> QED  BY <1>5, <1>7

LEMMA FloatBitsWithin ==
    ASSUME NEW v \in Floats
    PROVE  FloatBits(v) \in 0..Numbers(4) - 1
<1>1. CASE Tiny(v)
    <2>1. FloatBits(v) = 0
        BY <1>1 DEF FloatBits
    <2> QED  BY <2>1, FloatFacts
<1>2. CASE ~Tiny(v)
    <2> DEFINE a == IF v.neg THEN 1 ELSE 0
    <2>1. a \in 0..1 /\ v.exp \in 0..ExpCount - 1
        BY DEF Floats
    <2>2. FloatBits(v) = Composed(a, v.exp, v.frac \div 2) /\ v.frac \div 2 \in 0..FracCount - 1
        BY <1>2, BitsOfFloat
    <2> HIDE DEF a
    <2> QED  BY <2>1, <2>2, ComposedParts
<1> QED  BY <1>1, <1>2

\* A number that is read as a float and written again is the same, unless the
\* float is too small for an exponent.
LEMMA FloatWrittenBack ==
    ASSUME NEW u \in 0..Numbers(4) - 1, ~Tiny(FloatOf(u))
    PROVE  FloatBits(FloatOf(u)) = u
<1>1. PICK a \in 0..1, e \in 0..ExpCount - 1, g \in 0..FracCount - 1 : u = Composed(a, e, g)
    BY EveryNumberComposed
<1> DEFINE v == FloatOf(u)
<1>2. v.neg = (a = 1) /\ v.exp = e /\ v.frac = 2 * g
    BY <1>1, FloatOfComposed
<1>3. v \in Floats
    BY FloatOfIsFloat
<1>4. FloatBits(v) = Composed(IF v.neg THEN 1 ELSE 0, v.exp, v.frac \div 2)
    BY <1>3, BitsOfFloat
<1> HIDE DEF v
<1>5. v.frac \div 2 = g
    <2>1. g \in Int
        BY FloatFacts
    <2> QED  BY <1>2, <2>1
<1>6. (IF v.neg THEN 1 ELSE 0) = a
    <2>1. CASE a = 1
        <3>1. v.neg
            BY <1>2, <2>1
        <3> QED  BY <2>1, <3>1
    <2>2. CASE a = 0
        <3>1. a # 1
            BY <2>2
        <3>2. ~v.neg
            BY <1>2, <3>1, Zenon
        <3> QED  BY <2>2, <3>2
    <2> QED  BY <2>1, <2>2
<1> QED  BY <1>1, <1>2, <1>4, <1>5, <1>6 DEF v

-----------------------------------------------------------------------------
(* Parameters                                                               *)

LEMMA TypeCases ==
    ASSUME NEW type \in Type
    PROVE  /\ BytesOf(type) \in Widths
           /\ \/ type = "Bool" /\ BytesOf(type) = 1
              \/ type \in Unsigneds
              \/ type \in Integer \ Unsigneds
              \/ type \in Rounded
              \/ type = "Double32_Auto" /\ BytesOf(type) = 4
           /\ type \in Rounded => type \notin Integer
           /\ type \in {"Bool", "Double32_Auto"} => type \notin Integer \cup Rounded
           /\ type \in Unsigneds => type \in Integer
BY DEF Type, BytesOf, Widths, Unsigneds, Integer, Rounded

\* A value that a parameter of the type may be given.
Allowed(type, v) ==
    /\ type = "Bool" => v \in BOOLEAN
    /\ type \in Integer \cup Rounded => v \in Int
    /\ type = "Double32_Auto" => v \in Floats

\* What Write and Read are for each kind of type.
LEMMA WriteIs ==
    ASSUME NEW type \in Type, NEW v
    PROVE  /\ type = "Bool" => Write(type, v) = <<IF v THEN 1 ELSE 0>>
           /\ type \in Unsigneds => Write(type, v) = Digits(v, BytesOf(type))
           /\ type \in Integer \ Unsigneds => Write(type, v) = SignedDigits(v, BytesOf(type))
           /\ type \in Rounded => Write(type, v) = SignedDigits(RoundedHalfSteps(v), BytesOf(type))
           /\ type = "Double32_Auto" => Write(type, v) = Digits(FloatBits(v), 4)
BY DEF Write, Unsigneds, Integer, Rounded

LEMMA ReadIs ==
    ASSUME NEW type \in Type, NEW bytes
    PROVE  /\ type = "Bool" => Read(type, bytes) = (Unsigned(bytes) # 0)
           /\ type \in Unsigneds => Read(type, bytes) = Unsigned(bytes)
           /\ type \in Integer \ Unsigneds => Read(type, bytes) = Signed(bytes)
           /\ type \in Rounded => Read(type, bytes) = 2 * Signed(bytes)
           /\ type = "Double32_Auto" => Read(type, bytes) = FloatOf(Unsigned(bytes))
BY DEF Read, Unsigneds, Integer, Rounded

LEMMA DigitsAreBytes ==
    ASSUME NEW n \in Widths, NEW k \in Int, FitsUnsigned(k, n)
    PROVE  Digits(k, n) \in Seq(Byte) /\ Len(Digits(k, n)) = n /\ Unsigned(Digits(k, n)) = k
<1>1. k \in 0..Numbers(n) - 1
    BY WidthFacts DEF FitsUnsigned
<1> QED  BY <1>1, DigitsReadBack

\* serialise gives as many bytes as the type has, for every value that it does
\* not refuse.
LEMMA WriteIsBytes ==
    ASSUME NEW type \in Type, NEW v, Allowed(type, v), Serialisable(type, v)
    PROVE  Write(type, v) \in Seq(Byte) /\ Len(Write(type, v)) = BytesOf(type)
<1>1. CASE type = "Bool"
    <2>1. 0 \in Byte /\ 1 \in Byte
        BY BaseAssumption DEF Byte
    <2>2. \A b \in Byte : <<b>> \in Seq(Byte) /\ Len(<<b>>) = 1
        OBVIOUS
    <2>3. Write(type, v) = <<IF v THEN 1 ELSE 0>> /\ BytesOf(type) = 1
        BY <1>1, WriteIs, TypeCases DEF Unsigneds, Integer, Rounded
    <2> QED  BY <2>1, <2>2, <2>3
<1>2. CASE type \in Unsigneds
    <2>1. Write(type, v) = Digits(v, BytesOf(type)) /\ v \in Int
        BY <1>2, WriteIs, TypeCases DEF Allowed
    <2>2. FitsUnsigned(v, BytesOf(type))
        BY <1>2 DEF Serialisable, Unsigneds, Integer, Rounded
    <2> QED  BY <2>1, <2>2, TypeCases, DigitsAreBytes
<1>3. CASE type \in Integer \ Unsigneds
    <2>1. Write(type, v) = SignedDigits(v, BytesOf(type)) /\ v \in Int
        BY <1>3, WriteIs DEF Allowed
    <2> QED  BY <2>1, TypeCases, SignedDigitsAreBytes
<1>4. CASE type \in Rounded
    <2>1. Write(type, v) = SignedDigits(RoundedHalfSteps(v), BytesOf(type)) /\ v \in Int
        BY <1>4, WriteIs DEF Allowed
    <2>2. RoundedHalfSteps(v) \in Int
        BY <2>1, RoundedIsNearest
    <2> QED  BY <2>1, <2>2, TypeCases, SignedDigitsAreBytes
<1>5. CASE type = "Double32_Auto"
    <2>1. Write(type, v) = Digits(FloatBits(v), 4) /\ v \in Floats /\ BytesOf(type) = 4
        BY <1>5, WriteIs, TypeCases DEF Allowed, Unsigneds, Integer, Rounded
    <2>2. FloatBits(v) \in 0..Numbers(4) - 1 /\ 4 \in Widths
        BY <2>1, FloatBitsWithin DEF Widths
    <2> QED  BY <2>1, <2>2, DigitsReadBack
<1> QED  BY <1>1, <1>2, <1>3, <1>4, <1>5, TypeCases

LEMMA SignedWithin ==
    ASSUME NEW n \in Widths, NEW bytes \in Seq(Byte), Len(bytes) = n
    PROVE  Signed(bytes) \in Lowest(n)..Highest(n)
<1>1. Signed(bytes) \in Int /\ Fits(Signed(bytes), n)
    BY SignedFits
<1>2. Lowest(n) \in Int /\ Highest(n) \in Int
    BY Halves
<1> QED  BY <1>1, <1>2 DEF Fits

\* Whatever the bytes are, deserialise makes a value of them that the type has.
LEMMA ReadIsValue ==
    ASSUME NEW type \in Type, NEW bytes \in Seq(Byte), Len(bytes) = BytesOf(type)
    PROVE  /\ Read(type, bytes) \in ValueOf(type)
           /\ Allowed(type, Read(type, bytes))
<1> DEFINE n == BytesOf(type)
           u == Unsigned(bytes)
           s == Signed(bytes)
<1>1. n \in Widths
    BY TypeCases
<1> HIDE DEF n
<1>2. u \in 0..Numbers(n) - 1 /\ u \in Int
    <2>1. Len(bytes) = n
        BY DEF n
    <2>2. u \in 0..Numbers(n) - 1
        BY <1>1, <2>1, UnsignedWithin
    <2> QED  BY <2>2
<1>3. s \in Lowest(n)..Highest(n) /\ s \in Int /\ 2 * s \in Int
    <2>1. Len(bytes) = n
        BY DEF n
    <2>2. s \in Lowest(n)..Highest(n)
        BY <1>1, <2>1, SignedWithin
    <2>3. s \in Int
        BY <1>1, <2>1, SignedFits
    <2> HIDE DEF s
    <2> QED  BY <2>2, <2>3
<1> HIDE DEF u, s
<1>4. CASE type = "Bool"
    BY <1>4, ReadIs DEF ValueOf, Allowed, Unsigneds, Integer, Rounded
<1>5. CASE type \in Unsigneds
    <2>1. ValueOf(type) = 0..Numbers(n) - 1
        BY <1>5 DEF ValueOf, Unsigneds, Integer, Rounded, n
    <2> QED  BY <1>2, <1>5, <2>1, ReadIs, TypeCases DEF Allowed, u
<1>6. CASE type \in Integer \ Unsigneds
    <2>1. ValueOf(type) = Lowest(n)..Highest(n)
        BY <1>6 DEF ValueOf, Unsigneds, Integer, Rounded, n
    <2>2. type # "Bool" /\ type # "Double32_Auto"
        BY <1>6, TypeCases
    <2> QED  BY <1>3, <1>6, <2>1, <2>2, ReadIs DEF Allowed, s
<1>7. CASE type \in Rounded
    <2>1. ValueOf(type) = {2 * k : k \in Lowest(n)..Highest(n)}
        BY <1>7 DEF ValueOf, Unsigneds, Integer, Rounded, n
    <2>2. type # "Bool" /\ type # "Double32_Auto"
        BY <1>7, TypeCases
    <2>3. Read(type, bytes) = 2 * s
        BY <1>7, ReadIs DEF s
    <2> QED  BY <1>3, <2>1, <2>2, <2>3 DEF Allowed
<1>8. CASE type = "Double32_Auto"
    <2>1. ValueOf(type) = Floats
        BY <1>8 DEF ValueOf, Unsigneds, Integer, Rounded
    <2>2. n = 4
        BY <1>8, TypeCases DEF n, Unsigneds, Integer, Rounded
    <2>3. FloatOf(u) \in Floats
        BY <1>2, <2>2, FloatOfIsFloat
    <2>4. Read(type, bytes) = FloatOf(u)
        BY <1>8, ReadIs DEF u
    <2>5. type \notin Integer \cup Rounded /\ type # "Bool"
        BY <1>8, TypeCases
    <2> QED  BY <2>1, <2>3, <2>4, <2>5 DEF Allowed
<1> QED  BY <1>4, <1>5, <1>6, <1>7, <1>8, TypeCases

LEMMA TinyIsZero ==
    /\ Digits(0, 4) = <<0, 0, 0, 0>>
<1> DEFINE z == <<0, 0, 0, 0>>
<1>1. 0 \in Byte /\ 4 \in Widths
    BY BaseFacts DEF Byte, Widths
<1>2. z \in Seq(Byte) /\ Len(z) = 4 /\ z[1] = 0 /\ z[2] = 0 /\ z[3] = 0 /\ z[4] = 0
    BY <1>1
<1> HIDE DEF z
<1>3. Unsigned(z) = TwoBytes(z, 1) * Square + TwoBytes(z, 3)
    BY <1>2 DEF Unsigned
<1>4. TwoBytes(z, 1) = 0 /\ TwoBytes(z, 3) = 0
    BY <1>2, BaseFacts DEF TwoBytes
<1>5. Unsigned(z) = 0
    BY <1>3, <1>4, BaseFacts
<1>6. Digits(Unsigned(z), 4) = z
    BY <1>1, <1>2, DigitsOfUnsigned
<1> QED  BY <1>5, <1>6 DEF z

LEMMA BoolWritten ==
    ASSUME NEW bytes \in Seq(Byte), Len(bytes) = 1
    PROVE  SameMeaning("Bool", bytes, <<IF Unsigned(bytes) # 0 THEN 1 ELSE 0>>)
<1>1. Unsigned(bytes) = bytes[1] /\ bytes = <<bytes[1]>>
    BY DEF Unsigned
<1>2. CASE bytes[1] = 0
    BY <1>1, <1>2 DEF SameMeaning
<1>3. CASE bytes[1] # 0
    <2>1. <<IF Unsigned(bytes) # 0 THEN 1 ELSE 0>> = <<1>>
        BY <1>1, <1>3
    <2>2. bytes # <<0>>
        <3>1. <<0>>[1] = 0
            OBVIOUS
        <3> QED  BY <1>3, <3>1
    <2> QED  BY <2>1, <2>2 DEF SameMeaning
<1> QED  BY <1>2, <1>3

\* A parameter that nobody touches: whatever bytes it was read from, serialise
\* does not refuse it, and writes bytes that mean the same to the controller.
THEOREM UntouchedIsKept ==
    ASSUME NEW type \in Type, NEW bytes \in Seq(Byte), Len(bytes) = BytesOf(type)
    PROVE  /\ Serialisable(type, Read(type, bytes))
           /\ SameMeaning(type, bytes, Write(type, Read(type, bytes)))
<1> DEFINE n == BytesOf(type)
           u == Unsigned(bytes)
           s == Signed(bytes)
           v == Read(type, bytes)
<1>1. n \in Widths
    BY TypeCases
<1>2. u \in 0..Numbers(n) - 1 /\ Digits(u, n) = bytes
    BY <1>1, UnsignedWithin, DigitsOfUnsigned
<1>3. s \in Int /\ Fits(s, n) /\ SignedDigits(s, n) = bytes
    BY <1>1, SignedFits, DigitsOfSigned
<1>4. CASE type = "Bool"
    <2>1. Write(type, v) = <<IF v THEN 1 ELSE 0>> /\ v = (u # 0)
        BY <1>4, WriteIs, ReadIs
    <2>2. Len(bytes) = 1
        BY <1>4, TypeCases DEF Unsigneds, Integer, Rounded
    <2>3. SameMeaning("Bool", bytes, <<IF u # 0 THEN 1 ELSE 0>>)
        BY <2>2, BoolWritten
    <2>4. Serialisable(type, v)
        BY <1>4 DEF Serialisable, Unsigneds, Integer, Rounded
    <2> QED  BY <1>4, <2>1, <2>3, <2>4
<1>5. CASE type \in Unsigneds
    <2>1. Write(type, v) = Digits(v, n) /\ v = u
        BY <1>5, WriteIs, ReadIs
    <2>2. Serialisable(type, v) = FitsUnsigned(v, n)
        BY <1>5 DEF Serialisable, Unsigneds, Integer, Rounded
    <2> HIDE DEF u, v, n, s
    <2>3. FitsUnsigned(u, n)
        BY <1>1, <1>2, WidthFacts DEF FitsUnsigned
    <2> QED  BY <1>2, <2>1, <2>2, <2>3 DEF SameMeaning, v
<1>6. CASE type \in Integer \ Unsigneds
    <2>1. Write(type, v) = SignedDigits(v, n) /\ v = s
        BY <1>6, WriteIs, ReadIs
    <2>2. Serialisable(type, v) = Fits(v, n)
        BY <1>6 DEF Serialisable, Unsigneds, Integer, Rounded
    <2> HIDE DEF u, v, n, s
    <2> QED  BY <1>3, <2>1, <2>2 DEF SameMeaning, v
<1>7. CASE type \in Rounded
    <2>1. Write(type, v) = SignedDigits(RoundedHalfSteps(v), n) /\ v = 2 * s
        BY <1>7, WriteIs, ReadIs
    <2>2. Serialisable(type, v) = Fits(RoundedHalfSteps(v), n)
        BY <1>7 DEF Serialisable, Unsigneds, Integer, Rounded
    <2> HIDE DEF u, v, n, s
    <2>3. RoundedHalfSteps(v) = s
        <3>1. v \in 2 * s..2 * s
            BY <1>3, <2>1
        <3>2. RoundedHalfSteps(v) \in s..s
            BY <1>3, <3>1, RoundedKeepsRange
        <3> QED  BY <1>3, <3>2
    <2> QED  BY <1>3, <2>1, <2>2, <2>3 DEF SameMeaning, v
<1>8. CASE type = "Double32_Auto"
    <2>1. Write(type, v) = Digits(FloatBits(v), 4) /\ v = FloatOf(u)
        BY <1>8, WriteIs, ReadIs
    <2>2. n = 4
        BY <1>8, TypeCases DEF Unsigneds, Integer, Rounded
    <2>3. Serialisable(type, v)
        BY <1>8 DEF Serialisable, Unsigneds, Integer, Rounded
    <2>4. CASE Tiny(FloatOf(u))
        <3>1. FloatBits(v) = 0
            BY <2>1, <2>4 DEF FloatBits
        <3>2. Write(type, v) = <<0, 0, 0, 0>>
            BY <2>1, <3>1, TinyIsZero
        <3> QED  BY <1>8, <2>3, <2>4, <3>2 DEF SameMeaning
    <2>5. CASE ~Tiny(FloatOf(u))
        <3>1. FloatBits(FloatOf(u)) = u
            BY <1>2, <2>2, <2>5, FloatWrittenBack
        <3>2. Write(type, v) = bytes
            BY <1>2, <2>1, <2>2, <3>1
        <3> QED  BY <2>3, <3>2 DEF SameMeaning
    <2> QED  BY <2>4, <2>5
<1> QED  BY <1>4, <1>5, <1>6, <1>7, <1>8, TypeCases

\* A parameter that the user has set: what serialise does not refuse it writes,
\* to the step.
THEOREM SetIsWritten ==
    ASSUME NEW type \in Type, NEW v, Allowed(type, v), Serialisable(type, v)
    PROVE  Says(type, v, Write(type, v))
<1> DEFINE n == BytesOf(type)
           bytes == Write(type, v)
<1>1. n \in Widths
    BY TypeCases
<1>2. CASE type = "Bool"
    BY <1>2, WriteIs DEF Says, Unsigneds, Integer, Rounded
<1>3. CASE type \in Unsigneds
    <2>1. bytes = Digits(v, n) /\ v \in Int
        BY <1>3, WriteIs, TypeCases DEF Allowed
    <2>2. FitsUnsigned(v, n)
        BY <1>3 DEF Serialisable, Unsigneds, Integer, Rounded
    <2>3. Says(type, v, bytes) = (Unsigned(bytes) = v)
        BY <1>3 DEF Says, Unsigneds, Integer, Rounded
    <2> HIDE DEF n, bytes
    <2>4. Unsigned(bytes) = v
        BY <1>1, <2>1, <2>2, DigitsAreBytes
    <2> QED  BY <2>3, <2>4 DEF bytes
<1>4. CASE type \in Integer \ Unsigneds
    <2>1. bytes = SignedDigits(v, n) /\ v \in Int
        BY <1>4, WriteIs DEF Allowed
    <2>2. Fits(v, n)
        BY <1>4 DEF Serialisable, Unsigneds, Integer, Rounded
    <2>3. Says(type, v, bytes) = (Signed(bytes) = v)
        BY <1>4 DEF Says, Unsigneds, Integer, Rounded
    <2> HIDE DEF n, bytes
    <2>4. Signed(bytes) = v
        BY <1>1, <2>1, <2>2, NumbersReadBack
    <2> QED  BY <2>3, <2>4 DEF bytes
<1>5. CASE type \in Rounded
    <2> DEFINE k == RoundedHalfSteps(v)
    <2>1. bytes = SignedDigits(k, n) /\ v \in Int
        BY <1>5, WriteIs DEF Allowed
    <2>2. Fits(k, n)
        BY <1>5 DEF Serialisable, Unsigneds, Integer, Rounded
    <2>3. Says(type, v, bytes) = (Magnitude(2 * Signed(bytes) - v) <= 1)
        BY <1>5 DEF Says, Unsigneds, Integer, Rounded
    <2>4. k \in Int /\ 2 * k - v \in -1..1
        BY <2>1, RoundedIsNearest
    <2> HIDE DEF n, bytes, k
    <2>5. Signed(bytes) = k
        BY <1>1, <2>1, <2>2, <2>4, NumbersReadBack
    <2>6. Magnitude(2 * k - v) <= 1
        BY <2>1, <2>4 DEF Magnitude
    <2> QED  BY <2>3, <2>5, <2>6 DEF bytes
<1>6. CASE type = "Double32_Auto"
    <2>1. bytes = Digits(FloatBits(v), 4) /\ v \in Floats
        BY <1>6, WriteIs DEF Allowed
    <2> DEFINE f == FloatOf(Unsigned(bytes))
    <2>2. Says(type, v, bytes) = \/ Tiny(v) /\ bytes = <<0, 0, 0, 0>>
                                 \/ f.neg = v.neg /\ f.exp = v.exp /\ v.frac - f.frac \in {0, 1}
        BY <1>6 DEF Says, Unsigneds, Integer, Rounded
    <2>3. CASE Tiny(v)
        <3>1. FloatBits(v) = 0
            BY <2>3 DEF FloatBits
        <3> HIDE DEF f
        <3>2. bytes = <<0, 0, 0, 0>>
            BY <2>1, <3>1, TinyIsZero
        <3> QED  BY <2>2, <2>3, <3>2
    <2>4. CASE ~Tiny(v)
        <3> DEFINE a == IF v.neg THEN 1 ELSE 0
                   e == v.exp
                   g == v.frac \div 2
        <3>1. FloatBits(v) = Composed(a, e, g) /\ g \in 0..FracCount - 1 /\ v.frac - 2 * g \in {0, 1}
            BY <2>1, <2>4, BitsOfFloat
        <3>2. a \in 0..1 /\ e \in 0..ExpCount - 1 /\ v.neg \in BOOLEAN
            BY <2>1 DEF Floats
        <3>3. (a = 1) = v.neg
            BY <3>2
        <3> HIDE DEF bytes
        <3>4. Unsigned(bytes) = FloatBits(v)
            <4>1. FloatBits(v) \in 0..Numbers(4) - 1 /\ 4 \in Widths
                BY <2>1, FloatBitsWithin DEF Widths
            <4> QED  BY <2>1, <4>1, DigitsReadBack
        <3> HIDE DEF a, e, g
        <3>5. f = [neg |-> a = 1, exp |-> e, frac |-> 2 * g]
            BY <3>1, <3>2, <3>4, FloatOfComposed
        <3> HIDE DEF f
        <3>6. f.neg = v.neg /\ f.exp = v.exp /\ f.frac = 2 * g
            BY <3>3, <3>5 DEF e
        <3> QED  BY <2>2, <3>1, <3>6 DEF bytes
    <2> QED  BY <2>3, <2>4
<1> QED  BY <1>2, <1>3, <1>4, <1>5, <1>6, TypeCases

-----------------------------------------------------------------------------
(* The generated code                                                       *)

LEMMA TimesIs ==
    ASSUME NEW n \in Nat, NEW type \in Type
    PROVE  Times(n, type) \in Seq(Type)
BY DEF Times

LEMMA Pieces ==
    \A n \in Nat :
       /\ Bool(n) \in Seq(Type) /\ UInt8(n) \in Seq(Type) /\ Int8(n) \in Seq(Type)
       /\ UInt16(n) \in Seq(Type) /\ Int16(n) \in Seq(Type)
       /\ UInt32(n) \in Seq(Type) /\ Int32(n) \in Seq(Type)
       /\ Half(n) \in Seq(Type) /\ Single(n) \in Seq(Type)
<1> {"Bool", "UInt8", "Int8", "UInt16", "Int16", "UInt32", "Int32", "Double16", "Double32_Auto"}
        \subseteq Type
    BY DEF Type, Integer, Rounded
<1> QED
    BY TimesIs DEF Bool, UInt8, Int8, UInt16, Int16, UInt32, Int32, Half, Single

LEMMA TypesJoin ==
    \A s, t \in Seq(Type) : s \o t \in Seq(Type)
OBVIOUS

LEMMA McTypes ==
    /\ McMode \in Seq(Type) /\ McLimits \in Seq(Type) /\ McSensorless \in Seq(Type)
    /\ McHall \in Seq(Type) /\ McFoc \in Seq(Type) /\ McGpd \in Seq(Type)
    /\ McSpeedPid \in Seq(Type) /\ McPositionPid \in Seq(Type) /\ McCurrent \in Seq(Type)
    /\ McGeneral \in Seq(Type) /\ McSetup \in Seq(Type) /\ McBms \in Seq(Type)
<1> \A n \in 1..13 : n \in Nat
    OBVIOUS
<1>1. McMode \in Seq(Type)  BY Pieces, TypesJoin DEF McMode
<1>2. McLimits \in Seq(Type)  BY Pieces, TypesJoin DEF McLimits
<1>3. McSensorless \in Seq(Type)  BY Pieces, TypesJoin DEF McSensorless
<1>4. McHall \in Seq(Type)  BY Pieces, TypesJoin DEF McHall
<1>5. McFoc \in Seq(Type)  BY Pieces, TypesJoin DEF McFoc
<1>6. McGpd \in Seq(Type)  BY Pieces, TypesJoin DEF McGpd
<1>7. McSpeedPid \in Seq(Type)  BY Pieces, TypesJoin DEF McSpeedPid
<1>8. McPositionPid \in Seq(Type)  BY Pieces, TypesJoin DEF McPositionPid
<1>9. McCurrent \in Seq(Type)  BY Pieces, TypesJoin DEF McCurrent
<1>10. McGeneral \in Seq(Type)  BY Pieces, TypesJoin DEF McGeneral
<1>11. McSetup \in Seq(Type)  BY Pieces, TypesJoin DEF McSetup
<1>12. McBms \in Seq(Type)  BY Pieces, TypesJoin DEF McBms
<1> QED  BY <1>1, <1>2, <1>3, <1>4, <1>5, <1>6, <1>7, <1>8, <1>9, <1>10, <1>11, <1>12

LEMMA AppTypes ==
    /\ AppGeneral \in Seq(Type) /\ AppPpm \in Seq(Type) /\ AppAdc \in Seq(Type)
    /\ AppUart \in Seq(Type) /\ AppChuk \in Seq(Type) /\ AppNrf \in Seq(Type)
    /\ AppBalance \in Seq(Type) /\ AppPas \in Seq(Type) /\ AppImu \in Seq(Type)
<1> \A n \in 1..13 : n \in Nat
    OBVIOUS
<1>1. AppGeneral \in Seq(Type)  BY Pieces, TypesJoin DEF AppGeneral
<1>2. AppPpm \in Seq(Type)  BY Pieces, TypesJoin DEF AppPpm
<1>3. AppAdc \in Seq(Type)  BY Pieces, TypesJoin DEF AppAdc
<1>4. AppUart \in Seq(Type)  BY Pieces, TypesJoin DEF AppUart
<1>5. AppChuk \in Seq(Type)  BY Pieces, TypesJoin DEF AppChuk
<1>6. AppNrf \in Seq(Type)  BY Pieces, TypesJoin DEF AppNrf
<1>7. AppBalance \in Seq(Type)  BY Pieces, TypesJoin DEF AppBalance
<1>8. AppPas \in Seq(Type)  BY Pieces, TypesJoin DEF AppPas
<1>9. AppImu \in Seq(Type)  BY Pieces, TypesJoin DEF AppImu
<1> QED  BY <1>1, <1>2, <1>3, <1>4, <1>5, <1>6, <1>7, <1>8, <1>9

LEMMA LayoutIs ==
    ASSUME NEW kind \in Kind
    PROVE  Layout[kind] \in Seq(Type)
<1>1. Layout["mcconf"] \in Seq(Type)
    BY McTypes, TypesJoin DEF Layout
<1>2. Layout["appconf"] \in Seq(Type)
    BY AppTypes, TypesJoin DEF Layout
<1> QED  BY <1>1, <1>2 DEF Kind

\* Four bytes, and the first of them tells the kinds apart.
LEMMA SignatureIs ==
    /\ \A kind \in Kind : Signature[kind] \in Seq(Byte) /\ Len(Signature[kind]) = 4
    /\ \A kind, other \in Kind : Signature[kind] = Signature[other] => kind = other
<1>1. \A k \in Int : k % Base \in Byte
    BY BaseFacts, DivMod DEF Byte
<1>2. \A a, b, c, d \in Byte :
         <<a, b, c, d>> \in Seq(Byte) /\ Len(<<a, b, c, d>>) = 4 /\ <<a, b, c, d>>[1] = a
    OBVIOUS
<1>3. 46 % Base # 29 % Base
    <2>1. PICK half \in 2..Base : Base = 2 * half
        BY BaseAssumption
    <2> DEFINE q == 46 \div Base
               r == 29 \div Base
               m == 46 % Base
               n == 29 % Base
    <2>2. q \in Int /\ m \in Int /\ 46 = Base * q + m /\ r \in Int /\ n \in Int /\ 29 = Base * r + n
        BY BaseFacts, DivMod
    <2> HIDE DEF q, r, m, n
    <2> SUFFICES ASSUME m = n PROVE FALSE
        BY DEF m, n
    <2>3. Base * q = 2 * (half * q) /\ Base * r = 2 * (half * r) /\ half * q \in Int /\ half * r \in Int
        BY <2>1, <2>2
    <2> DEFINE hq == half * q
               hr == half * r
    <2>4. hq \in Int /\ hr \in Int /\ 46 = 2 * hq + m /\ 29 = 2 * hr + n
        BY <2>2, <2>3
    <2> HIDE DEF hq, hr
    <2> QED  BY <2>2, <2>4
<1>4. /\ Signature["mcconf"] = <<46 % Base, 67 % Base, 161 % Base, 97 % Base>>
      /\ Signature["appconf"] = <<29 % Base, 0 % Base, 58 % Base, 44 % Base>>
    BY DEF Signature
<1> HIDE DEF Signature
<1>5. /\ Signature["mcconf"] \in Seq(Byte) /\ Len(Signature["mcconf"]) = 4
      /\ Signature["mcconf"][1] = 46 % Base
    BY <1>1, <1>2, <1>4
<1>6. /\ Signature["appconf"] \in Seq(Byte) /\ Len(Signature["appconf"]) = 4
      /\ Signature["appconf"][1] = 29 % Base
    BY <1>1, <1>2, <1>4
<1> QED  BY <1>3, <1>5, <1>6 DEF Kind

\* Where the parameters begin.
LEMMA BeforeIs ==
    ASSUME NEW kind \in Kind
    PROVE  /\ Before[kind] \in [1..Len(Layout[kind]) + 1 -> Nat]
           /\ Before[kind][1] = 4
           /\ \A i \in 1..Len(Layout[kind]) :
                 Before[kind][i + 1] = Before[kind][i] + BytesOf(Layout[kind][i])
<1> DEFINE n == Len(Layout[kind])
           Body(f, i) == IF i = 1 THEN 4 ELSE f[i - 1] + BytesOf(Layout[kind][i - 1])
           before == CHOOSE f : f = [i \in 1..n + 1 |-> Body(f, i)]
           V == Nat
           step == [x \in V \X (1..n) |-> x[1] + BytesOf(Layout[kind][x[2]])]
<1>1. n \in Nat
    BY LayoutIs
<1>2. \A i \in 1..n : BytesOf(Layout[kind][i]) \in Nat
    <2>1. \A i \in 1..n : Layout[kind][i] \in Type
        BY LayoutIs
    <2>2. \A type \in Type : BytesOf(type) \in Widths
        BY TypeCases
    <2> QED  BY <2>1, <2>2 DEF Widths
<1>3. Before[kind] = before
    BY DEF Before
<1> HIDE DEF n
<1>4. step \in [V \X (1..n) -> V] /\ 4 \in V
    BY <1>2
<1>5. \A c \in V, i \in 1..n : step[<<c, i>>] = c + BytesOf(Layout[kind][i])
    OBVIOUS
<1> HIDE DEF step, V
<1>6. PICK f \in [0..n -> V] : StepByStep(f, n, 4, step)
    BY <1>1, <1>4, Stepwise
<1> DEFINE g == [i \in 1..n + 1 |-> f[i - 1]]
<1>7. ASSUME NEW i \in 1..n + 1 PROVE g[i] = Body(g, i)
    <2>1. CASE i = 1
        <3>1. f[0] = 4
            <4>1. 0 \in 0..n
                BY <1>1
            <4> QED  BY <1>6, <4>1 DEF StepByStep
        <3> QED  BY <1>1, <2>1, <3>1
    <2>2. CASE i # 1
        <3>1. PICK j \in 1..n : j = i - 1
            BY <1>1, <2>2
        <3>2. j \in 0..n /\ j # 0 /\ j - 1 \in 0..n /\ j \in 1..n + 1 /\ i = j + 1
            BY <1>1, <3>1
        <3>3. f[j] = step[<<f[j - 1], j>>] /\ f[j - 1] \in V
            BY <1>6, <3>2 DEF StepByStep
        <3>4. f[j] = f[j - 1] + BytesOf(Layout[kind][j])
            BY <1>5, <3>1, <3>3
        <3>5. g[i] = f[j] /\ g[j] = f[j - 1]
            BY <3>1, <3>2
        <3> QED  BY <2>2, <3>1, <3>4, <3>5
    <2> QED  BY <2>1, <2>2
<1>8. g = [i \in 1..n + 1 |-> Body(g, i)]
    BY <1>7
<1> HIDE DEF g
<1>9. before = [i \in 1..n + 1 |-> Body(before, i)]
    BY <1>8
<1> HIDE DEF before
<1> DEFINE T == {i \in 0..n : before[i + 1] \in Nat}
<1>10. before[1] = 4
    <2>1. 1 \in 1..n + 1
        BY <1>1
    <2> QED  BY <1>9, <2>1
<1>11. ASSUME NEW i \in 1..n PROVE before[i + 1] = before[i] + BytesOf(Layout[kind][i])
    <2>1. i + 1 \in 1..n + 1 /\ i + 1 # 1 /\ (i + 1) - 1 = i
        BY <1>1
    <2> QED  BY <1>9, <2>1
<1>12. ASSUME NEW i \in 1..n, i - 1 \in T PROVE i \in T
    <2>1. before[i] \in Nat
        <3>1. (i - 1) + 1 = i
            BY <1>1
        <3> QED  BY <1>12, <3>1
    <2>2. before[i + 1] \in Nat
        BY <1>2, <1>11, <2>1
    <2>3. i \in 0..n
        BY <1>1
    <2> QED  BY <2>2, <2>3
<1>13. 0 \in T
    BY <1>1, <1>10
<1>14. T = 0..n
    <2>1. T \in SUBSET (0..n)
        OBVIOUS
    <2> HIDE DEF T
    <2> QED  BY <1>1, <1>12, <1>13, <2>1, Upward
<1>15. \A i \in 1..n + 1 : before[i] \in Nat
    <2>1. ASSUME NEW i \in 1..n + 1 PROVE before[i] \in Nat
        <3>1. i - 1 \in 0..n /\ (i - 1) + 1 = i
            BY <1>1
        <3>2. i - 1 \in T
            BY <1>14, <3>1
        <3> QED  BY <3>1, <3>2
    <2> QED  BY <2>1
<1>16. before \in [1..n + 1 -> Nat]
    BY <1>9, <1>15
<1> QED  BY <1>3, <1>10, <1>11, <1>16 DEF n

\* The same counted from 0, as the ends of the parameters.
EndOf(kind) == [i \in 0..Len(Layout[kind]) |-> Before[kind][i + 1]]

LEMMA EndOfIs ==
    ASSUME NEW kind \in Kind
    PROVE  /\ EndOf(kind) \in [0..Len(Layout[kind]) -> Nat]
           /\ EndOf(kind)[0] = 4
           /\ EndOf(kind)[Len(Layout[kind])] = Size(kind)
           /\ \A i \in 1..Len(Layout[kind]) :
                 /\ EndOf(kind)[i - 1] = Before[kind][i]
                 /\ EndOf(kind)[i] = Before[kind][i] + BytesOf(Layout[kind][i])
<1> DEFINE n == Len(Layout[kind])
           before == Before[kind]
           end == EndOf(kind)
<1>1. n \in Nat
    BY LayoutIs
<1>2. /\ before \in [1..n + 1 -> Nat] /\ before[1] = 4
      /\ \A i \in 1..n : before[i + 1] = before[i] + BytesOf(Layout[kind][i])
    BY BeforeIs
<1>3. end = [i \in 0..n |-> before[i + 1]] /\ Size(kind) = before[n + 1]
    BY DEF EndOf, Size
<1> HIDE DEF n, before, end
<1>4. \A i \in 0..n : i + 1 \in 1..n + 1
    BY <1>1
<1>5. end \in [0..n -> Nat]
    BY <1>2, <1>3, <1>4
<1>6. 0 \in 0..n /\ n \in 0..n
    BY <1>1
<1>7. end[0] = 4 /\ end[n] = Size(kind)
    BY <1>2, <1>3, <1>6
<1>8. ASSUME NEW i \in 1..n
      PROVE  end[i - 1] = before[i] /\ end[i] = before[i] + BytesOf(Layout[kind][i])
    <2>1. i \in 0..n /\ i - 1 \in 0..n /\ (i - 1) + 1 = i
        BY <1>1
    <2>2. end[i - 1] = before[(i - 1) + 1] /\ end[i] = before[i + 1]
        BY <1>3, <2>1
    <2> QED  BY <1>2, <2>1, <2>2
<1> QED  BY <1>5, <1>7, <1>8 DEF n, before, end

\* Where a parameter lies: behind the signature, and inside.
LEMMA PlaceIs ==
    ASSUME NEW kind \in Kind, NEW i \in 1..Len(Layout[kind])
    PROVE  /\ Before[kind][i] \in Nat /\ Size(kind) \in Nat
           /\ BytesOf(Layout[kind][i]) \in Nat \ {0}
           /\ 4 <= Before[kind][i]
           /\ Before[kind][i] + BytesOf(Layout[kind][i]) <= Size(kind)
<1> DEFINE n == Len(Layout[kind])
           w(j) == BytesOf(Layout[kind][j])
           parts == [j \in 1..n |-> [k \in 1..w(j) |-> 0]]
           end == EndOf(kind)
<1>1. n \in Nat /\ i \in 1..n
    BY LayoutIs
<1>2. \A j \in 1..n : w(j) \in Nat \ {0}
    <2>1. \A j \in 1..n : Layout[kind][j] \in Type
        BY LayoutIs
    <2>2. \A type \in Type : BytesOf(type) \in Widths
        BY TypeCases
    <2> QED  BY <2>1, <2>2 DEF Widths
<1>3. /\ end \in [0..n -> Nat] /\ end[0] = 4 /\ end[n] = Size(kind)
      /\ \A j \in 1..n : end[j - 1] = Before[kind][j] /\ end[j] = Before[kind][j] + w(j)
    BY EndOfIs
<1> HIDE DEF w, n, end
<1>4. ASSUME NEW m \in Nat \ {0}
      PROVE  [k \in 1..m |-> 0] \in Seq({0}) /\ Len([k \in 1..m |-> 0]) = m
    OBVIOUS
<1>5. parts \in Seq(Seq({0})) /\ Len(parts) = n /\ \A j \in 1..n : Len(parts[j]) = w(j)
    BY <1>1, <1>2, <1>4
<1> HIDE DEF parts
<1>6. Ends(parts, end)
    BY <1>3, <1>5 DEF Ends
<1>7. i \in 0..n /\ i - 1 \in 0..n /\ 0 \in 0..i - 1 /\ n \in 0..n
    BY <1>1
<1>8. end[0] <= end[i - 1] /\ end[i] <= end[n]
    <2>1. \A x \in 0..n : \A y \in 0..x : end[y] <= end[x]
        BY <1>5, <1>6, EndsGrow
    <2> QED  BY <1>7, <2>1
<1>9. end[i - 1] = Before[kind][i] /\ end[i] = Before[kind][i] + w(i) /\ end[i - 1] \in Nat /\ end[n] \in Nat
    BY <1>1, <1>3, <1>7
<1> QED  BY <1>1, <1>2, <1>3, <1>8, <1>9 DEF w

LEMMA SizeIs ==
    ASSUME NEW kind \in Kind
    PROVE  Size(kind) \in Nat /\ 4 <= Size(kind)
<1> DEFINE n == Len(Layout[kind])
<1>1. n \in Nat
    BY LayoutIs
<1>2. EndOf(kind)[0] = 4 /\ EndOf(kind)[n] = Size(kind)
    BY EndOfIs
<1>3. CASE n = 0
    BY <1>2, <1>3
<1>4. CASE n # 0
    <2>1. 1 \in 1..n
        BY <1>1, <1>4
    <2>2. /\ Before[kind][1] \in Nat /\ Size(kind) \in Nat /\ BytesOf(Layout[kind][1]) \in Nat \ {0}
          /\ 4 <= Before[kind][1] /\ Before[kind][1] + BytesOf(Layout[kind][1]) <= Size(kind)
        BY <2>1, PlaceIs
    <2> QED  BY <2>2
<1> QED  BY <1>3, <1>4

\* The bytes of a parameter, of a buffer that is long enough.
LEMMA FieldIs ==
    ASSUME NEW kind \in Kind, NEW i \in DOMAIN Layout[kind],
           NEW bytes \in Seq(Byte), Len(bytes) >= Size(kind)
    PROVE  /\ Layout[kind][i] \in Type
           /\ FieldBytes(kind, i, bytes) \in Seq(Byte)
           /\ Len(FieldBytes(kind, i, bytes)) = BytesOf(Layout[kind][i])
           /\ FieldBytes(kind, i, SubSeq(bytes, 1, Size(kind))) = FieldBytes(kind, i, bytes)
<1> DEFINE n == Len(Layout[kind])
           b == Before[kind][i]
           w == BytesOf(Layout[kind][i])
           z == Size(kind)
           cut == SubSeq(bytes, 1, z)
           s == SubSeq(bytes, b + 1, b + w)
<1>1. i \in 1..n /\ Layout[kind][i] \in Type
    BY LayoutIs
<1>2. b \in Nat /\ w \in Nat \ {0} /\ z \in Nat /\ b + w <= z /\ z <= Len(bytes) /\ Len(bytes) \in Nat
    BY <1>1, PlaceIs
<1> HIDE DEF n, b, w, z
<1>3. b + 1 \in Nat \ {0} /\ b + w \in Nat /\ b + 1 <= b + w + 1 /\ b + w <= Len(bytes)
      /\ 1 \in Nat \ {0} /\ 1 <= z + 1
    BY <1>2
<1>4. s \in Seq(Byte) /\ Len(s) = (b + w) - (b + 1) + 1
      /\ \A k \in 1..(b + w) - (b + 1) + 1 : s[k] = bytes[(b + 1) + k - 1]
    BY <1>3, Slice
<1>5. cut \in Seq(Byte) /\ Len(cut) = z - 1 + 1 /\ \A k \in 1..z - 1 + 1 : cut[k] = bytes[1 + k - 1]
    BY <1>2, <1>3, Slice
<1> HIDE DEF s, cut
<1>6. Len(s) = w /\ Len(cut) = z
    BY <1>2, <1>4, <1>5
<1>7. ASSUME NEW k \in 1..Len(s) PROVE s[k] = cut[(b + 1) + k - 1]
    <2>1. PICK j : j = (b + 1) + k - 1
        OBVIOUS
    <2>2. j \in 1..z - 1 + 1 /\ 1 + j - 1 = j /\ k \in 1..(b + w) - (b + 1) + 1
        BY <1>2, <1>6, <2>1
    <2>3. cut[j] = bytes[1 + j - 1] /\ s[k] = bytes[(b + 1) + k - 1]
        BY <1>4, <1>5, <2>2
    <2> QED  BY <2>1, <2>2, <2>3
<1>8. SubSeq(cut, b + 1, b + w) = s
    <2>1. b + w <= Len(cut) /\ Len(s) = (b + w) - (b + 1) + 1
        BY <1>2, <1>4, <1>6
    <2> QED  BY <1>3, <1>4, <1>5, <1>7, <2>1, SameSlice
<1>9. FieldBytes(kind, i, bytes) = s /\ FieldBytes(kind, i, cut) = SubSeq(cut, b + 1, b + w)
    BY DEF FieldBytes, b, w, s
<1> QED  BY <1>1, <1>4, <1>6, <1>8, <1>9 DEF w, cut, z

\* What is serialised: the signature, and each parameter where the other side
\* looks for it.
SerialisedAs(kind, params, bytes) ==
    /\ bytes \in Seq(Byte)
    /\ Len(bytes) = Size(kind)
    /\ SubSeq(bytes, 1, 4) = Signature[kind]
    /\ \A i \in DOMAIN Layout[kind] : FieldBytes(kind, i, bytes) = Write(Layout[kind][i], params[i])

\* However many parameters of whatever widths there are, each is written where
\* confgenerator_deserialise_* and the controller look for it.
THEOREM SerialiseIs ==
    ASSUME NEW kind \in Kind, NEW params, AllSerialisable(kind, params),
           \A i \in DOMAIN Layout[kind] : Allowed(Layout[kind][i], params[i])
    PROVE  SerialisedAs(kind, params, Serialise(kind, params))
<1> DEFINE n == Len(Layout[kind])
           W(i) == Write(Layout[kind][i], params[i])
           parts == [i \in DOMAIN Layout[kind] |-> W(i)]
           end == EndOf(kind)
           head == Signature[kind]
           s == Serialise(kind, params)
<1>1. n \in Nat /\ DOMAIN Layout[kind] = 1..n /\ \A i \in 1..n : Layout[kind][i] \in Type
    BY LayoutIs
<1>2. ASSUME NEW i \in 1..n PROVE W(i) \in Seq(Byte) /\ Len(W(i)) = BytesOf(Layout[kind][i])
    <2>1. Layout[kind][i] \in Type /\ Allowed(Layout[kind][i], params[i]) /\ Serialisable(Layout[kind][i], params[i])
        BY <1>1 DEF AllSerialisable
    <2> QED  BY <2>1, WriteIsBytes
<1>3. /\ end \in [0..n -> Nat] /\ end[0] = 4 /\ end[n] = Size(kind)
      /\ \A i \in 1..n : end[i - 1] = Before[kind][i] /\ end[i] = Before[kind][i] + BytesOf(Layout[kind][i])
    BY EndOfIs
<1>4. head \in Seq(Byte) /\ Len(head) = 4
    BY SignatureIs
<1>5. s = head \o FlattenSeq(parts)
    BY DEF Serialise
<1> HIDE DEF n, W, end, head, s
<1>6. parts = [i \in 1..n |-> W(i)]
    BY <1>1
<1> HIDE DEF parts
<1>7. parts \in Seq(Seq(Byte)) /\ Len(parts) = n /\ \A i \in 1..n : parts[i] = W(i)
    BY <1>1, <1>2, <1>6
<1>8. Ends(parts, end)
    BY <1>2, <1>3, <1>7 DEF Ends
<1>9. << >> \in Seq(Byte) /\ Len(<< >>) = 0
    OBVIOUS
<1>10. /\ head \o FlattenSeq(parts) \o << >> \in Seq(Byte)
       /\ Found(head \o FlattenSeq(parts) \o << >>, head, parts, end, << >>)
    BY <1>3, <1>4, <1>7, <1>8, <1>9, PartsAreFound
<1>11. head \o FlattenSeq(parts) \o << >> = s
    <2>1. FlattenSeq(parts) \in Seq(Byte)
        BY <1>7, <1>8, FlattenFills
    <2>2. head \o FlattenSeq(parts) \in Seq(Byte)
        BY <1>4, <2>1, ConcatProperties
    <2> QED  BY <1>5, <2>2, ConcatEmptySeq
<1>12. s \in Seq(Byte) /\ Found(s, head, parts, end, << >>)
    BY <1>10, <1>11
<1>13. Len(s) = Size(kind)
    <2>1. Len(s) = end[n] + 0
        BY <1>7, <1>9, <1>12 DEF Found
    <2> QED  BY <1>3, <2>1, SizeIs
<1>14. SubSeq(s, 1, 4) = head
    <2>1. \A k \in 1..Len(head) : head[k] = s[1 + k - 1]
        BY <1>4, <1>12 DEF Found
    <2>2. 4 <= Len(s) /\ 4 \in Nat /\ 1 \in Nat \ {0} /\ 1 <= 4 + 1 /\ Len(head) = 4 - 1 + 1
        BY <1>4, <1>13, SizeIs
    <2> QED  BY <1>4, <1>12, <2>1, <2>2, SameSlice
<1>15. ASSUME NEW i \in 1..n PROVE FieldBytes(kind, i, s) = W(i)
    <2>1. SubSeq(s, end[i - 1] + 1, end[i]) = parts[i]
        BY <1>7, <1>12 DEF Found
    <2> QED  BY <1>3, <1>7, <2>1 DEF FieldBytes
<1> QED  BY <1>1, <1>12, <1>13, <1>14, <1>15 DEF SerialisedAs, s, head, W

-----------------------------------------------------------------------------
(* The classes of messages                                                  *)

SetterNames ==
    {"SetDutyCycle", "SetCurrent", "SetCurrentBrake", "SetRPM", "SetPosition",
     "SetHandbrake", "SetRotorPositionMode", "SetServoPosition", "SetMotorConfig",
     "SetAppConfig", "TerminalCmd", "TerminalPrint", "Reboot", "Alive",
     "JumpToBootloader", "EraseNewApp", "WriteNewAppData", "WriteNewAppDataLZO"}
GetterNames ==
    {"GetMotorConfig", "GetAppConfig", "GetRotorPosition", "GetVersion", "GetValues"}

LEMMA ClassIs ==
    /\ DOMAIN Class = SetterNames \cup GetterNames
    /\ \A c \in SetterNames : Class[c] = Setters[c]
    /\ \A c \in GetterNames : Class[c] = Getters[c]
<1>1. DOMAIN Setters = SetterNames
    BY DEF Setters, SetterNames
<1>2. DOMAIN Getters = GetterNames
    BY DEF Getters, GetterNames
<1>3. SetterNames \cap GetterNames = {}
    BY DEF SetterNames, GetterNames
<1> QED  BY <1>1, <1>2, <1>3 DEF Class

\* The numbers the classes have, by which the controller and decode know them.
Ids ==
    [SetDutyCycle |-> 5, SetCurrent |-> 6, SetCurrentBrake |-> 7, SetRPM |-> 8,
     SetPosition |-> 9, SetHandbrake |-> 10, SetRotorPositionMode |-> 11,
     SetServoPosition |-> 12, SetMotorConfig |-> 13, SetAppConfig |-> 16,
     TerminalCmd |-> 20, TerminalPrint |-> 21, Reboot |-> 29, Alive |-> 30,
     JumpToBootloader |-> 1, EraseNewApp |-> 2, WriteNewAppData |-> 3,
     WriteNewAppDataLZO |-> 81,
     GetMotorConfig |-> 14, GetAppConfig |-> 17, GetRotorPosition |-> 22,
     GetVersion |-> 0, GetValues |-> 4]

LEMMA IdsAre ==
    \A c \in DOMAIN Class : Class[c].id = Ids[c]
<1>1. \A c \in SetterNames : Setters[c].id = Ids[c]
    BY DEF Setters, SetterNames, Ids
<1>2. \A c \in GetterNames : Getters[c].id = Ids[c]
    BY DEF Getters, GetterNames, Ids
<1> QED  BY <1>1, <1>2, ClassIs

\* A payload has one class, and the header of a forwarded one is none.
LEMMA ClassOfId ==
    ASSUME NEW c \in DOMAIN Class
    PROVE  /\ HasType(Class[c].id) /\ TypeOf(Class[c].id) = c
           /\ Class[c].id # ForwardCan
           /\ Class[c].id \in Nat
<1>1. \A a, b \in SetterNames \cup GetterNames : Ids[a] = Ids[b] => a = b
    BY SMTT(60) DEF SetterNames, GetterNames, Ids
<1>2. \A a \in SetterNames \cup GetterNames : Ids[a] # 34 /\ Ids[a] \in Nat
    BY DEF SetterNames, GetterNames, Ids
<1>3. c \in SetterNames \cup GetterNames /\ Class[c].id = Ids[c]
    BY ClassIs, IdsAre
<1>4. \A d \in DOMAIN Class : Class[d].id = Class[c].id => d = c
    BY <1>1, <1>3, ClassIs, IdsAre
<1>5. TypeOf(Class[c].id) = c
    BY <1>4 DEF TypeOf
<1> QED  BY <1>2, <1>3, <1>5 DEF HasType, ForwardCan

-----------------------------------------------------------------------------
(* The fields of the classes                                                *)

SentFormats == {"i", "I", "h", "b", "chunk", "s"}
FieldFormats == SentFormats \cup {"c", "?"}

FieldList(fields, formats) ==
    /\ Len(fields) \in Nat /\ DOMAIN fields = 1..Len(fields)
    /\ \A i \in 1..Len(fields) : fields[i].format \in formats
    /\ (\E i \in 1..Len(fields) : fields[i].format = "s") => Len(fields) = 1

LEMMA SettersSend ==
    \A c \in SetterNames : "send" \in DOMAIN Setters[c] => FieldList(Setters[c].send, SentFormats)
<1> USE DEF FieldList, SentFormats, Field, Whole
<1>1. /\ FieldList(Setters["SetDutyCycle"].send, SentFormats)
      /\ FieldList(Setters["SetCurrent"].send, SentFormats)
      /\ FieldList(Setters["SetCurrentBrake"].send, SentFormats)
      /\ FieldList(Setters["SetRPM"].send, SentFormats)
      /\ FieldList(Setters["SetPosition"].send, SentFormats)
      /\ FieldList(Setters["SetHandbrake"].send, SentFormats)
      /\ FieldList(Setters["SetRotorPositionMode"].send, SentFormats)
      /\ FieldList(Setters["SetServoPosition"].send, SentFormats)
    BY DEF Setters
<1>2. /\ FieldList(Setters["SetMotorConfig"].send, SentFormats)
      /\ FieldList(Setters["SetAppConfig"].send, SentFormats)
      /\ FieldList(Setters["TerminalCmd"].send, SentFormats)
    BY DEF Setters
<1>3. /\ FieldList(Setters["Reboot"].send, SentFormats)
      /\ FieldList(Setters["Alive"].send, SentFormats)
      /\ FieldList(Setters["JumpToBootloader"].send, SentFormats)
    BY DEF Setters
<1>4. FieldList(Setters["EraseNewApp"].send, SentFormats)
    BY DEF Setters
<1>6. /\ FieldList(Setters["WriteNewAppData"].send, SentFormats)
      /\ FieldList(Setters["WriteNewAppDataLZO"].send, SentFormats)
    <2> DEFINE chunk == <<Whole("offset", "I"), Whole("data", "chunk")>>
    <2>1. Setters["WriteNewAppData"].send = chunk /\ Setters["WriteNewAppDataLZO"].send = chunk
        BY DEF Setters
    <2>2. Len(chunk) = 2 /\ DOMAIN chunk = 1..2 /\ chunk[1].format = "I" /\ chunk[2].format = "chunk"
        OBVIOUS
    <2> HIDE DEF chunk
    <2>3. FieldList(chunk, SentFormats)
        BY <2>2
    <2> QED  BY <2>1, <2>3
<1>5. "send" \notin DOMAIN Setters["TerminalPrint"]
    BY DEF Setters
<1> HIDE DEF FieldList, SentFormats, Field, Whole
<1> QED  BY <1>1, <1>2, <1>3, <1>4, <1>5, <1>6 DEF SetterNames

LEMMA SettersReceive ==
    \A c \in SetterNames : "recv" \in DOMAIN Setters[c] => FieldList(Setters[c].recv, FieldFormats)
<1> USE DEF FieldList, FieldFormats, SentFormats, Field, Whole
<1>1. /\ FieldList(Setters["TerminalCmd"].recv, FieldFormats)
      /\ FieldList(Setters["TerminalPrint"].recv, FieldFormats)
      /\ FieldList(Setters["JumpToBootloader"].recv, FieldFormats)
      /\ FieldList(Setters["EraseNewApp"].recv, FieldFormats)
    BY DEF Setters
<1>2. /\ FieldList(Setters["WriteNewAppData"].recv, FieldFormats)
      /\ FieldList(Setters["WriteNewAppDataLZO"].recv, FieldFormats)
    <2> DEFINE told == <<Field("write_new_app_result", "?"), Field("new_app_offset", "I")>>
    <2>1. Setters["WriteNewAppData"].recv = told /\ Setters["WriteNewAppDataLZO"].recv = told
        BY DEF Setters
    <2>2. Len(told) = 2 /\ DOMAIN told = 1..2 /\ told[1].format = "?" /\ told[2].format = "I"
        OBVIOUS
    <2> HIDE DEF told
    <2>3. FieldList(told, FieldFormats)
        BY <2>2
    <2> QED  BY <2>1, <2>3
<1>3. \A c \in SetterNames : "recv" \in DOMAIN Setters[c] =>
        c \in {"TerminalCmd", "TerminalPrint", "JumpToBootloader", "EraseNewApp", "WriteNewAppData", "WriteNewAppDataLZO"}
    BY DEF Setters, SetterNames
<1> HIDE DEF FieldList, FieldFormats, SentFormats, Field, Whole
<1> QED  BY <1>1, <1>2, <1>3

LEMMA GettersReceive ==
    \A c \in GetterNames : /\ DOMAIN Getters[c] = {"id", "recv"}
                           /\ FieldList(Getters[c].recv, FieldFormats)
<1> USE DEF FieldList, FieldFormats, SentFormats, Field
<1>1. /\ FieldList(Getters["GetMotorConfig"].recv, FieldFormats)
      /\ FieldList(Getters["GetAppConfig"].recv, FieldFormats)
      /\ FieldList(Getters["GetRotorPosition"].recv, FieldFormats)
    BY DEF Getters
<1>4. FieldList(Getters["GetVersion"].recv, FieldFormats)
    <2> DEFINE r == Getters["GetVersion"].recv
    <2>1. Len(r) = 2 /\ DOMAIN r = 1..2 /\ r[1].format = "b" /\ r[2].format = "b"
        BY DEF Getters
    <2> HIDE DEF r
    <2>2. FieldList(r, FieldFormats)
        BY <2>1
    <2> QED  BY <2>2 DEF r
<1>2. FieldList(Getters["GetValues"].recv, FieldFormats)
    <2> DEFINE r == Getters["GetValues"].recv
    <2>1. Len(r) = 23 /\ DOMAIN r = 1..23
        BY DEF Getters
    <2>2. /\ r[1].format = "h" /\ r[2].format = "h" /\ r[3].format = "i" /\ r[4].format = "i"
          /\ r[5].format = "i" /\ r[6].format = "i" /\ r[7].format = "h" /\ r[8].format = "i"
          /\ r[9].format = "h" /\ r[10].format = "i" /\ r[11].format = "i" /\ r[12].format = "i"
          /\ r[13].format = "i" /\ r[14].format = "i" /\ r[15].format = "i" /\ r[16].format = "c"
          /\ r[17].format = "i" /\ r[18].format = "c" /\ r[19].format = "h" /\ r[20].format = "h"
          /\ r[21].format = "h" /\ r[22].format = "i" /\ r[23].format = "i"
        BY DEF Getters
    <2> HIDE DEF r
    <2>3. \A i \in 1..23 : r[i].format \in {"i", "h", "c"}
        BY <2>2
    <2>4. FieldList(r, FieldFormats)
        BY <2>1, <2>3
    <2> QED  BY <2>4 DEF r
<1>3. \A c \in GetterNames : DOMAIN Getters[c] = {"id", "recv"}
    BY DEF Getters, GetterNames
<1> HIDE DEF FieldList, FieldFormats, SentFormats, Field
<1> QED  BY <1>1, <1>2, <1>3, <1>4 DEF GetterNames

\* What a class sends, and what it receives, are lists of fields, and a string
\* is alone in its list.
LEMMA FieldLists ==
    ASSUME NEW c \in DOMAIN Class
    PROVE  /\ FieldList(SendFields(c), SentFormats)
           /\ DOMAIN Class[c] # {"id"} => FieldList(UnpackFields(c), FieldFormats)
<1> DEFINE e == << >>
<1>1. FieldList(e, SentFormats)
    BY DEF FieldList
<1>2. \A fields : FieldList(fields, SentFormats) => FieldList(fields, FieldFormats)
    BY DEF FieldList, FieldFormats
<1>3. CASE c \in SetterNames
    <2>1. Class[c] = Setters[c]
        BY <1>3, ClassIs
    <2>4. DOMAIN Class[c] # {"id"} => "send" \in DOMAIN Setters[c] \/ "recv" \in DOMAIN Setters[c]
        BY <1>3, <2>1 DEF Setters, SetterNames
    <2> HIDE DEF e
    <2>2. FieldList(SendFields(c), SentFormats)
        BY <1>1, <1>3, <2>1, SettersSend DEF SendFields, e
    <2>3. DOMAIN Class[c] # {"id"} => FieldList(UnpackFields(c), FieldFormats)
        BY <1>2, <1>3, <2>1, <2>4, SettersSend, SettersReceive DEF UnpackFields
    <2> QED  BY <2>2, <2>3
<1>4. CASE c \in GetterNames
    BY <1>1, <1>4, GettersReceive, ClassIs DEF SendFields, UnpackFields
<1> QED  BY <1>3, <1>4, ClassIs

-----------------------------------------------------------------------------
(* Fields one behind the other                                              *)

\* Sums of widths, one behind the other.
RunningSum(f, n, base, w) ==
    f = [i \in 0..n |-> IF i = 0 THEN base ELSE f[i - 1] + w[i]]

LEMMA SumsExist ==
    ASSUME NEW n \in Nat, NEW base \in Nat, NEW w \in [1..n -> Nat]
    PROVE  \E f : RunningSum(f, n, base, w)
<1> DEFINE V == Nat
           step == [x \in V \X (1..n) |-> x[1] + w[x[2]]]
<1>1. step \in [V \X (1..n) -> V] /\ base \in V
    OBVIOUS
<1>2. \A c \in V, i \in 1..n : step[<<c, i>>] = c + w[i]
    OBVIOUS
<1> HIDE DEF step, V
<1>3. PICK f \in [0..n -> V] : StepByStep(f, n, base, step)
    BY <1>1, Stepwise
<1>4. ASSUME NEW i \in 0..n PROVE f[i] = IF i = 0 THEN base ELSE f[i - 1] + w[i]
    <2>1. CASE i = 0
        BY <1>3, <2>1 DEF StepByStep
    <2>2. CASE i # 0
        <3>1. i - 1 \in 0..n /\ i \in 1..n
            BY <2>2
        <3>2. f[i] = step[<<f[i - 1], i>>] /\ f[i - 1] \in V
            BY <1>3, <2>2, <3>1 DEF StepByStep
        <3> QED  BY <1>2, <2>2, <3>1, <3>2
    <2> QED  BY <2>1, <2>2
<1>5. f = [i \in 0..n |-> IF i = 0 THEN base ELSE f[i - 1] + w[i]]
    BY <1>4
<1> QED  BY <1>5 DEF RunningSum

Sums(f, n, base, w) ==
    /\ f \in [0..n -> Nat]
    /\ f[0] = base
    /\ \A i \in 1..n : f[i] = f[i - 1] + w[i]

LEMMA SumsAre ==
    ASSUME NEW n \in Nat, NEW base \in Nat, NEW w \in [1..n -> Nat],
           NEW f, RunningSum(f, n, base, w)
    PROVE  Sums(f, n, base, w)
<1>1. f = [i \in 0..n |-> IF i = 0 THEN base ELSE f[i - 1] + w[i]]
    BY DEF RunningSum
<1>2. f[0] = base
    <2>1. 0 \in 0..n
        OBVIOUS
    <2> QED  BY <1>1, <2>1
<1>3. ASSUME NEW i \in 1..n PROVE f[i] = f[i - 1] + w[i]
    <2>1. i \in 0..n /\ i # 0
        OBVIOUS
    <2> QED  BY <1>1, <2>1
<1> DEFINE T == {i \in 0..n : f[i] \in Nat}
<1>4. ASSUME NEW i \in 1..n, i - 1 \in T PROVE i \in T
    <2>1. f[i - 1] \in Nat /\ w[i] \in Nat /\ i \in 0..n
        BY <1>4
    <2> QED  BY <1>3, <2>1
<1>5. T = 0..n
    <2>1. T \in SUBSET (0..n) /\ 0 \in T
        BY <1>2
    <2> HIDE DEF T
    <2> QED  BY <1>4, <2>1, Upward
<1>6. f \in [0..n -> Nat]
    <2>1. \A i \in 0..n : f[i] \in Nat
        BY <1>5
    <2> QED  BY <1>1, <2>1
<1> QED  BY <1>2, <1>3, <1>6 DEF Sums

Apart(f, g, n, base, other) == \A i \in 0..n : f[i] - base = g[i] - other

\* The sums of the same widths are the same, but for what they begin with.
LEMMA SumsDiffer ==
    ASSUME NEW n \in Nat, NEW base \in Nat, NEW other \in Nat, NEW w \in [1..n -> Nat],
           NEW f, RunningSum(f, n, base, w), NEW g, RunningSum(g, n, other, w)
    PROVE  Apart(f, g, n, base, other)
<1>1. f \in [0..n -> Nat] /\ f[0] = base /\ \A i \in 1..n : f[i] = f[i - 1] + w[i]
    <2>1. Sums(f, n, base, w)
        BY SumsAre
    <2> QED  BY <2>1 DEF Sums
<1>2. g \in [0..n -> Nat] /\ g[0] = other /\ \A i \in 1..n : g[i] = g[i - 1] + w[i]
    <2>1. Sums(g, n, other, w)
        BY SumsAre
    <2> QED  BY <2>1 DEF Sums
<1> DEFINE T == {i \in 0..n : f[i] - base = g[i] - other}
<1>3. ASSUME NEW i \in 1..n, i - 1 \in T PROVE i \in T
    <2>1. i - 1 \in 0..n /\ i \in 0..n
        OBVIOUS
    <2>2. f[i - 1] \in Nat /\ g[i - 1] \in Nat /\ f[i - 1] - base = g[i - 1] - other
        BY <1>1, <1>2, <1>3, <2>1
    <2>3. f[i] = f[i - 1] + w[i] /\ g[i] = g[i - 1] + w[i] /\ w[i] \in Nat
        BY <1>1, <1>2
    <2>4. PICK a, b, c \in Nat : a = f[i - 1] /\ b = g[i - 1] /\ c = w[i]
        BY <2>2, <2>3
    <2>6. f[i] = a + c /\ g[i] = b + c /\ a - base = b - other
        BY <2>2, <2>3, <2>4
    <2> HIDE DEF T
    <2>7. (a + c) - base = (b + c) - other
        BY <2>6
    <2>5. f[i] - base = g[i] - other
        BY <2>6, <2>7
    <2> QED  BY <2>1, <2>5 DEF T
<1>4. T = 0..n
    <2>1. T \in SUBSET (0..n) /\ 0 \in T
        BY <1>1, <1>2
    <2> HIDE DEF T
    <2> QED  BY <1>3, <2>1, Upward
<1> QED  BY <1>4 DEF Apart

LEMMA WidthOf ==
    /\ Width("i") = 4 /\ Width("I") = 4 /\ Width("h") = 2
    /\ Width("b") = 1 /\ Width("c") = 1 /\ Width("?") = 1
    /\ Width("chunk") = ChunkBytes /\ Width("s") = 0
    /\ \A format : Width(format) \in Nat
BY MessagesAssumption DEF Width

LEMMA FixedSizeIs ==
    ASSUME NEW fields, Len(fields) \in Nat,
           NEW w, w = [i \in 1..Len(fields) |-> Width(fields[i].format)]
    PROVE  \E size : RunningSum(size, Len(fields), 0, w) /\ FixedSize(fields) = size[Len(fields)]
<1> DEFINE n == Len(fields)
           size == CHOOSE f : f = [i \in 0..n |-> IF i = 0 THEN 0 ELSE f[i - 1] + Width(fields[i].format)]
<1>1. FixedSize(fields) = size[n]
    BY DEF FixedSize
<1> HIDE DEF n
<1>2. n \in Nat /\ w = [i \in 1..n |-> Width(fields[i].format)]
    BY DEF n
<1>3. w \in [1..n -> Nat]
    BY <1>2, WidthOf
<1>4. PICK f : RunningSum(f, n, 0, w)
    BY <1>2, <1>3, SumsExist
<1>5. f = [i \in 0..n |-> IF i = 0 THEN 0 ELSE f[i - 1] + Width(fields[i].format)]
    <2>1. \A i \in 0..n : i # 0 => i \in 1..n
        BY <1>2
    <2>2. \A i \in 1..n : w[i] = Width(fields[i].format)
        BY <1>2
    <2>3. f = [i \in 0..n |-> IF i = 0 THEN 0 ELSE f[i - 1] + w[i]]
        BY <1>4 DEF RunningSum
    <2> QED  BY <2>1, <2>2, <2>3
<1>6. size = [i \in 0..n |-> IF i = 0 THEN 0 ELSE size[i - 1] + Width(fields[i].format)]
    BY <1>5
<1> HIDE DEF size
<1>7. RunningSum(size, n, 0, w)
    <2>1. \A i \in 0..n : i # 0 => i \in 1..n
        BY <1>2
    <2>2. \A i \in 1..n : w[i] = Width(fields[i].format)
        BY <1>2
    <2>3. size = [i \in 0..n |-> IF i = 0 THEN 0 ELSE size[i - 1] + w[i]]
        BY <1>6, <2>1, <2>2
    <2> QED  BY <2>3 DEF RunningSum
<1> QED  BY <1>1, <1>7 DEF n

\* A message that has the parts of its fields, one behind the other: a string
\* as long as it likes if it is the last thing, the others as long as their
\* format says.
Carries(fields, parts, tail) ==
    /\ Len(parts) = Len(fields)
    /\ \A i \in 1..Len(fields) :
          IF fields[i].format = "s" THEN tail = << >>
          ELSE Len(parts[i]) = Width(fields[i].format)

UnpackedAs(fields, payload, parts) ==
    /\ FixedSize(fields) \in Nat /\ FixedSize(fields) <= Len(payload) - 1
    /\ UnpackedFields(fields, payload) =
          [i \in 1..Len(fields) |-> UnpackedField(fields[i].format, parts[i])]

LEMMA UnpackFinds ==
    ASSUME NEW S, NEW fields, FieldList(fields, FieldFormats),
           NEW head \in Seq(S), Len(head) = 1, NEW parts \in Seq(Seq(S)), NEW tail \in Seq(S),
           Carries(fields, parts, tail)
    PROVE  /\ (head \o FlattenSeq(parts) \o tail)[1] = head[1]
           /\ UnpackedAs(fields, head \o FlattenSeq(parts) \o tail, parts)
<1> DEFINE payload == head \o FlattenSeq(parts) \o tail
           n == Len(fields)
           rest == Len(payload) - 1 - FixedSize(fields)
           size(i) == IF IsString(fields[i].format) THEN rest ELSE Width(fields[i].format)
           end == CHOOSE f : f = [i \in 0..n |-> IF i = 0 THEN 1 ELSE f[i - 1] + size(i)]
           w == [i \in 1..n |-> Len(parts[i])]
           v == [i \in 1..n |-> Width(fields[i].format)]
<1>1. n \in Nat /\ DOMAIN fields = 1..n /\ Len(parts) = n
    BY DEF FieldList, Carries
<1>2. UnpackedFields(fields, payload) =
        [i \in DOMAIN fields |-> UnpackedField(fields[i].format, SubSeq(payload, end[i - 1] + 1, end[i]))]
    BY DEF UnpackedFields
<1>3. \A i \in 1..n : Len(parts[i]) \in Nat /\ parts[i] \in Seq(S)
    BY <1>1
<1>4. w \in [1..n -> Nat] /\ v \in [1..n -> Nat]
    BY <1>3, WidthOf
<1>5. PICK g : RunningSum(g, n, 1, w)
    <2> HIDE DEF w, n
    <2> QED  BY <1>1, <1>4, SumsExist
<1>6. g \in [0..n -> Nat] /\ g[0] = 1 /\ \A i \in 1..n : g[i] = g[i - 1] + w[i]
    <2> HIDE DEF w, n
    <2>1. Sums(g, n, 1, w)
        BY <1>1, <1>4, <1>5, SumsAre
    <2> QED  BY <2>1 DEF Sums
<1>7. Ends(parts, g)
    BY <1>1, <1>6 DEF Ends
<1>8. payload \in Seq(S) /\ Found(payload, head, parts, g, tail)
    <2> HIDE DEF n
    <2> QED  BY <1>6, <1>7, PartsAreFound
<1>9. Len(tail) \in Nat /\ Len(payload) = g[n] + Len(tail) /\ g[n] \in Nat
    <2>1. n \in 0..n
        BY <1>1
    <2>2. Len(payload) = g[Len(parts)] + Len(tail)
        BY <1>8 DEF Found
    <2>3. Len(tail) \in Nat
        OBVIOUS
    <2> HIDE DEF n
    <2> QED  BY <1>1, <1>6, <2>1, <2>2, <2>3
<1>10. payload[1] = head[1]
    <2>1. 1 \in 1..Len(head)
        OBVIOUS
    <2> QED  BY <1>8, <2>1 DEF Found
<1>11. PICK total : RunningSum(total, n, 0, v) /\ FixedSize(fields) = total[n]
    BY <1>1, FixedSizeIs
<1>12. total \in [0..n -> Nat] /\ total[0] = 0 /\ \A i \in 1..n : total[i] = total[i - 1] + v[i]
    <2> HIDE DEF v, n
    <2>1. Sums(total, n, 0, v)
        BY <1>1, <1>4, <1>11, SumsAre
    <2> QED  BY <2>1 DEF Sums
<1> HIDE DEF n, payload
<1>13. /\ FixedSize(fields) \in Nat /\ FixedSize(fields) <= Len(payload) - 1
       /\ \A i \in 1..n : size(i) = w[i]
    <2>1. CASE \E i \in 1..n : fields[i].format = "s"
        <3>1. n = 1 /\ fields[1].format = "s"
            <4> HIDE DEF size, w, v, end, rest
            <4>1. PICK i \in 1..n : fields[i].format = "s"
                BY <2>1
            <4>2. n = 1
                BY <4>1 DEF FieldList, n
            <4> QED  BY <4>1, <4>2
        <3>2. tail = << >>
            BY <3>1 DEF Carries, n
        <3>3. FixedSize(fields) = 0
            <4>1. 1 \in 1..n /\ v[1] = 0
                BY <3>1, WidthOf
            <4>2. total[1] = total[0] + v[1]
                BY <1>12, <3>1
            <4> QED  BY <1>11, <1>12, <3>1, <4>1, <4>2
        <3>4. Len(payload) - 1 = w[1]
            <4>1. g[1] = g[0] + w[1] /\ w[1] \in Nat
                BY <1>4, <1>6, <3>1
            <4>2. Len(tail) = 0
                BY <3>2
            <4> QED  BY <1>6, <1>9, <3>1, <4>1, <4>2
        <3>5. w[1] \in Nat
            BY <1>4, <3>1
        <3>6. size(1) = rest
            BY <3>1 DEF IsString
        <3> HIDE DEF w, size
        <3>7. rest = w[1]
            BY <3>3, <3>4, <3>5
        <3> QED  BY <3>1, <3>3, <3>4, <3>5, <3>6, <3>7
    <2>2. CASE ~ \E i \in 1..n : fields[i].format = "s"
        <3>1. \A i \in 1..n : w[i] = v[i] /\ size(i) = w[i]
            BY <2>2 DEF Carries, n, IsString
        <3>2. w = v
            BY <3>1
        <3> HIDE DEF w, v, size
        <3>3. RunningSum(total, n, 0, w) /\ n \in 0..n
            BY <1>1, <1>11, <3>2
        <3>6. Apart(g, total, n, 1, 0)
            BY <1>1, <1>4, <1>5, <3>3, SumsDiffer
        <3>4. g[n] - 1 = total[n] - 0
            BY <3>3, <3>6 DEF Apart
        <3>5. total[n] \in Nat
            BY <1>12, <3>3
        <3> QED  BY <1>9, <1>11, <3>1, <3>4, <3>5
    <2> QED  BY <2>1, <2>2
<1> HIDE DEF size, w, v
<1>14. g = [i \in 0..n |-> IF i = 0 THEN 1 ELSE g[i - 1] + size(i)]
    <2>1. g = [i \in 0..n |-> IF i = 0 THEN 1 ELSE g[i - 1] + w[i]]
        BY <1>5 DEF RunningSum
    <2>2. \A i \in 0..n : i # 0 => i \in 1..n
        BY <1>1
    <2> QED  BY <1>13, <2>1, <2>2
<1>15. end = [i \in 0..n |-> IF i = 0 THEN 1 ELSE end[i - 1] + size(i)]
    BY <1>14
<1> HIDE DEF end
<1>16. RunningSum(end, n, 1, w)
    <2>1. \A i \in 0..n : i # 0 => i \in 1..n
        BY <1>1
    <2>2. end = [i \in 0..n |-> IF i = 0 THEN 1 ELSE end[i - 1] + w[i]]
        BY <1>13, <1>15, <2>1
    <2> QED  BY <2>2 DEF RunningSum
<1>17. end \in [0..n -> Nat] /\ end[0] = 1 /\ \A i \in 1..n : end[i] = end[i - 1] + w[i]
    <2>1. Sums(end, n, 1, w)
        BY <1>1, <1>4, <1>16, SumsAre
    <2> QED  BY <2>1 DEF Sums
<1>18. Ends(parts, end)
    BY <1>1, <1>17 DEF Ends, w
<1>19. Found(payload, head, parts, end, tail)
    BY <1>17, <1>18, PartsAreFound DEF payload
<1>20. \A i \in 1..n : SubSeq(payload, end[i - 1] + 1, end[i]) = parts[i]
    BY <1>1, <1>19 DEF Found
<1>21. UnpackedFields(fields, payload) = [i \in 1..n |-> UnpackedField(fields[i].format, parts[i])]
    <2>1. UnpackedFields(fields, payload) =
            [i \in 1..n |-> UnpackedField(fields[i].format, SubSeq(payload, end[i - 1] + 1, end[i]))]
        BY <1>1, <1>2 DEF end, n, size
    <2> QED  BY <1>20, <2>1
<1> QED  BY <1>10, <1>13, <1>21 DEF UnpackedAs, n, payload

-----------------------------------------------------------------------------
(* What pack makes of a field, and unpack of that                           *)

FormatValue(format, v) ==
    IF Number(format) THEN v \in Int
    ELSE v \in Seq(Byte) /\ (format = "chunk" => Len(v) \in 1..ChunkBytes)

\* A field that pack does not refuse: its bytes, and what they are taken for.
HeardField(field, v) ==
    LET bytes == PackedField(field.format, v)
    IN  /\ bytes \in Seq(Byte)
        /\ field.format # "s" => Len(bytes) = Width(field.format)
        /\ Heeds(field.format, v, UnpackedField(field.format, bytes))

LEMMA PackedIsHeard ==
    ASSUME NEW field, field.format \in SentFormats, NEW v, FormatValue(field.format, v),
           Packable(field, v)
    PROVE  HeardField(field, v)
<1> DEFINE k == TruncatedHalfSteps(v)
           bytes == PackedField(field.format, v)
<1>1. CASE field.format \in {"i", "h", "b"}
    <2>1. v \in Int /\ Width(field.format) \in Widths
        BY <1>1, WidthOf DEF FormatValue, Number, Widths
    <2>2. /\ k \in Int
          /\ Magnitude(2 * k - v) <= 1
          /\ 2 * Magnitude(k) <= Magnitude(v)
        BY <2>1, TruncatedIsNearZero
    <2>3. bytes = SignedDigits(k, Width(field.format))
        BY <1>1 DEF PackedField
    <2>4. Fits(k, Width(field.format))
        BY <1>1 DEF Packable, Number
    <2> HIDE DEF k
    <2>5. bytes \in Seq(Byte) /\ Len(bytes) = Width(field.format) /\ Signed(bytes) = k
        BY <2>1, <2>2, <2>3, <2>4, SignedDigitsAreBytes, NumbersReadBack
    <2> HIDE DEF bytes
    <2>6. UnpackedField(field.format, bytes) = k
        BY <1>1, <2>5 DEF UnpackedField
    <2> QED  BY <1>1, <2>2, <2>5, <2>6 DEF HeardField, Heeds, Number, bytes
<1>2. CASE field.format = "I"
    <2>1. v \in Int /\ Width(field.format) = 4 /\ 4 \in Widths
        BY <1>2, WidthOf DEF FormatValue, Number, Widths
    <2>2. /\ k \in Int
          /\ Magnitude(2 * k - v) <= 1
          /\ 2 * Magnitude(k) <= Magnitude(v)
        BY <2>1, TruncatedIsNearZero
    <2>3. bytes = Digits(k, 4)
        BY <1>2 DEF PackedField
    <2>4. FitsUnsigned(k, 4)
        BY <1>2 DEF Packable, Number
    <2> HIDE DEF k
    <2>5. bytes \in Seq(Byte) /\ Len(bytes) = 4 /\ Unsigned(bytes) = k
        BY <2>1, <2>2, <2>3, <2>4, DigitsAreBytes
    <2> HIDE DEF bytes
    <2>6. UnpackedField(field.format, bytes) = k
        BY <1>2, <2>5 DEF UnpackedField
    <2>7. Heeds(field.format, v, k)
        BY <1>2, <2>2 DEF Heeds, Number
    <2> QED  BY <2>1, <2>5, <2>6, <2>7 DEF HeardField, bytes
<1>3. CASE field.format = "chunk"
    <2>1. v \in Seq(Byte) /\ Len(v) \in Nat /\ Width(field.format) = ChunkBytes /\ ChunkBytes \in Nat
        BY <1>3, WidthOf, MessagesAssumption DEF FormatValue, Number
    <2>2. bytes = [i \in 1..ChunkBytes |-> IF i <= Len(v) THEN v[i] ELSE 0]
        BY <1>3 DEF PackedField
    <2> HIDE DEF bytes
    <2>3. 0 \in Byte
        BY BaseAssumption DEF Byte
    <2>4. \A i \in 1..ChunkBytes : bytes[i] = IF i <= Len(v) THEN v[i] ELSE 0
        BY <2>2
    <2>5. bytes \in Seq(Byte) /\ Len(bytes) = ChunkBytes
        <3>1. \A i \in 1..ChunkBytes : (IF i <= Len(v) THEN v[i] ELSE 0) \in Byte
            BY <2>1, <2>3, ElementOfSeq
        <3>2. bytes \in [1..ChunkBytes -> Byte]
            BY <2>2, <3>1
        <3> QED  BY <2>1, <3>2
    <2>6. UnpackedField(field.format, bytes) = bytes
        BY <1>3 DEF UnpackedField
    <2>7. Heeds(field.format, v, bytes)
        BY <1>3, <2>4, <2>5, Zenon DEF Heeds, Number
    <2> QED  BY <2>1, <2>5, <2>6, <2>7 DEF HeardField, bytes
<1>4. CASE field.format = "s"
    <2>1. v \in Seq(Byte)
        BY <1>4 DEF FormatValue, Number
    <2>2. bytes = v /\ UnpackedField(field.format, v) = v
        BY <1>4 DEF PackedField, UnpackedField
    <2>3. Heeds(field.format, v, v)
        BY <1>4 DEF Heeds, Number
    <2> QED  BY <1>4, <2>1, <2>2, <2>3 DEF HeardField
<1> QED  BY <1>1, <1>2, <1>3, <1>4 DEF SentFormats

\* What pack refuses of a field is out of its range, or a fraction of what has
\* no scalar.
LEMMA RefusedIsOutOfRange ==
    ASSUME NEW field, field.format \in SentFormats, NEW v, FormatValue(field.format, v),
           ~Packable(field, v)
    PROVE  ~InRange(field, v)
<1> DEFINE k == TruncatedHalfSteps(v)
<1>1. SUFFICES ASSUME InRange(field, v) PROVE FALSE
    OBVIOUS
<1>2. Number(field.format) /\ v \in Int
    BY DEF Packable, FormatValue
<1>3. ~field.scaled => v % 2 = 0
    BY <1>1, <1>2 DEF InRange
<1>4. CASE field.format = "I"
    <2>1. v \in 0..2 * (Numbers(4) - 1)
        BY <1>1, <1>4 DEF InRange
    <2>2. 4 \in Widths
        BY DEF Widths
    <2>3. Numbers(4) \in Nat \ {0}
        BY <2>2, WidthFacts
    <2> DEFINE top == Numbers(4) - 1
    <2>4. top \in Int /\ 0 <= top /\ v \in 2 * 0..2 * top
        BY <2>1, <2>3
    <2> HIDE DEF top
    <2>5. k \in 0..top
        BY <2>4, TruncatedKeepsRange
    <2>6. FitsUnsigned(k, 4)
        <3> HIDE DEF k
        <3> QED  BY <2>3, <2>5 DEF FitsUnsigned, top
    <2> QED  BY <1>2, <1>3, <1>4, <2>6 DEF Packable
<1>5. CASE field.format \in {"i", "h", "b"}
    <2> DEFINE n == Width(field.format)
    <2>1. n \in Widths
        BY <1>5, WidthOf DEF Widths
    <2>2. v \in 2 * Lowest(n)..2 * Highest(n)
        BY <1>1, <1>5 DEF InRange
    <2> HIDE DEF n
    <2>3. PICK half \in Nat \ {0} : Lowest(n) = -half /\ Highest(n) = half - 1
        BY <2>1, Halves
    <2>4. Lowest(n) \in Int /\ Highest(n) \in Int /\ Lowest(n) <= 0 /\ 0 <= Highest(n)
        BY <2>3
    <2>5. k \in Lowest(n)..Highest(n)
        BY <2>2, <2>4, TruncatedKeepsRange
    <2>6. Fits(k, n)
        <3> HIDE DEF k
        <3> QED  BY <2>4, <2>5 DEF Fits
    <2> QED  BY <1>2, <1>3, <1>5, <2>6 DEF Packable, n
<1> QED  BY <1>2, <1>4, <1>5 DEF Number

-----------------------------------------------------------------------------

LEMMA SeqInto ==
    ASSUME NEW A, NEW B, A \subseteq B, NEW s \in Seq(A)
    PROVE  s \in Seq(B)
OBVIOUS

LEMMA NothingBehind ==
    ASSUME NEW S, NEW s \in Seq(S)
    PROVE  s \o << >> = s /\ << >> \in Seq(S)
BY ConcatEmptySeq

\* What is behind a header of two bytes, and that of a forwarded message.
LEMMA BehindHeader ==
    ASSUME NEW S, NEW h \in Seq(S), Len(h) = 3, NEW f \in Seq(S)
    PROVE  (h \o f)[1] = h[1] /\ (h \o f)[2] = h[2] /\ Behind(h \o f, 2) = <<h[3]>> \o f
<1> DEFINE c == h[3]
           p == h \o f
           q == <<c>> \o f
<1>1. <<c>> \in Seq(S) /\ Len(<<c>>) = 1
    OBVIOUS
<1>2. p \in Seq(S) /\ Joins(p, h, f)
    BY <1>1, Joined
<1>3. q \in Seq(S) /\ Joins(q, <<c>>, f)
    BY <1>1, Joined
<1> HIDE DEF p, q
<1>4. Len(p) = 3 + Len(f) /\ Len(q) = 1 + Len(f) /\ Len(f) \in Nat
    BY <1>1, <1>2, <1>3 DEF Joins
<1>5. p[1] = h[1] /\ p[2] = h[2] /\ p[3] = c
    BY <1>1, <1>2 DEF Joins
<1>6. \A k \in 1..Len(q) : q[k] = p[3 + k - 1]
    <2>1. ASSUME NEW k \in 1..Len(q) PROVE q[k] = p[3 + k - 1]
        <3>1. CASE k = 1
            <4>1. q[1] = c
                BY <1>1, <1>3 DEF Joins
            <4> QED  BY <1>5, <3>1, <4>1
        <3>2. CASE k # 1
            <4>1. PICK j \in 1..Len(f) : j = k - 1
                BY <1>4, <3>2
            <4>2. q[1 + j] = f[j]
                BY <1>1, <1>3 DEF Joins
            <4>3. p[3 + j] = f[j]
                BY <1>1, <1>2 DEF Joins
            <4>4. 1 + j = k /\ 3 + j = 3 + k - 1
                BY <4>1
            <4> QED  BY <4>2, <4>3, <4>4
        <3> QED  BY <3>1, <3>2
    <2> QED  BY <2>1
<1>7. SubSeq(p, 3, Len(p)) = q
    <2>1. 3 \in Nat \ {0} /\ Len(p) \in Nat /\ 3 <= Len(p) + 1 /\ Len(q) = Len(p) - 3 + 1
        BY <1>4
    <2> QED  BY <1>2, <1>3, <1>6, <2>1, SameSlice
<1>8. Behind(p, 2) = SubSeq(p, 3, Len(p))
    BY DEF Behind
<1> QED  BY <1>5, <1>7, <1>8 DEF p, q

\* The parts of a message.
LEMMA PartsFlatten ==
    ASSUME NEW S, NEW parts \in Seq(Seq(S))
    PROVE  FlattenSeq(parts) \in Seq(S)
<1> DEFINE n == Len(parts)
           w == [i \in 1..n |-> Len(parts[i])]
<1>1. n \in Nat /\ w \in [1..n -> Nat]
    OBVIOUS
<1>2. PICK g : RunningSum(g, n, 0, w)
    <2> HIDE DEF w, n
    <2> QED  BY <1>1, SumsExist
<1>3. Sums(g, n, 0, w)
    <2> HIDE DEF w, n
    <2> QED  BY <1>1, <1>2, SumsAre
<1>4. Ends(parts, g)
    BY <1>3 DEF Sums, Ends
<1> QED  BY <1>4, FlattenFills

-----------------------------------------------------------------------------
(* Commands are heard                                                       *)

FieldValues(c, values) ==
    /\ values = [i \in 1..Len(SendFields(c)) |-> values[i]]
    /\ \A i \in 1..Len(SendFields(c)) : FormatValue(SendFields(c)[i].format, values[i])

HeardAs(c, values, to, heard) ==
    /\ heard.to = to
    /\ heard.class = c
    /\ Len(heard.values) = Len(values)
    /\ \A i \in DOMAIN values : Heeds(SendFields(c)[i].format, values[i], heard.values[i])

\* What pack does not refuse: the bytes of its fields.
LEMMA PackedFields ==
    ASSUME NEW c \in DOMAIN Class, NEW values, FieldValues(c, values), NEW to,
           PackError(c, values, to) = None,
           NEW parts, parts = [i \in DOMAIN values |-> PackedField(SendFields(c)[i].format, values[i])]
    PROVE  /\ Len(values) = Len(SendFields(c)) /\ DOMAIN values = 1..Len(SendFields(c))
           /\ parts \in Seq(Seq(Byte))
           /\ Carries(SendFields(c), parts, << >>)
           /\ \A i \in 1..Len(SendFields(c)) :
                 /\ parts[i] = PackedField(SendFields(c)[i].format, values[i])
                 /\ HeardField(SendFields(c)[i], values[i])
<1> DEFINE fields == SendFields(c)
           n == Len(fields)
<1>1. FieldList(fields, SentFormats)
    BY FieldLists
<1>2. n \in Nat /\ DOMAIN fields = 1..n /\ \A i \in 1..n : fields[i].format \in SentFormats
    BY <1>1 DEF FieldList
<1>3. values = [i \in 1..n |-> values[i]] /\ \A i \in 1..n : FormatValue(fields[i].format, values[i])
    BY DEF FieldValues
<1> HIDE DEF n, fields
<1>4. DOMAIN values = 1..n /\ Len(values) = n
    BY <1>2, <1>3
<1>5. ASSUME NEW i \in 1..n PROVE Packable(fields[i], values[i])
    <2>1. "struct.error" # None /\ "UnboundLocalError" # None
        BY MessagesAssumption
    <2> QED  BY <1>4, <2>1 DEF PackError, fields
<1>6. \A i \in 1..n : HeardField(fields[i], values[i])
    BY <1>2, <1>3, <1>5, PackedIsHeard
<1>7. parts = [i \in 1..n |-> PackedField(fields[i].format, values[i])]
    BY <1>4 DEF fields
<1>8. \A i \in 1..n : parts[i] = PackedField(fields[i].format, values[i])
    BY <1>7
<1>9. \A i \in 1..n : parts[i] \in Seq(Byte) /\ (fields[i].format # "s" => Len(parts[i]) = Width(fields[i].format))
    BY <1>6, <1>8 DEF HeardField
<1>10. parts \in Seq(Seq(Byte)) /\ Len(parts) = n
    BY <1>2, <1>7, <1>9
<1>11. Carries(fields, parts, << >>)
    BY <1>9, <1>10 DEF Carries, n
<1> QED  BY <1>4, <1>6, <1>8, <1>10, <1>11 DEF n, fields

\* What pack does not refuse is heard by the controller it is for.
LEMMA SentIsHeard ==
    ASSUME NEW c \in DOMAIN Class, NEW values, FieldValues(c, values), NEW to,
           PackError(c, values, to) = None
    PROVE  HeardAs(c, values, to, Heard(Pack(c, values, to)))
<1> DEFINE fields == SendFields(c)
           n == Len(fields)
           parts == [i \in DOMAIN values |-> PackedField(fields[i].format, values[i])]
           f == FlattenSeq(parts)
           id == Class[c].id
           S == Byte \cup {id, to, ForwardCan}
           message == <<id>> \o f
           payload == Pack(c, values, to)
<1>1. FieldList(fields, SentFormats) /\ FieldList(fields, FieldFormats)
    <2>1. FieldList(fields, SentFormats)
        BY FieldLists
    <2> QED  BY <2>1 DEF FieldList, FieldFormats
<1>2. n \in Nat /\ DOMAIN fields = 1..n
    BY <1>1 DEF FieldList
<1>3. TypeOf(id) = c /\ id # ForwardCan
    BY ClassOfId
<1>4. payload = Header(c, to) \o f
    BY DEF Pack
<1>5. /\ Len(values) = n /\ DOMAIN values = 1..n
      /\ parts \in Seq(Seq(Byte))
      /\ Carries(fields, parts, << >>)
      /\ \A i \in 1..n : /\ parts[i] = PackedField(fields[i].format, values[i])
                         /\ HeardField(fields[i], values[i])
    <2> HIDE DEF fields
    <2>1. fields = SendFields(c)
        BY DEF fields
    <2> HIDE DEF parts
    <2>2. parts = [i \in DOMAIN values |-> PackedField(SendFields(c)[i].format, values[i])]
        BY <2>1 DEF parts
    <2> QED  BY <2>1, <2>2, PackedFields
<1> HIDE DEF parts, fields
<1>6. parts \in Seq(Seq(S)) /\ id \in S /\ to \in S /\ ForwardCan \in S
    <2>1. \A s \in Seq(Byte) : s \in Seq(S)
        <3> HIDE DEF S
        <3>1. Byte \subseteq S
            BY DEF S
        <3> QED  BY <3>1, SeqInto
    <2>2. Seq(Byte) \subseteq Seq(S)
        BY <2>1
    <2> HIDE DEF S
    <2>3. parts \in Seq(Seq(S))
        BY <1>5, <2>2, SeqInto
    <2> QED  BY <2>3 DEF S
<1> HIDE DEF S
<1>7. f \in Seq(S)
    BY <1>6, PartsFlatten
<1> HIDE DEF f
<1>8. <<id>> \in Seq(S) /\ Len(<<id>>) = 1 /\ <<id>>[1] = id /\ << >> \in Seq(S)
    BY <1>6
<1> HIDE DEF id
<1>9. message \in Seq(S) /\ message = message \o << >>
    <2>1. message \in Seq(S)
        BY <1>7, <1>8, ConcatProperties
    <2> HIDE DEF message
    <2> QED  BY <2>1, NothingBehind
<1>10. /\ message[1] = id
       /\ UnpackedAs(fields, message, parts)
    <2>1. message = <<id>> \o FlattenSeq(parts) \o << >>
        BY <1>9 DEF f
    <2> DEFINE head == <<id>>
               tail == << >>
    <2>2. message = head \o FlattenSeq(parts) \o tail
        BY <2>1
    <2>3. head \in Seq(S) /\ Len(head) = 1 /\ head[1] = id /\ tail \in Seq(S)
        BY <1>8
    <2>4. Carries(fields, parts, tail)
        BY <1>5
    <2> HIDE DEF message, n, head, tail
    <2>5. (head \o FlattenSeq(parts) \o tail)[1] = head[1] /\ UnpackedAs(fields, head \o FlattenSeq(parts) \o tail, parts)
        BY <1>1, <1>6, <2>3, <2>4, UnpackFinds
    <2> QED  BY <2>2, <2>3, <2>5
<1>11. Message(payload) = message /\ (IF Forwarded(payload) THEN payload[2] ELSE None) = to
    <2>1. CASE to = None
        <3>1. payload = message
            BY <1>4, <2>1 DEF Header, id
        <3>2. ~Forwarded(payload)
            BY <1>3, <1>10, <3>1 DEF Forwarded, id
        <3> QED  BY <2>1, <3>1, <3>2 DEF Message
    <2>2. CASE to # None
        <3>1. payload = <<ForwardCan, to, id>> \o f
            BY <1>4, <2>2 DEF Header, id
        <3> HIDE DEF payload
        <3>2. payload[1] = ForwardCan /\ payload[2] = to /\ Behind(payload, 2) = message
            <4> DEFINE h == <<ForwardCan, to, id>>
            <4>1. h \in Seq(S) /\ Len(h) = 3 /\ h[1] = ForwardCan /\ h[2] = to /\ h[3] = id
                BY <1>6
            <4> HIDE DEF h
            <4>2. (h \o f)[1] = h[1] /\ (h \o f)[2] = h[2] /\ Behind(h \o f, 2) = <<h[3]>> \o f
                BY <1>7, <4>1, BehindHeader
            <4> QED  BY <3>1, <4>1, <4>2 DEF h
        <3> QED  BY <3>2 DEF Message, Forwarded
    <2> QED  BY <2>1, <2>2
<1> HIDE DEF message, payload
<1> DEFINE heard == Heard(payload)
<1>12. heard.to = to /\ heard.class = c /\ heard.values = UnpackedFields(fields, message)
    BY <1>3, <1>10, <1>11 DEF Heard, fields, id
<1> HIDE DEF heard, n
<1>13. UnpackedFields(fields, message) = [i \in 1..n |-> UnpackedField(fields[i].format, parts[i])]
    BY <1>10 DEF UnpackedAs, n
<1>14. Len(heard.values) = n
    BY <1>2, <1>12, <1>13
<1>15. ASSUME NEW i \in 1..n
       PROVE  Heeds(fields[i].format, values[i], heard.values[i])
    <2>1. heard.values[i] = UnpackedField(fields[i].format, PackedField(fields[i].format, values[i]))
        BY <1>5, <1>12, <1>13
    <2>2. HeardField(fields[i], values[i])
        BY <1>5
    <2> QED  BY <2>1, <2>2 DEF HeardField
<1> QED  BY <1>5, <1>12, <1>14, <1>15 DEF HeardAs, heard, payload, fields

LEMMA RefusedRightly ==
    ASSUME NEW c \in DOMAIN Class, NEW values, FieldValues(c, values), NEW to,
           PackError(c, values, to) # None
    PROVE  \/ \E i \in DOMAIN values : ~InRange(SendFields(c)[i], values[i])
           \/ to # None /\ \E i \in DOMAIN SendFields(c) : SendFields(c)[i].format = "s"
<1> DEFINE fields == SendFields(c)
           n == Len(fields)
<1>1. FieldList(fields, SentFormats)
    BY FieldLists
<1>2. n \in Nat /\ DOMAIN fields = 1..n /\ \A i \in 1..n : fields[i].format \in SentFormats
    BY <1>1 DEF FieldList
<1>3. values = [i \in 1..n |-> values[i]] /\ \A i \in 1..n : FormatValue(fields[i].format, values[i])
    BY DEF FieldValues
<1> HIDE DEF n
<1>4. DOMAIN values = 1..n
    BY <1>3
<1>5. CASE to # None /\ StringField(fields) # {}
    BY <1>5 DEF StringField, IsString
<1>6. CASE ~(to # None /\ StringField(fields) # {})
    <2>1. PICK i \in DOMAIN values : ~Packable(fields[i], values[i])
        BY <1>6 DEF PackError
    <2>2. ~InRange(fields[i], values[i])
        BY <1>2, <1>3, <1>4, <2>1, RefusedIsOutOfRange
    <2> QED  BY <2>1, <2>2
<1> QED  BY <1>5, <1>6

-----------------------------------------------------------------------------
(* Reports are read                                                         *)

\* The controller's bytes for a field, and what unpack makes of them.
ReportedBytes(format, v) ==
    CASE format \in {"i", "h", "b"} -> SignedDigits(v, Width(format))
      [] format = "I" -> Digits(v, 4)
      [] format = "?" -> <<IF v THEN 1 ELSE 0>>
      [] OTHER -> v

ReportedValue(format, v) ==
    CASE format \in {"i", "h", "b"} -> v \in Lowest(Width(format))..Highest(Width(format))
      [] format = "I" -> v \in 0..Numbers(4) - 1
      [] format = "?" -> v \in BOOLEAN
      [] format \in {"c", "chunk"} -> v \in Seq(Byte) /\ Len(v) = Width(format)

LEMMA ReportedIsRead ==
    ASSUME NEW format \in FieldFormats, format # "s", NEW v, ReportedValue(format, v)
    PROVE  /\ ReportedBytes(format, v) \in Seq(Byte)
           /\ Len(ReportedBytes(format, v)) = Width(format)
           /\ UnpackedField(format, ReportedBytes(format, v)) = v
<1> DEFINE bytes == ReportedBytes(format, v)
<1>1. CASE format \in {"i", "h", "b"}
    <2> DEFINE n == Width(format)
    <2>1. n \in Widths
        BY <1>1, WidthOf DEF Widths
    <2>2. v \in Lowest(n)..Highest(n)
        BY <1>1 DEF ReportedValue
    <2>3. bytes = SignedDigits(v, n)
        BY <1>1 DEF ReportedBytes
    <2> HIDE DEF n, bytes
    <2>4. Lowest(n) \in Int /\ Highest(n) \in Int
        BY <2>1, Halves
    <2>5. v \in Int /\ Fits(v, n)
        BY <2>2, <2>4 DEF Fits
    <2>6. bytes \in Seq(Byte) /\ Len(bytes) = n /\ Signed(bytes) = v
        BY <2>1, <2>3, <2>5, SignedDigitsAreBytes, NumbersReadBack
    <2>7. UnpackedField(format, bytes) = v
        BY <1>1, <2>6 DEF UnpackedField
    <2> QED  BY <2>6, <2>7 DEF bytes, n
<1>2. CASE format = "I"
    <2>1. 4 \in Widths /\ Width(format) = 4
        BY <1>2, WidthOf DEF Widths
    <2>2. v \in 0..Numbers(4) - 1
        BY <1>2 DEF ReportedValue
    <2>3. bytes = Digits(v, 4)
        BY <1>2 DEF ReportedBytes
    <2> HIDE DEF bytes
    <2>4. bytes \in Seq(Byte) /\ Len(bytes) = 4 /\ Unsigned(bytes) = v
        BY <2>1, <2>2, <2>3, DigitsReadBack
    <2>5. UnpackedField(format, bytes) = v
        BY <1>2, <2>4 DEF UnpackedField
    <2> QED  BY <2>1, <2>4, <2>5 DEF bytes
<1>3. CASE format = "?"
    <2>1. v \in BOOLEAN /\ Width(format) = 1
        BY <1>3, WidthOf DEF ReportedValue
    <2>2. bytes = <<IF v THEN 1 ELSE 0>>
        BY <1>3 DEF ReportedBytes
    <2>3. 0 \in Byte /\ 1 \in Byte
        BY BaseAssumption DEF Byte
    <2>4. \A b \in Byte : <<b>> \in Seq(Byte) /\ Len(<<b>>) = 1 /\ Unsigned(<<b>>) = b
        BY DEF Unsigned
    <2>5. UnpackedField(format, bytes) = (Unsigned(bytes) # 0)
        BY <1>3 DEF UnpackedField
    <2> HIDE DEF bytes
    <2>6. CASE v = TRUE
        <3>1. bytes = <<1>>
            BY <2>2, <2>6
        <3> HIDE DEF bytes
        <3>2. UnpackedField(format, bytes) = v
            <4>1. Unsigned(bytes) = 1
                BY <2>3, <2>4, <3>1
            <4>2. (Unsigned(bytes) # 0) = TRUE
                BY <4>1
            <4> QED  BY <2>5, <2>6, <4>2
        <3> QED  BY <2>1, <2>3, <2>4, <3>1, <3>2 DEF bytes
    <2>7. CASE v = FALSE
        <3>1. bytes = <<0>>
            BY <2>2, <2>7
        <3> HIDE DEF bytes
        <3>2. UnpackedField(format, bytes) = v
            BY <2>3, <2>4, <2>5, <2>7, <3>1
        <3> QED  BY <2>1, <2>3, <2>4, <3>1, <3>2 DEF bytes
    <2> QED  BY <2>1, <2>6, <2>7
<1>4. CASE format \in {"c", "chunk"}
    BY <1>4 DEF ReportedValue, ReportedBytes, UnpackedField
<1> QED  BY <1>1, <1>2, <1>3, <1>4 DEF FieldFormats, SentFormats

\* What the controller reports, whatever stands behind it, is read.
LEMMA ReportIsUnderstood ==
    ASSUME NEW r \in Reports, NEW fields, fields = UnpackFields(r.class),
           NEW parts, parts = [i \in DOMAIN fields |-> ReportedBytes(fields[i].format, r.values[i])],
           NEW payload, payload = <<Class[r.class].id>> \o FlattenSeq(parts) \o r.tail
    PROVE  /\ UnpackError(payload) = None
           /\ Unpack(payload) = [class |-> r.class, fields |-> r.values]
<1> DEFINE n == Len(fields)
           c == r.class
           id == Class[c].id
           S == Byte \cup {id}
           head == <<id>>
           tail == r.tail
<1>1. /\ c \in DOMAIN Class /\ DOMAIN Class[c] # {"id"}
      /\ r.values = [i \in 1..n |-> r.values[i]]
      /\ tail \in Seq(Byte)
    BY ReportsAssumption
<1>2. \A i \in 1..n : fields[i].format # "s"
    <2>1. StringField(fields) = {}
        BY ReportsAssumption
    <2>2. FieldList(fields, FieldFormats)
        BY <1>1, FieldLists
    <2> QED  BY <2>1, <2>2 DEF StringField, IsString, FieldList
<1>3. \A i \in 1..n : ReportedValue(fields[i].format, r.values[i])
    BY ReportsAssumption DEF ReportedValue
<1>4. FieldList(fields, FieldFormats)
    BY <1>1, FieldLists
<1>5. n \in Nat /\ DOMAIN fields = 1..n /\ \A i \in 1..n : fields[i].format \in FieldFormats
    BY <1>4 DEF FieldList
<1>6. HasType(id) /\ TypeOf(id) = c
    BY <1>1, ClassOfId
<1>7. payload = head \o FlattenSeq(parts) \o tail
    OBVIOUS
<1> HIDE DEF n, id, head, tail
<1>8. parts = [i \in 1..n |-> ReportedBytes(fields[i].format, r.values[i])]
    BY <1>5
<1>9. ASSUME NEW i \in 1..n
      PROVE  /\ parts[i] \in Seq(Byte) /\ Len(parts[i]) = Width(fields[i].format)
             /\ UnpackedField(fields[i].format, parts[i]) = r.values[i]
    BY <1>2, <1>3, <1>5, <1>8, ReportedIsRead
<1>10. parts \in Seq(Seq(Byte)) /\ Len(parts) = n
    BY <1>5, <1>8, <1>9
<1>11. Carries(fields, parts, tail)
    BY <1>2, <1>9, <1>10 DEF Carries, n
<1>12. head \in Seq(S) /\ Len(head) = 1 /\ head[1] = id /\ tail \in Seq(S) /\ parts \in Seq(Seq(S))
    <2>1. Byte \subseteq S /\ id \in S
        OBVIOUS
    <2>2. head \in Seq(S) /\ Len(head) = 1 /\ head[1] = id
        BY <2>1 DEF head
    <2> HIDE DEF S
    <2>3. \A s \in Seq(Byte) : s \in Seq(S)
        BY <2>1, SeqInto
    <2>4. Seq(Byte) \subseteq Seq(S)
        BY <2>3
    <2>5. parts \in Seq(Seq(S))
        BY <1>10, <2>4, SeqInto
    <2> QED  BY <1>1, <2>2, <2>3, <2>5
<1> HIDE DEF S
<1>13. (head \o FlattenSeq(parts) \o tail)[1] = head[1] /\ UnpackedAs(fields, head \o FlattenSeq(parts) \o tail, parts)
    BY <1>4, <1>11, <1>12, UnpackFinds
<1>14. payload[1] = id /\ UnpackedAs(fields, payload, parts)
    BY <1>7, <1>12, <1>13
<1>15. UnpackError(payload) = None
    <2>1. FixedSize(fields) <= Len(payload) - 1 /\ FixedSize(fields) \in Nat
        BY <1>14 DEF UnpackedAs
    <2>2. ~(Len(payload) - 1 < FixedSize(fields))
        <3>1. Len(payload) \in Nat
            <4>1. FlattenSeq(parts) \in Seq(S)
                BY <1>12, PartsFlatten
            <4>2. head \o FlattenSeq(parts) \in Seq(S)
                BY <1>12, <4>1, ConcatProperties
            <4>3. payload \in Seq(S)
                BY <1>7, <1>12, <4>2, ConcatProperties
            <4>4. \A s \in Seq(S) : Len(s) \in Nat
                OBVIOUS
            <4> QED  BY <4>3, <4>4
        <3>2. \A a, b \in Nat : b <= a - 1 => ~(a - 1 < b)
            OBVIOUS
        <3> QED  BY <2>1, <3>1, <3>2
    <2> QED  BY <1>6, <1>14, <2>2 DEF UnpackError
<1>16. UnpackedFields(fields, payload) = r.values
    <2>1. UnpackedFields(fields, payload) = [i \in 1..n |-> UnpackedField(fields[i].format, parts[i])]
        BY <1>14 DEF UnpackedAs, n
    <2> QED  BY <1>1, <1>9, <2>1
<1> QED  BY <1>6, <1>14, <1>15, <1>16 DEF Unpack

-----------------------------------------------------------------------------

LEMMA CommandIsUnderstood ==
    ASSUME NEW o \in Orders, Command(o)
    PROVE  MessageUnderstood'
<1> DEFINE c == o.class
           error == PackError(c, o.values, can_id)
           fields == SendFields(c)
<1>1. c \in DOMAIN Class /\ FieldValues(c, o.values)
    BY OrdersAssumption DEF FieldValues, FormatValue
<1>2. can_id' = can_id
    BY DEF Command
<1>3. order' = [order |-> o, raised |-> error,
                heard |-> IF error # None THEN None ELSE Heard(Pack(c, o.values, can_id))]
    BY DEF Command
<1> HIDE DEF error
<1>4. order'.order = o /\ order'.raised = error /\ "order" \in DOMAIN (order')
    BY <1>3
<1>5. CASE error = None
    <2>1. order'.heard = Heard(Pack(c, o.values, can_id))
        BY <1>3, <1>5
    <2>2. HeardAs(c, o.values, can_id, order'.heard)
        BY <1>1, <1>5, <2>1, SentIsHeard DEF error
    <2> QED  BY <1>2, <1>4, <1>5, <2>2 DEF MessageUnderstood, HeardAs
<1>6. CASE error # None
    <2>1. \/ \E i \in DOMAIN o.values : ~InRange(fields[i], o.values[i])
          \/ can_id # None /\ \E i \in DOMAIN fields : fields[i].format = "s"
        BY <1>1, <1>6, RefusedRightly DEF error
    <2>2. ~StringOverCan(o) => OutOfRange(o)
        BY <2>1 DEF StringOverCan, OutOfRange, StringField, IsString
    <2>3. ~StringOverCan(o)' => OutOfRange(o)
        BY <1>2, <2>2 DEF StringOverCan
    <2> QED  BY <1>4, <1>6, <2>3 DEF MessageUnderstood
<1> QED  BY <1>5, <1>6

LEMMA ReportKept ==
    ASSUME NEW r \in Reports, Report(r)
    PROVE  MessageUnderstood'
<1> DEFINE fields == UnpackFields(r.class)
           parts == [i \in DOMAIN fields |-> ReportedBytes(fields[i].format, r.values[i])]
           payload == <<Class[r.class].id>> \o FlattenSeq(parts) \o r.tail
<1>1. order' = [report |-> r, raised |-> UnpackError(payload), understood |-> Unpack(payload)]
    BY DEF Report, ReportedBytes
<1>2. /\ UnpackError(payload) = None
      /\ Unpack(payload) = [class |-> r.class, fields |-> r.values]
    <2> HIDE DEF fields
    <2>1. fields = UnpackFields(r.class)
        BY DEF fields
    <2> DEFINE q == payload
    <2>2. parts = [i \in DOMAIN fields |-> ReportedBytes(fields[i].format, r.values[i])]
        OBVIOUS
    <2> HIDE DEF parts
    <2>3. payload = <<Class[r.class].id>> \o FlattenSeq(parts) \o r.tail
        OBVIOUS
    <2> HIDE DEF payload
    <2> QED  BY <2>1, <2>2, <2>3, ReportIsUnderstood
<1> HIDE DEF payload
<1>3. /\ order'.raised = None /\ order'.report = r /\ "order" \notin DOMAIN (order')
      /\ order'.understood = [class |-> r.class, fields |-> r.values]
    BY <1>1, <1>2
<1> QED  BY <1>3 DEF MessageUnderstood

\* Every command that is packed, of any amount and with a firmware chunk of any
\* length up to ChunkBytes, is heard with each field in its place; a command
\* without text is refused only for a value out of its range; and every report is
\* read as it was made.
THEOREM MessagesUnderstood == Spec => []MessageUnderstood
<1>1. Init => MessageUnderstood
    BY DEF Init, MessageUnderstood
<1>2. MessageUnderstood /\ [Next]_vars => MessageUnderstood'
    <2> SUFFICES ASSUME MessageUnderstood, [Next]_vars PROVE MessageUnderstood'
        OBVIOUS
    <2>1. CASE UNCHANGED <<order, can_id>>
        BY <2>1 DEF MessageUnderstood, StringOverCan, OutOfRange
    <2>2. ASSUME NEW o \in Orders, Command(o) PROVE MessageUnderstood'
        BY <2>2, CommandIsUnderstood
    <2>3. ASSUME NEW r \in Reports, Report(r) PROVE MessageUnderstood'
        BY <2>3, ReportKept
    <2>4. CASE Forget
        BY <2>4 DEF Forget, MessageUnderstood
    <2>5. CASE UNCHANGED vars
        BY <2>1, <2>5 DEF vars
    <2>6. ASSUME NEW op \in Requests, Get(op) \/ Set(op) PROVE UNCHANGED <<order, can_id>>
        BY <2>6 DEF Get, Set, Exchange, Refused
    <2>7. CASE Terminal
        BY <2>1, <2>7 DEF Terminal, Exchange, Refused
    <2>8. CASE Collect \/ EndRead \/ Handle
        BY <2>1, <2>8 DEF Collect, EndRead, Handle
    <2>9. ASSUME NEW kind \in Kind, Load(kind) PROVE UNCHANGED <<order, can_id>>
        BY <2>9 DEF Load
    <2>10. ASSUME NEW e \in Edits, Edit(e) PROVE UNCHANGED <<order, can_id>>
        BY <2>10 DEF Edit
    <2> QED  BY <2>1, <2>2, <2>3, <2>4, <2>5, <2>6, <2>7, <2>8, <2>9, <2>10 DEF Next
<1> QED  BY <1>1, <1>2, PTL DEF Spec

-----------------------------------------------------------------------------
(* What a sequence of parts begins with                                     *)

LEMMA NoParts ==
    ASSUME NEW S, NEW s \in Seq(S)
    PROVE  << >> \o s = s
BY ConcatEmptySeq

\* The first of some parts is what their sequence begins with.
LEMMA FirstPart ==
    ASSUME NEW S, NEW parts \in Seq(Seq(S)), Len(parts) >= 1
    PROVE  /\ FlattenSeq(parts) \in Seq(S)
           /\ Len(FlattenSeq(parts)) \in Nat /\ Len(parts[1]) \in Nat
           /\ Len(FlattenSeq(parts)) >= Len(parts[1])
           /\ SubSeq(FlattenSeq(parts), 1, Len(parts[1])) = parts[1]
           /\ Len(parts) = 1 => FlattenSeq(parts) = parts[1]
<1> DEFINE n == Len(parts)
           w == [i \in 1..n |-> Len(parts[i])]
           f == FlattenSeq(parts)
           e == << >>
<1>1. n \in Nat /\ n >= 1 /\ w \in [1..n -> Nat]
    OBVIOUS
<1>2. PICK g : RunningSum(g, n, 0, w)
    <2> HIDE DEF w, n
    <2> QED  BY <1>1, SumsExist
<1>3. Sums(g, n, 0, w)
    <2> HIDE DEF w, n
    <2> QED  BY <1>1, <1>2, SumsAre
<1>4. Ends(parts, g) /\ g[0] = 0
    BY <1>3 DEF Sums, Ends
<1>5. e \in Seq(S) /\ Len(e) = 0
    OBVIOUS
<1>6. f \in Seq(S) /\ Len(f) = g[n] - g[0]
    BY <1>4, FlattenFills
<1>7. Found(e \o f \o e, e, parts, g, e)
    <2> HIDE DEF e
    <2> QED  BY <1>4, <1>5, PartsAreFound
<1> HIDE DEF f
<1>8. e \o f \o e = f
    BY <1>6, NoParts, NothingBehind
<1>9. SubSeq(f, g[0] + 1, g[1]) = parts[1]
    <2>1. 1 \in 1..Len(parts) /\ 1 - 1 = 0
        BY <1>1
    <2>2. \A i \in 1..Len(parts) : SubSeq(f, g[i - 1] + 1, g[i]) = parts[i]
        BY <1>7, <1>8 DEF Found
    <2> QED  BY <2>1, <2>2
<1>10. g[1] = Len(parts[1]) /\ Len(parts[1]) \in Nat
    <2>1. 1 \in 1..n /\ 1 - 1 = 0
        BY <1>1
    <2>2. g[1] = g[0] + w[1] /\ w[1] = Len(parts[1]) /\ w[1] \in Nat
        BY <1>1, <1>3, <2>1 DEF Sums
    <2> QED  BY <1>4, <2>2
<1>11. g[1] <= g[n] /\ g[n] \in Nat
    <2>1. n \in 0..n /\ 1 \in 0..n
        BY <1>1
    <2>2. g[1] <= g[n]
        BY <1>4, <2>1, EndsGrow
    <2> QED  BY <1>3, <2>1, <2>2 DEF Sums
<1>12. SubSeq(f, 1, Len(parts[1])) = parts[1]
    BY <1>4, <1>9, <1>10
<1>13. Len(f) \in Nat /\ Len(f) >= Len(parts[1])
    BY <1>4, <1>6, <1>10, <1>11
<1>14. ASSUME n = 1 PROVE f = parts[1]
    <2>1. Len(f) = Len(parts[1])
        BY <1>4, <1>6, <1>10, <1>14
    <2>2. SubSeq(f, 1, Len(f)) = f
        BY <1>6
    <2> QED  BY <1>12, <2>1, <2>2
<1> QED  BY <1>6, <1>10, <1>12, <1>13, <1>14 DEF f

-----------------------------------------------------------------------------
(* Messages with one string                                                 *)

Reader == [mcconf |-> "GetMotorConfig", appconf |-> "GetAppConfig"]
Writer == [mcconf |-> "SetMotorConfig", appconf |-> "SetAppConfig"]

LEMMA ConfigClasses ==
    ASSUME NEW kind \in Kind
    PROVE  /\ Reader[kind] \in DOMAIN Class /\ "recv" \in DOMAIN Class[Reader[kind]]
           /\ Class[Reader[kind]].recv = <<Field(kind, "s")>>
           /\ Writer[kind] \in DOMAIN Class /\ "recv" \notin DOMAIN Class[Writer[kind]]
           /\ "send" \in DOMAIN Class[Writer[kind]]
           /\ Class[Writer[kind]].send = <<Field(kind, "s")>>
<1>1. /\ "GetMotorConfig" \in GetterNames /\ "GetAppConfig" \in GetterNames
      /\ "SetMotorConfig" \in SetterNames /\ "SetAppConfig" \in SetterNames
    BY DEF GetterNames, SetterNames
<1>2. /\ Class["GetMotorConfig"] = Getters["GetMotorConfig"] /\ Class["GetAppConfig"] = Getters["GetAppConfig"]
      /\ Class["SetMotorConfig"] = Setters["SetMotorConfig"] /\ Class["SetAppConfig"] = Setters["SetAppConfig"]
    BY <1>1, ClassIs
<1>3. CASE kind = "mcconf"
    <2>1. Reader[kind] = "GetMotorConfig" /\ Writer[kind] = "SetMotorConfig"
        BY <1>3 DEF Reader, Writer
    <2>2. /\ "recv" \in DOMAIN Getters["GetMotorConfig"]
          /\ Getters["GetMotorConfig"].recv = <<Field("mcconf", "s")>>
        BY DEF Getters
    <2>3. /\ "recv" \notin DOMAIN Setters["SetMotorConfig"] /\ "send" \in DOMAIN Setters["SetMotorConfig"]
          /\ Setters["SetMotorConfig"].send = <<Field("mcconf", "s")>>
        BY DEF Setters
    <2> QED  BY <1>1, <1>2, <1>3, <2>1, <2>2, <2>3, ClassIs
<1>4. CASE kind = "appconf"
    <2>1. Reader[kind] = "GetAppConfig" /\ Writer[kind] = "SetAppConfig"
        BY <1>4 DEF Reader, Writer
    <2>2. /\ "recv" \in DOMAIN Getters["GetAppConfig"]
          /\ Getters["GetAppConfig"].recv = <<Field("appconf", "s")>>
        BY DEF Getters
    <2>3. /\ "recv" \notin DOMAIN Setters["SetAppConfig"] /\ "send" \in DOMAIN Setters["SetAppConfig"]
          /\ Setters["SetAppConfig"].send = <<Field("appconf", "s")>>
        BY DEF Setters
    <2> QED  BY <1>1, <1>2, <1>4, <2>1, <2>2, <2>3, ClassIs
<1> QED  BY <1>3, <1>4 DEF Kind

LEMMA OtherClasses ==
    /\ "TerminalPrint" \in DOMAIN Class /\ "recv" \in DOMAIN Class["TerminalPrint"]
    /\ Class["TerminalPrint"].recv = <<Field("msg", "s")>>
    /\ "GetVersion" \in DOMAIN Class /\ "recv" \in DOMAIN Class["GetVersion"]
    /\ Class["GetVersion"].recv = <<Field("fw_version_major", "b"), Field("fw_version_minor", "b")>>
    /\ "TerminalCmd" \in DOMAIN Class /\ "send" \in DOMAIN Class["TerminalCmd"]
    /\ Class["TerminalCmd"].send = <<Field("cmd", "s")>>
<1>1. "TerminalPrint" \in SetterNames /\ "TerminalCmd" \in SetterNames /\ "GetVersion" \in GetterNames
    BY DEF SetterNames, GetterNames
<1>2. "recv" \in DOMAIN Setters["TerminalPrint"] /\ Setters["TerminalPrint"].recv = <<Field("msg", "s")>>
    BY DEF Setters
<1>3. "send" \in DOMAIN Setters["TerminalCmd"] /\ Setters["TerminalCmd"].send = <<Field("cmd", "s")>>
    BY DEF Setters
<1>4. /\ "recv" \in DOMAIN Getters["GetVersion"]
      /\ Getters["GetVersion"].recv = <<Field("fw_version_major", "b"), Field("fw_version_minor", "b")>>
    BY DEF Getters
<1> QED  BY <1>1, <1>2, <1>3, <1>4, ClassIs

LEMMA OneStringField ==
    ASSUME NEW name, NEW fields, fields = <<Field(name, "s")>>
    PROVE  /\ Len(fields) = 1 /\ DOMAIN fields = 1..1 /\ fields[1].format = "s" /\ fields[1].name = name
           /\ FieldList(fields, FieldFormats)
           /\ StringField(fields) = {1}
<1>1. Len(fields) = 1 /\ DOMAIN fields = 1..1 /\ fields[1] = Field(name, "s")
    OBVIOUS
<1>2. fields[1].format = "s" /\ fields[1].name = name
    BY <1>1 DEF Field
<1>3. FieldList(fields, FieldFormats)
    <2>1. \A i \in 1..1 : i = 1
        OBVIOUS
    <2>2. "s" \in FieldFormats
        BY DEF FieldFormats, SentFormats
    <2> QED  BY <1>1, <1>2, <2>1, <2>2 DEF FieldList
<1>4. StringField(fields) = {1}
    BY <1>1, <1>2 DEF StringField, IsString
<1> QED  BY <1>1, <1>2, <1>3, <1>4

\* A message of one string: all there is behind the first byte.
LEMMA StringMessage ==
    ASSUME NEW c \in DOMAIN Class, NEW name, UnpackFields(c) = <<Field(name, "s")>>,
           NEW text \in Seq(Byte)
    PROVE  /\ (Ack(c) \o text)[1] = Class[c].id
           /\ Unpack(Ack(c) \o text) = [class |-> c, fields |-> [i \in 1..1 |-> text]]
<1> DEFINE fields == UnpackFields(c)
           id == Class[c].id
           S == Byte \cup {id}
           head == <<id>>
           parts == <<text>>
           tail == << >>
           payload == head \o text
<1>1. Len(fields) = 1 /\ fields[1].format = "s" /\ FieldList(fields, FieldFormats)
    BY OneStringField
<1>2. TypeOf(id) = c
    BY ClassOfId
<1>3. Ack(c) \o text = payload
    BY DEF Ack
<1> HIDE DEF fields, id
<1>4. head \in Seq(S) /\ Len(head) = 1 /\ head[1] = id /\ tail \in Seq(S)
    OBVIOUS
<1>5. text \in Seq(S) /\ parts \in Seq(Seq(S)) /\ Len(parts) = 1 /\ parts[1] = text
    <2>1. Byte \subseteq S
        OBVIOUS
    <2> HIDE DEF S
    <2>2. text \in Seq(S)
        BY <2>1, SeqInto
    <2> QED  BY <2>2
<1>6. Carries(fields, parts, tail)
    BY <1>1, <1>5 DEF Carries
<1> HIDE DEF S, head, parts
<1>7. FlattenSeq(parts) = text
    <2>1. Len(parts) >= 1
        BY <1>5
    <2> HIDE DEF payload, tail
    <2>2. Len(parts) = 1 => FlattenSeq(parts) = parts[1]
        BY <1>5, <2>1, FirstPart
    <2> QED  BY <1>5, <2>2
<1>8. payload \in Seq(S) /\ payload = head \o FlattenSeq(parts) \o tail
    <2>1. payload \in Seq(S)
        BY <1>4, <1>5, ConcatProperties
    <2> QED  BY <1>7, <2>1, NothingBehind
<1> HIDE DEF tail
<1>9. (head \o FlattenSeq(parts) \o tail)[1] = head[1] /\ UnpackedAs(fields, head \o FlattenSeq(parts) \o tail, parts)
    BY <1>1, <1>4, <1>5, <1>6, UnpackFinds
<1> HIDE DEF payload
<1>10. payload[1] = id /\ UnpackedAs(fields, payload, parts)
    BY <1>4, <1>8, <1>9
<1>11. UnpackedFields(fields, payload) = [i \in 1..1 |-> text]
    <2>1. UnpackedFields(fields, payload) = [i \in 1..1 |-> UnpackedField(fields[i].format, parts[i])]
        BY <1>1, <1>10 DEF UnpackedAs
    <2>2. UnpackedField("s", text) = text
        BY DEF UnpackedField
    <2>3. \A i \in 1..1 : i = 1
        OBVIOUS
    <2> QED  BY <1>1, <1>5, <2>1, <2>2, <2>3
<1>12. Unpack(payload) = [class |-> c, fields |-> [i \in 1..1 |-> text]]
    BY <1>2, <1>10, <1>11 DEF Unpack, fields
<1> QED  BY <1>3, <1>10, <1>12 DEF id

-----------------------------------------------------------------------------
(* What the controller sends, and what decode makes of it                   *)

VersionOut == Ack("GetVersion") \o <<0, 1, 2>>

\* What a controller sends that has configurations out of confs.
ReadsOut(confs) == UNION {{Ack(Reader[kind]) \o c : c \in confs[kind]} : kind \in Kind}
OtherOut == {Ack(Writer[kind]) : kind \in Kind} \cup {TextOut, VersionOut}
From(confs) == ReadsOut(confs) \cup OtherOut

Sized(confs) == \A kind \in Kind : \A c \in confs[kind] : c \in Seq(Byte) /\ Len(c) = Size(kind)

LEMMA FromIs ==
    ASSUME NEW confs, NEW p \in From(confs)
    PROVE  \/ \E kind \in Kind : \E c \in confs[kind] : p = Ack(Reader[kind]) \o c
           \/ \E kind \in Kind : p = Ack(Writer[kind])
           \/ p = TextOut
           \/ p = VersionOut
<1>1. CASE p \in ReadsOut(confs)
    BY <1>1 DEF ReadsOut
<1>2. CASE p \in OtherOut
    BY <1>2 DEF OtherOut
<1> QED  BY <1>1, <1>2 DEF From

\* What there is to be said about a message: its class, and of one with a
\* string, that.
LEMMA ReadReply ==
    ASSUME NEW kind \in Kind, NEW c \in Seq(Byte)
    PROVE  LET m == Unpack(Ack(Reader[kind]) \o c)
           IN  /\ m.class = Reader[kind] /\ m.fields[1] = c
               /\ JoinField(m) = kind
               /\ \A name : Named(m, name) = IF name = kind THEN {1} ELSE {}
<1> DEFINE m == Unpack(Ack(Reader[kind]) \o c)
           fields == Class[Reader[kind]].recv
<1>1. Reader[kind] \in DOMAIN Class /\ "recv" \in DOMAIN Class[Reader[kind]] /\ fields = <<Field(kind, "s")>>
    BY ConfigClasses
<1>2. UnpackFields(Reader[kind]) = fields
    BY <1>1 DEF UnpackFields
<1>3. m = [class |-> Reader[kind], fields |-> [i \in 1..1 |-> c]]
    BY <1>1, <1>2, StringMessage
<1> HIDE DEF m
<1>4. m.class = Reader[kind] /\ m.fields[1] = c
    BY <1>3
<1> HIDE DEF fields
<1>5. /\ DOMAIN fields = 1..1 /\ fields[1].name = kind
      /\ StringField(fields) = {1}
    BY <1>1, OneStringField
<1>6. JoinField(m) = kind
    <2>1. JoinField(m) = fields[CHOOSE i \in {1} : TRUE].name
        BY <1>1, <1>4, <1>5 DEF JoinField, fields
    <2> QED  BY <1>5, <2>1
<1>7. ASSUME NEW name PROVE Named(m, name) = IF name = kind THEN {1} ELSE {}
    <2>1. Named(m, name) = {i \in 1..1 : fields[i].name = name}
        BY <1>2, <1>4, <1>5 DEF Named
    <2> QED  BY <1>5, <2>1
<1> QED  BY <1>4, <1>6, <1>7 DEF m

LEMMA WriteReply ==
    ASSUME NEW kind \in Kind
    PROVE  LET m == Unpack(Ack(Writer[kind]))
           IN  /\ m.class = Writer[kind] /\ m.fields[1] = << >>
               /\ JoinField(m) = None
               /\ \A name : Named(m, name) = IF name = kind THEN {1} ELSE {}
<1> DEFINE m == Unpack(Ack(Writer[kind]))
           fields == Class[Writer[kind]].send
           id == Class[Writer[kind]].id
<1>1. /\ Writer[kind] \in DOMAIN Class /\ "recv" \notin DOMAIN Class[Writer[kind]]
      /\ fields = <<Field(kind, "s")>>
    BY ConfigClasses
<1>2. UnpackFields(Writer[kind]) = fields
    BY <1>1 DEF UnpackFields
<1>3. Ack(Writer[kind]) = Ack(Writer[kind]) \o << >> /\ << >> \in Seq(Byte)
    <2>1. Ack(Writer[kind]) \in Seq({id})
        BY DEF Ack
    <2> QED  BY <2>1, NothingBehind
<1>4. m = [class |-> Writer[kind], fields |-> [i \in 1..1 |-> << >>]]
    <2> DEFINE e == << >>
    <2>1. e \in Seq(Byte)
        BY <1>3
    <2> HIDE DEF e
    <2>2. Unpack(Ack(Writer[kind]) \o e) = [class |-> Writer[kind], fields |-> [i \in 1..1 |-> e]]
        BY <1>1, <1>2, <2>1, StringMessage
    <2> QED  BY <1>3, <2>2 DEF e
<1> HIDE DEF m
<1>5. m.class = Writer[kind] /\ m.fields[1] = << >>
    BY <1>4
<1> HIDE DEF fields
<1>6. DOMAIN fields = 1..1 /\ fields[1].name = kind
    BY <1>1, OneStringField
<1>7. JoinField(m) = None
    <2>1. StringField(<< >>) = {}
        BY DEF StringField
    <2> QED  BY <1>1, <1>5, <2>1 DEF JoinField
<1>8. ASSUME NEW name PROVE Named(m, name) = IF name = kind THEN {1} ELSE {}
    <2>1. Named(m, name) = {i \in 1..1 : fields[i].name = name}
        BY <1>2, <1>5, <1>6 DEF Named
    <2> QED  BY <1>6, <2>1
<1> QED  BY <1>5, <1>7, <1>8 DEF m

LEMMA TextReply ==
    LET m == Unpack(TextOut)
    IN  /\ JoinField(m) \notin Kind
        /\ \A kind \in Kind : Named(m, kind) = {}
<1> DEFINE m == Unpack(TextOut)
           fields == Class["TerminalPrint"].recv
<1>1. "TerminalPrint" \in DOMAIN Class /\ "recv" \in DOMAIN Class["TerminalPrint"] /\ fields = <<Field("msg", "s")>>
    BY OtherClasses
<1>2. UnpackFields("TerminalPrint") = fields
    BY <1>1 DEF UnpackFields
<1>3. m.class = "TerminalPrint"
    <2>1. TextOut = Ack("TerminalPrint") \o Text /\ Text \in Seq(Byte)
        BY SessionAssumption DEF TextOut, Ack
    <2>2. Unpack(Ack("TerminalPrint") \o Text) = [class |-> "TerminalPrint", fields |-> [i \in 1..1 |-> Text]]
        BY <1>1, <1>2, <2>1, StringMessage
    <2> QED  BY <2>1, <2>2
<1> HIDE DEF m, fields
<1>4. DOMAIN fields = 1..1 /\ fields[1].name = "msg" /\ StringField(fields) = {1}
    BY <1>1, OneStringField
<1>5. JoinField(m) = "msg"
    <2>1. JoinField(m) = fields[CHOOSE i \in {1} : TRUE].name
        BY <1>1, <1>3, <1>4 DEF JoinField, fields
    <2> QED  BY <1>4, <2>1
<1>6. "msg" \notin Kind
    BY DEF Kind
<1>7. ASSUME NEW kind \in Kind PROVE Named(m, kind) = {}
    <2>1. Named(m, kind) = {i \in 1..1 : fields[i].name = kind}
        BY <1>2, <1>3, <1>4 DEF Named
    <2> QED  BY <1>4, <1>6, <2>1
<1> QED  BY <1>5, <1>6, <1>7 DEF m

LEMMA VersionReply ==
    LET m == Unpack(VersionOut)
    IN  /\ JoinField(m) = None
        /\ \A kind \in Kind : Named(m, kind) = {}
<1> DEFINE m == Unpack(VersionOut)
           fields == Class["GetVersion"].recv
           id == Class["GetVersion"].id
           S == Byte \cup {id, 0, 1, 2}
<1>1. /\ "GetVersion" \in DOMAIN Class /\ "recv" \in DOMAIN Class["GetVersion"]
      /\ fields = <<Field("fw_version_major", "b"), Field("fw_version_minor", "b")>>
    BY OtherClasses
<1>2. UnpackFields("GetVersion") = fields
    BY <1>1 DEF UnpackFields
<1>3. TypeOf(id) = "GetVersion"
    BY <1>1, ClassOfId
<1>4. VersionOut[1] = id
    <2>1. <<id>> \in Seq(S) /\ <<0, 1, 2>> \in Seq(S) /\ Len(<<id>>) = 1 /\ <<id>>[1] = id
        OBVIOUS
    <2> QED  BY <2>1 DEF VersionOut, Ack
<1>5. m.class = "GetVersion"
    BY <1>3, <1>4 DEF Unpack
<1> HIDE DEF m
<1>6. /\ DOMAIN fields = 1..2 /\ \A i \in 1..2 : fields[i].name \notin Kind
      /\ StringField(fields) = {}
    <2>1. /\ DOMAIN fields = 1..2 /\ fields[1] = Field("fw_version_major", "b")
          /\ fields[2] = Field("fw_version_minor", "b")
        BY <1>1
    <2> HIDE DEF fields
    <2>2. /\ fields[1].name = "fw_version_major" /\ fields[2].name = "fw_version_minor"
          /\ fields[1].format = "b" /\ fields[2].format = "b"
        BY <2>1 DEF Field
    <2>3. \A i \in 1..2 : i = 1 \/ i = 2
        OBVIOUS
    <2>4. \A i \in 1..2 : fields[i].name \notin Kind /\ fields[i].format # "s"
        BY <2>2, <2>3 DEF Kind
    <2> QED  BY <2>1, <2>4 DEF StringField, IsString
<1>7. JoinField(m) = None
    BY <1>1, <1>5, <1>6 DEF JoinField
<1>8. \A kind \in Kind : Named(m, kind) = {}
    BY <1>2, <1>5, <1>6 DEF Named
<1> QED  BY <1>7, <1>8 DEF m

-----------------------------------------------------------------------------

\* Bytes that begin with a configuration out of confs.
BeginsWith(bytes, kind, confs) ==
    /\ bytes \in Seq(Byte)
    /\ Len(bytes) >= Size(kind)
    /\ SubSeq(bytes, 1, Size(kind)) \in confs[kind]

\* Of what the controller sends, nothing but a read configuration comes first
\* in bytes that decode returns.
LEMMA DecodedBytes ==
    ASSUME NEW confs, Sized(confs), NEW payloads \in Seq(From(confs)), Decode(payloads).is = "bytes"
    PROVE  /\ payloads # << >>
           /\ \E kind \in Kind : BeginsWith(Decode(payloads).what, kind, confs)
<1> DEFINE bad == SelectInSeq(payloads, LAMBDA p : UnpackError(p) # None)
           messages == [i \in DOMAIN payloads |-> Unpack(payloads[i])]
           name == JoinField(messages[1])
           pieces == [i \in DOMAIN messages |-> Piece(messages[i], name)]
           n == Len(payloads)
<1>1. n \in Nat /\ DOMAIN payloads = 1..n /\ \A i \in 1..n : payloads[i] \in From(confs)
    OBVIOUS
<1>2. payloads # << >> => n >= 1
    OBVIOUS
<1>3. Decode(payloads) =
        CASE payloads = << >> -> [is |-> "None"]
          [] payloads # << >> /\ bad # 0 -> Raised(UnpackError(payloads[bad]))
          [] OTHER ->
             CASE name = None /\ n = 1 -> [is |-> "message", what |-> messages[1]]
               [] name = None /\ n > 1 -> Raised("ValueError")
               [] name # None /\ (\E i \in DOMAIN messages : Named(messages[i], name) = {}) ->
                      Raised("AttributeError")
               [] OTHER ->
                  [is |-> IF name \in {"mcconf", "appconf"} THEN "bytes" ELSE "text",
                   what |-> FlattenSeq(pieces)]
    BY DEF Decode
<1>4. \A error : Raised(error).is = "raised"
    BY DEF Raised
<1> HIDE DEF bad, messages, name, pieces, n
<1>5. payloads # << >>
    BY <1>3
<1>6. bad = 0
    BY <1>3, <1>4, <1>5
<1>7. ~(name = None)
    <2>1. CASE name = None /\ n = 1
        BY <1>3, <1>5, <1>6, <2>1
    <2>2. CASE name = None /\ n # 1
        <3>1. n > 1
            BY <1>1, <1>2, <1>5, <2>2
        <3> QED  BY <1>3, <1>4, <1>5, <1>6, <2>2, <3>1
    <2> QED  BY <2>1, <2>2
<1>8. \A i \in DOMAIN messages : Named(messages[i], name) # {}
    BY <1>3, <1>4, <1>5, <1>6, <1>7
<1>9. Decode(payloads) =
        [is |-> IF name \in {"mcconf", "appconf"} THEN "bytes" ELSE "text", what |-> FlattenSeq(pieces)]
    BY <1>3, <1>5, <1>6, <1>7, <1>8
<1>10. name \in Kind /\ Decode(payloads).what = FlattenSeq(pieces)
    BY <1>9 DEF Kind
<1>11. DOMAIN messages = 1..n /\ \A i \in 1..n : messages[i] = Unpack(payloads[i])
    BY <1>1 DEF messages
<1>12. 1 \in 1..n
    BY <1>1, <1>2, <1>5
\* Each message is a configuration that was read, or the acknowledgement of
\* one that was written.
<1>13. ASSUME NEW i \in 1..n
       PROVE  \/ \E c \in confs[name] : payloads[i] = Ack(Reader[name]) \o c
              \/ payloads[i] = Ack(Writer[name])
    <2>1. Named(Unpack(payloads[i]), name) # {}
        BY <1>8, <1>11
    <2>2. ASSUME NEW kind \in Kind, NEW c \in confs[kind], payloads[i] = Ack(Reader[kind]) \o c
          PROVE  kind = name
        <3>1. c \in Seq(Byte)
            BY DEF Sized
        <3> QED  BY <2>1, <2>2, <3>1, ReadReply
    <2>3. ASSUME NEW kind \in Kind, payloads[i] = Ack(Writer[kind]) PROVE kind = name
        BY <2>1, <2>3, WriteReply
    <2>4. payloads[i] # TextOut
        BY <1>10, <2>1, TextReply
    <2>5. payloads[i] # VersionOut
        BY <1>10, <2>1, VersionReply
    <2>6. payloads[i] \in From(confs)
        BY <1>1
    <2> QED  BY <2>2, <2>3, <2>4, <2>5, <2>6, FromIs
<1>14. PICK first \in confs[name] : payloads[1] = Ack(Reader[name]) \o first
    <2>1. payloads[1] # Ack(Writer[name])
        <3>1. JoinField(Unpack(payloads[1])) = name
            BY <1>11, <1>12 DEF name
        <3> QED  BY <1>7, <1>10, <3>1, WriteReply
    <2> QED  BY <1>12, <1>13, <2>1
<1>15. ASSUME NEW i \in 1..n, NEW c \in confs[name], payloads[i] = Ack(Reader[name]) \o c
       PROVE  Piece(messages[i], name) = c /\ c \in Seq(Byte)
    <2>1. c \in Seq(Byte)
        BY <1>10 DEF Sized
    <2>2. messages[i].fields[1] = c /\ Named(messages[i], name) = {1}
        <3>1. messages[i] = Unpack(Ack(Reader[name]) \o c)
            BY <1>11, <1>15
        <3>2. /\ Unpack(Ack(Reader[name]) \o c).fields[1] = c
              /\ Named(Unpack(Ack(Reader[name]) \o c), name) = {1}
            BY <1>10, <2>1, ReadReply
        <3> QED  BY <3>1, <3>2
    <2>3. (CHOOSE k \in {1} : TRUE) = 1
        OBVIOUS
    <2> QED  BY <1>10, <2>1, <2>2, <2>3 DEF Piece, Kind
<1>16. ASSUME NEW i \in 1..n, payloads[i] = Ack(Writer[name])
       PROVE  Piece(messages[i], name) = << >>
    <2>1. messages[i].fields[1] = << >> /\ Named(messages[i], name) = {1}
        BY <1>10, <1>11, <1>16, WriteReply
    <2>2. (CHOOSE k \in {1} : TRUE) = 1
        OBVIOUS
    <2> QED  BY <1>10, <2>1, <2>2 DEF Piece, Kind
<1>17. pieces = [i \in 1..n |-> Piece(messages[i], name)]
    BY <1>11 DEF pieces
<1>18. \A i \in 1..n : Piece(messages[i], name) \in Seq(Byte)
    <2>1. << >> \in Seq(Byte)
        OBVIOUS
    <2> QED  BY <1>13, <1>15, <1>16, <2>1
<1>19. pieces \in Seq(Seq(Byte)) /\ Len(pieces) = n /\ pieces[1] = first
    <2>1. pieces[1] = Piece(messages[1], name)
        BY <1>12, <1>17
    <2>2. Piece(messages[1], name) = first
        BY <1>12, <1>14, <1>15
    <2>3. pieces \in Seq(Seq(Byte)) /\ Len(pieces) = n
        BY <1>1, <1>17, <1>18
    <2> QED  BY <2>1, <2>2, <2>3
<1>20. Len(first) = Size(name)
    BY <1>10 DEF Sized
<1>21. /\ FlattenSeq(pieces) \in Seq(Byte)
       /\ Len(FlattenSeq(pieces)) >= Len(pieces[1])
       /\ SubSeq(FlattenSeq(pieces), 1, Len(pieces[1])) = pieces[1]
    <2>1. Len(pieces) >= 1
        BY <1>2, <1>5, <1>19
    <2> QED  BY <1>19, <2>1, FirstPart
<1>22. BeginsWith(FlattenSeq(pieces), name, confs)
    BY <1>19, <1>20, <1>21 DEF BeginsWith
<1> QED  BY <1>5, <1>10, <1>22

-----------------------------------------------------------------------------
(* Configurations, and what the user makes of them                          *)

Genuine(kind, c) ==
    /\ c \in Seq(Byte)
    /\ Len(c) = Size(kind)
    /\ \A other \in Kind : SubSeq(c, 1, 4) = Signature[other] => kind = other

Changed(kind, basis, edits) ==
    [i \in DOMAIN Layout[kind] |->
        IF i \in DOMAIN edits THEN edits[i] ELSE Read(Layout[kind][i], FieldBytes(kind, i, basis))]

\* What a user can have made of some parameters, each by an edit.
Chosen(kind, i, value) == \E e \in Edits : e.kind = kind /\ e.i = i /\ e.value = value
ChangesOf(kind) ==
    {<< >>} \cup {edits \in UNION {[places -> {e.value : e \in Edits}] : places \in SUBSET DOMAIN Layout[kind]} :
                    \A i \in DOMAIN edits : Chosen(kind, i, edits[i])}

LEMMA ChangesAre ==
    ASSUME NEW kind \in Kind, NEW edits \in ChangesOf(kind), NEW i \in DOMAIN edits
    PROVE  i \in DOMAIN Layout[kind] /\ Allowed(Layout[kind][i], edits[i])
<1>1. edits # << >>
    OBVIOUS
<1>2. Chosen(kind, i, edits[i])
    BY <1>1 DEF ChangesOf
<1>3. PICK e \in Edits : e.kind = kind /\ e.i = i /\ e.value = edits[i]
    BY <1>2 DEF Chosen
<1>4. e.i \in DOMAIN Layout[kind]
    BY <1>3, EditsAssumption
<1> DEFINE type == Layout[e.kind][e.i]
<1>5. /\ type = "Bool" => e.value \in BOOLEAN
      /\ type \in Integer \cup Rounded => e.value \in Int
      /\ type = "Double32_Auto" => e.value \in Floats
    <2>1. type = "Bool" => e.value \in BOOLEAN
        BY EditsAssumption DEF Integer, Rounded
    <2>2. type \in Integer \cup Rounded => e.value \in Int
        BY EditsAssumption DEF Integer, Rounded
    <2>3. type = "Double32_Auto" => e.value \in Floats
        BY EditsAssumption DEF Integer, Rounded
    <2> QED  BY <2>1, <2>2, <2>3
<1> HIDE DEF type
<1>6. Allowed(type, e.value)
    BY <1>5 DEF Allowed
<1> QED  BY <1>3, <1>4, <1>6 DEF type

\* Another edit, of a place that was changed before or not.
LEMMA OneMore ==
    ASSUME NEW e \in Edits, e.kind \in Kind, NEW old \in ChangesOf(e.kind)
    PROVE  [i \in DOMAIN old \cup {e.i} |-> IF i = e.i THEN e.value ELSE old[i]] \in ChangesOf(e.kind)
<1> DEFINE kind == e.kind
           places == DOMAIN old \cup {e.i}
           edits == [i \in places |-> IF i = e.i THEN e.value ELSE old[i]]
<1>1. ASSUME NEW i \in DOMAIN old PROVE Chosen(kind, i, old[i]) /\ i \in DOMAIN Layout[kind]
    <2>1. old # << >>
        OBVIOUS
    <2>2. Chosen(kind, i, old[i])
        BY <2>1 DEF ChangesOf
    <2> QED  BY <2>2, ChangesAre
<1>2. Chosen(kind, e.i, e.value) /\ e.i \in DOMAIN Layout[kind]
    BY EditsAssumption DEF Chosen
<1>3. places \in SUBSET DOMAIN Layout[kind]
    BY <1>1, <1>2
<1>4. \A i \in places : Chosen(kind, i, edits[i])
    BY <1>1, <1>2
<1>5. \A i \in places : edits[i] \in {d.value : d \in Edits}
    BY <1>4 DEF Chosen
<1>6. edits \in [places -> {d.value : d \in Edits}] /\ DOMAIN edits = places
    BY <1>5
<1> HIDE DEF edits, places
<1>7. edits \in UNION {[some -> {d.value : d \in Edits}] : some \in SUBSET DOMAIN Layout[kind]}
    BY <1>3, <1>6
<1> QED  BY <1>4, <1>6, <1>7 DEF ChangesOf, edits, places

LEMMA ChangedIs ==
    ASSUME NEW kind \in Kind, NEW basis \in Seq(Byte), Len(basis) = Size(kind),
           NEW edits \in ChangesOf(kind), NEW i \in DOMAIN Layout[kind]
    PROVE  /\ Layout[kind][i] \in Type
           /\ Allowed(Layout[kind][i], Changed(kind, basis, edits)[i])
           /\ i \notin DOMAIN edits =>
                 /\ Changed(kind, basis, edits)[i] = Read(Layout[kind][i], FieldBytes(kind, i, basis))
                 /\ Changed(kind, basis, edits)[i] \in ValueOf(Layout[kind][i])
           /\ i \in DOMAIN edits => Changed(kind, basis, edits)[i] = edits[i]
<1> DEFINE type == Layout[kind][i]
           b == FieldBytes(kind, i, basis)
           v == Changed(kind, basis, edits)[i]
<1>1. type \in Type /\ b \in Seq(Byte) /\ Len(b) = BytesOf(type)
    <2>1. Len(basis) >= Size(kind)
        BY SizeIs
    <2> QED  BY <2>1, FieldIs
<1>2. v = IF i \in DOMAIN edits THEN edits[i] ELSE Read(type, b)
    BY DEF Changed
<1> HIDE DEF type, b, v
<1>3. Read(type, b) \in ValueOf(type) /\ Allowed(type, Read(type, b))
    BY <1>1, ReadIsValue
<1>4. i \in DOMAIN edits => Allowed(type, edits[i])
    BY ChangesAre DEF type
<1> QED  BY <1>1, <1>2, <1>3, <1>4 DEF type, b, v

\* What comes back differs from what was read where the user changed it, and
\* nowhere else.
KeptBut(kind, basis, edits, new) ==
    \A i \in DOMAIN Layout[kind] :
       IF i \in DOMAIN edits
       THEN Says(Layout[kind][i], edits[i], FieldBytes(kind, i, new))
       ELSE SameMeaning(Layout[kind][i], FieldBytes(kind, i, basis), FieldBytes(kind, i, new))

LEMMA WrittenBack ==
    ASSUME NEW kind \in Kind, NEW basis \in Seq(Byte), Len(basis) = Size(kind),
           NEW edits \in ChangesOf(kind), AllSerialisable(kind, Changed(kind, basis, edits))
    PROVE  /\ Genuine(kind, Serialise(kind, Changed(kind, basis, edits)))
           /\ SubSeq(Serialise(kind, Changed(kind, basis, edits)), 1, 4) = Signature[kind]
           /\ KeptBut(kind, basis, edits, Serialise(kind, Changed(kind, basis, edits)))
<1> DEFINE params == Changed(kind, basis, edits)
           new == Serialise(kind, params)
<1>1. \A i \in DOMAIN Layout[kind] : Allowed(Layout[kind][i], params[i])
    BY ChangedIs
<1> HIDE DEF params
<1>2. SerialisedAs(kind, params, new)
    BY <1>1, SerialiseIs DEF params
<1> HIDE DEF new
<1>3. new \in Seq(Byte) /\ Len(new) = Size(kind) /\ SubSeq(new, 1, 4) = Signature[kind]
    BY <1>2 DEF SerialisedAs
<1>4. Genuine(kind, new)
    BY <1>3, SignatureIs DEF Genuine
<1>5. ASSUME NEW i \in DOMAIN Layout[kind]
      PROVE  IF i \in DOMAIN edits
             THEN Says(Layout[kind][i], edits[i], FieldBytes(kind, i, new))
             ELSE SameMeaning(Layout[kind][i], FieldBytes(kind, i, basis), FieldBytes(kind, i, new))
    <2> DEFINE type == Layout[kind][i]
               b == FieldBytes(kind, i, basis)
    <2>1. FieldBytes(kind, i, new) = Write(type, params[i])
        BY <1>2 DEF SerialisedAs
    <2>2. type \in Type /\ b \in Seq(Byte) /\ Len(b) = BytesOf(type)
        <3>1. Len(basis) >= Size(kind)
            BY SizeIs
        <3> QED  BY <3>1, FieldIs
    <2>3. Serialisable(type, params[i])
        BY DEF AllSerialisable, params
    <2>4. CASE i \in DOMAIN edits
        <3>1. params[i] = edits[i] /\ Allowed(type, edits[i])
            BY <2>4, ChangedIs, ChangesAre DEF params
        <3>2. Says(type, edits[i], Write(type, edits[i]))
            BY <2>2, <2>3, <3>1, SetIsWritten
        <3> QED  BY <2>1, <2>4, <3>1, <3>2
    <2>5. CASE i \notin DOMAIN edits
        <3>1. params[i] = Read(type, b)
            BY <2>5, ChangedIs DEF params
        <3>2. SameMeaning(type, b, Write(type, Read(type, b)))
            BY <2>2, UntouchedIsKept
        <3> QED  BY <2>1, <2>5, <3>1, <3>2
    <2> QED  BY <2>4, <2>5
<1> QED  BY <1>3, <1>4, <1>5 DEF KeptBut, new, params

-----------------------------------------------------------------------------
(* Requests                                                                 *)

\* A request that says nothing but what it is, for whatever controller.
LEMMA PlainRequest ==
    ASSUME NEW c \in DOMAIN Class, NEW to
    PROVE  TypeOf(Message(Pack(c, << >>, to))[1]) = c
<1> DEFINE e == << >>
           parts == [i \in DOMAIN e |-> PackedField(SendFields(c)[i].format, e[i])]
           f == FlattenSeq(parts)
           id == Class[c].id
           S == Byte \cup {id, to, ForwardCan}
           payload == Pack(c, << >>, to)
<1>1. TypeOf(id) = c /\ id # ForwardCan
    BY ClassOfId
<1>2. payload = Header(c, to) \o f
    BY DEF Pack
<1>3. f \in Seq(S)
    <2>1. parts \in Seq(Seq(S))
        BY DEF parts
    <2> QED  BY <2>1, PartsFlatten
<1>4. id \in S /\ to \in S /\ ForwardCan \in S
    OBVIOUS
<1> HIDE DEF f, S, payload
<1>5. <<id>> \in Seq(S) /\ Len(<<id>>) = 1 /\ <<id>>[1] = id
    BY <1>4
<1>6. (<<id>> \o f)[1] = id
    <2>1. Joins(<<id>> \o f, <<id>>, f)
        BY <1>3, <1>5, Joined
    <2> QED  BY <1>5, <2>1 DEF Joins
<1>7. CASE to = None
    <2>1. payload = <<id>> \o f
        BY <1>2, <1>7 DEF Header
    <2>2. Message(payload) = payload
        BY <1>1, <1>6, <2>1 DEF Message, Forwarded
    <2> QED  BY <1>1, <1>6, <2>1, <2>2 DEF payload
<1>8. CASE to # None
    <2> DEFINE h == <<ForwardCan, to, id>>
    <2>1. payload = h \o f
        BY <1>2, <1>8 DEF Header
    <2>2. h \in Seq(S) /\ Len(h) = 3 /\ h[1] = ForwardCan /\ h[2] = to /\ h[3] = id
        BY <1>4
    <2> HIDE DEF h
    <2>3. (h \o f)[1] = h[1] /\ Behind(h \o f, 2) = <<h[3]>> \o f
        BY <1>3, <2>2, BehindHeader
    <2>4. Message(payload) = <<id>> \o f
        BY <2>1, <2>2, <2>3 DEF Message, Forwarded
    <2> QED  BY <1>1, <1>6, <2>4 DEF payload
<1> QED  BY <1>7, <1>8

\* A request with text or a configuration: its message is itself, and what it
\* brings stands behind the first byte.
LEMMA HeldRequest ==
    ASSUME NEW c \in DOMAIN Class, NEW text \in Seq(Byte)
    PROVE  /\ Message(Ack(c) \o text) = Ack(c) \o text
           /\ TypeOf((Ack(c) \o text)[1]) = c
           /\ Behind(Ack(c) \o text, 1) = text
           /\ Len(text) >= 4 => SubSeq(Ack(c) \o text, 2, 5) = SubSeq(text, 1, 4)
<1> DEFINE id == Class[c].id
           S == Byte \cup {id}
           head == <<id>>
           p == head \o text
<1>1. TypeOf(id) = c /\ id # ForwardCan
    BY ClassOfId
<1>2. Ack(c) \o text = p
    BY DEF Ack
<1>3. head \in Seq(S) /\ Len(head) = 1 /\ head[1] = id
    OBVIOUS
<1>4. text \in Seq(S)
    <2>1. Byte \subseteq S
        OBVIOUS
    <2> HIDE DEF S
    <2> QED  BY <2>1, SeqInto
<1> HIDE DEF S, head, id
<1>5. p \in Seq(S) /\ Joins(p, head, text)
    BY <1>3, <1>4, Joined
<1> HIDE DEF p
<1>6. p[1] = id /\ Len(p) = 1 + Len(text) /\ Len(text) \in Nat
    BY <1>3, <1>5 DEF Joins
<1>7. \A k \in 1..Len(text) : p[1 + k] = text[k]
    BY <1>3, <1>5 DEF Joins
<1>8. Behind(p, 1) = text
    <2>1. \A k \in 1..Len(text) : text[k] = p[2 + k - 1]
        <3>1. \A k \in 1..Len(text) : 2 + k - 1 = 1 + k
            OBVIOUS
        <3> QED  BY <1>7, <3>1
    <2>2. 2 <= Len(p) + 1 /\ Len(text) = Len(p) - 2 + 1 /\ Len(p) \in Nat
        BY <1>6
    <2>3. SubSeq(p, 2, Len(p)) = text
        BY <1>4, <1>5, <2>1, <2>2, SameSlice
    <2> QED  BY <2>3 DEF Behind
<1>9. ASSUME Len(text) >= 4 PROVE SubSeq(p, 2, 5) = SubSeq(text, 1, 4)
    <2> DEFINE t == SubSeq(text, 1, 4)
    <2>1. t \in Seq(S) /\ Len(t) = 4 /\ \A k \in 1..4 : t[k] = text[1 + k - 1]
        <3>1. 1 <= 4 + 1 /\ 4 <= Len(text) /\ 4 - 1 + 1 = 4
            BY <1>9, <1>6
        <3> QED  BY <1>4, <3>1, Slice
    <2> HIDE DEF t
    <2>2. \A k \in 1..4 : t[k] = p[2 + k - 1]
        <3>1. ASSUME NEW k \in 1..4 PROVE t[k] = p[2 + k - 1]
            <4>1. k \in 1..Len(text) /\ 1 + k - 1 = k /\ 2 + k - 1 = 1 + k
                BY <1>6, <1>9
            <4> QED  BY <1>7, <2>1, <4>1
        <3> QED  BY <3>1
    <2>3. 5 <= Len(p) /\ 2 <= 5 + 1 /\ Len(t) = 5 - 2 + 1
        BY <1>6, <1>9, <2>1
    <2>4. SubSeq(p, 2, 5) = t
        BY <1>5, <2>1, <2>2, <2>3, SameSlice
    <2> QED  BY <2>4 DEF t
<1> QED  BY <1>1, <1>2, <1>6, <1>8, <1>9, <1>3, <1>5 DEF Message, Forwarded

\* What pack makes of one string; it has no form of it for another controller.
LEMMA PackedString ==
    ASSUME NEW c \in DOMAIN Class, NEW name, SendFields(c) = <<Field(name, "s")>>,
           NEW text \in Seq(Byte), NEW to, PackError(c, <<text>>, to) = None
    PROVE  Pack(c, <<text>>, to) = Ack(c) \o text
<1> DEFINE fields == SendFields(c)
           values == <<text>>
           parts == [i \in DOMAIN values |-> PackedField(fields[i].format, values[i])]
<1>1. fields[1].format = "s" /\ StringField(fields) = {1}
    BY OneStringField
<1>2. to = None
    <2>1. "UnboundLocalError" # None
        BY MessagesAssumption
    <2> QED  BY <1>1, <2>1 DEF PackError
<1>3. Header(c, to) = Ack(c)
    BY <1>2 DEF Header, Ack
<1>4. Pack(c, values, to) = Header(c, to) \o FlattenSeq(parts)
    BY DEF Pack
<1> HIDE DEF fields
<1>5. parts \in Seq(Seq(Byte)) /\ Len(parts) = 1 /\ parts[1] = text
    <2>1. DOMAIN values = 1..1 /\ values[1] = text
        OBVIOUS
    <2> HIDE DEF values
    <2>2. PackedField("s", text) = text
        BY DEF PackedField
    <2>3. \A i \in 1..1 : i = 1
        OBVIOUS
    <2>4. parts = [i \in 1..1 |-> text]
        BY <1>1, <2>1, <2>2, <2>3
    <2> QED  BY <2>4
<1> HIDE DEF parts
<1>6. FlattenSeq(parts) = text
    <2>1. Len(parts) >= 1
        BY <1>5
    <2>2. Len(parts) = 1 => FlattenSeq(parts) = parts[1]
        BY <1>5, <2>1, FirstPart
    <2> QED  BY <1>5, <2>2
<1> QED  BY <1>3, <1>4, <1>6

-----------------------------------------------------------------------------
(* The invariant of a session                                               *)

\* What the user can have loaded, out of the configurations in have.
LoadedOf(kind, have) ==
    {[params |-> Changed(kind, basis, edits), basis |-> basis, edits |-> edits] :
        basis \in have[kind], edits \in ChangesOf(kind)}

\* What can be on its way to the controller.
PlainOf(to) == {[payload |-> Pack(op, << >>, to)] : op \in {"GetMotorConfig", "GetAppConfig", "GetVersion"}}
TerminalOf == {[payload |-> Ack("TerminalCmd") \o Text]}
Setting(kind, l) ==
    [payload |-> Ack(Writer[kind]) \o Serialise(kind, l.params), basis |-> l.basis, edits |-> l.edits]
SettingsOf(kind, have) ==
    {Setting(kind, l) : l \in {k \in LoadedOf(kind, have) : AllSerialisable(kind, k.params)}}
RequestsOf(have, to) ==
    PlainOf(to) \cup TerminalOf \cup UNION {SettingsOf(kind, have) : kind \in Kind}

\* The configurations the controller goes by.
Now == [kind \in Kind |-> {conf[kind]}]

Counted ==
    /\ can_id \in CanIds
    /\ call \in Requests \cup {None}
    /\ calls \in 0..MaxCalls
    /\ late \in BOOLEAN

Controlled ==
    /\ conf = [kind \in Kind |-> conf[kind]]
    /\ was = [kind \in Kind |-> was[kind]]
    /\ \A kind \in Kind : conf[kind] \in was[kind] /\ \A c \in was[kind] : Genuine(kind, c)

Asked == inbox \in Seq(RequestsOf(was, can_id))

Answered == wire \in Seq(From(was)) /\ rx \in Seq(From(was))

Returned ==
    result.is = "bytes" => \E kind \in Kind : BeginsWith(result.what, kind, was)

Held ==
    /\ loaded = [kind \in Kind |-> loaded[kind]]
    /\ \A kind \in Kind : loaded[kind] \in {None} \cup LoadedOf(kind, was)

\* When nothing was left of earlier calls, this call's request stands between
\* old replies and new ones, and what has been read is what the controller has.
Waiting ==
    /\ wire \in Seq(From(Now)) /\ rx \in Seq(From(Now))
    /\ inbox = << >> \/ (Len(inbox) = 1 /\ wire = << >> /\ rx = << >>)
ReturnedNow ==
    inbox = << >> /\ \E kind \in Kind : BeginsWith(result.what, kind, Now)
Settled ==
    ~late =>
       /\ call # None => Waiting
       /\ call = None /\ result.is = "bytes" => ReturnedNow

SessionInv ==
    Counted /\ Controlled /\ Asked /\ Answered /\ Returned /\ Held /\ Settled

-----------------------------------------------------------------------------
(* More configurations                                                      *)

Grows(have, more) == \A kind \in Kind : have[kind] \subseteq more[kind]

LEMMA FromGrows ==
    ASSUME NEW have, NEW more, Grows(have, more)
    PROVE  From(have) \subseteq From(more)
<1>1. ReadsOut(have) \subseteq ReadsOut(more)
    <2>1. ASSUME NEW p \in ReadsOut(have) PROVE p \in ReadsOut(more)
        <3>1. PICK kind \in Kind : \E c \in have[kind] : p = Ack(Reader[kind]) \o c
            BY DEF ReadsOut
        <3>2. PICK c \in more[kind] : p = Ack(Reader[kind]) \o c
            BY <3>1 DEF Grows
        <3> QED  BY <3>2 DEF ReadsOut
    <2> QED  BY <2>1
<1> QED  BY <1>1 DEF From

LEMMA SettingsAre ==
    ASSUME NEW kind, NEW have, NEW r
    PROVE  r \in SettingsOf(kind, have) <=>
             \E basis \in have[kind], edits \in ChangesOf(kind) :
                /\ AllSerialisable(kind, Changed(kind, basis, edits))
                /\ r = [payload |-> Ack(Writer[kind]) \o Serialise(kind, Changed(kind, basis, edits)),
                        basis |-> basis, edits |-> edits]
<1>1. ASSUME r \in SettingsOf(kind, have)
      PROVE  \E basis \in have[kind], edits \in ChangesOf(kind) :
                /\ AllSerialisable(kind, Changed(kind, basis, edits))
                /\ r = [payload |-> Ack(Writer[kind]) \o Serialise(kind, Changed(kind, basis, edits)),
                        basis |-> basis, edits |-> edits]
    <2>1. PICK l \in LoadedOf(kind, have) : AllSerialisable(kind, l.params) /\ r = Setting(kind, l)
        BY <1>1 DEF SettingsOf
    <2>2. PICK basis \in have[kind], edits \in ChangesOf(kind) :
             l = [params |-> Changed(kind, basis, edits), basis |-> basis, edits |-> edits]
        BY DEF LoadedOf
    <2>3. l.params = Changed(kind, basis, edits) /\ l.basis = basis /\ l.edits = edits
        BY <2>2
    <2> QED  BY <2>1, <2>3 DEF Setting
<1>2. ASSUME NEW basis \in have[kind], NEW edits \in ChangesOf(kind),
             AllSerialisable(kind, Changed(kind, basis, edits)),
             r = [payload |-> Ack(Writer[kind]) \o Serialise(kind, Changed(kind, basis, edits)),
                  basis |-> basis, edits |-> edits]
      PROVE  r \in SettingsOf(kind, have)
    <2> DEFINE l == [params |-> Changed(kind, basis, edits), basis |-> basis, edits |-> edits]
    <2>1. l \in LoadedOf(kind, have)
        BY DEF LoadedOf
    <2>2. l.params = Changed(kind, basis, edits) /\ l.basis = basis /\ l.edits = edits
        OBVIOUS
    <2> HIDE DEF l
    <2>3. r = Setting(kind, l)
        BY <1>2, <2>2 DEF Setting
    <2>4. l \in {k \in LoadedOf(kind, have) : AllSerialisable(kind, k.params)}
        BY <1>2, <2>1, <2>2
    <2> QED  BY <2>3, <2>4 DEF SettingsOf
<1> QED  BY <1>1, <1>2

LEMMA RequestsGrow ==
    ASSUME NEW have, NEW more, Grows(have, more), NEW to
    PROVE  RequestsOf(have, to) \subseteq RequestsOf(more, to)
<1>1. ASSUME NEW kind \in Kind PROVE SettingsOf(kind, have) \subseteq SettingsOf(kind, more)
    <2>1. ASSUME NEW r \in SettingsOf(kind, have) PROVE r \in SettingsOf(kind, more)
        <3>1. have[kind] \subseteq more[kind]
            BY DEF Grows
        <3> QED  BY <3>1, SettingsAre
    <2> QED  BY <2>1
<1>2. UNION {SettingsOf(kind, have) : kind \in Kind} \subseteq UNION {SettingsOf(kind, more) : kind \in Kind}
    BY <1>1
<1> QED  BY <1>2 DEF RequestsOf

LEMMA LoadedGrows ==
    ASSUME NEW have, NEW more, Grows(have, more), NEW kind \in Kind
    PROVE  LoadedOf(kind, have) \subseteq LoadedOf(kind, more)
BY DEF LoadedOf, Grows

LEMMA BehindIs ==
    ASSUME NEW S, NEW q \in Seq(S), NEW n \in 0..Len(q)
    PROVE  Behind(q, n) \in Seq(S) /\ (n = Len(q) => Behind(q, n) = << >>)
<1> DEFINE t == SubSeq(q, n + 1, Len(q))
<1>1. n + 1 \in Nat \ {0} /\ Len(q) \in Nat /\ n + 1 <= Len(q) + 1 /\ Len(q) <= Len(q)
    OBVIOUS
<1>2. t \in Seq(S) /\ Len(t) = Len(q) - (n + 1) + 1
    BY <1>1, Slice
<1> HIDE DEF t
<1>3. n = Len(q) => Len(t) = 0
    BY <1>1, <1>2
<1>4. n = Len(q) => t = << >>
    BY <1>2, <1>3
<1> QED  BY <1>2, <1>4 DEF Behind, t

-----------------------------------------------------------------------------
(* The controller handles a request                                         *)

\* A request other than Set*: it stores nothing, and answers with what the
\* controller has.
AsksOnly(r) ==
    /\ ~Stores(r)
    /\ \A replies \in Replies(r) : replies \in Seq(From(Now))

\* Set*: the edits in what was read, and nothing but an acknowledgement.
Rewrites(r, kind) ==
    /\ Stores(r)
    /\ Writes[TypeOf(Message(r.payload)[1])] = kind
    /\ Genuine(kind, Behind(Message(r.payload), 1))
    /\ r.basis \in was[kind]
    /\ KeptBut(kind, r.basis, r.edits, Behind(Message(r.payload), 1))
    /\ \A replies \in Replies(r) : replies \in Seq(OtherOut)

\* The answer and what is left of it.
AnswersOf(whole) == {whole, Behind(whole, 1)}

LEMMA WholeOrNot ==
    ASSUME NEW S, NEW whole \in Seq(S), Len(whole) >= 1, NEW replies \in AnswersOf(whole)
    PROVE  replies \in Seq(S)
<1>1. 1 \in 0..Len(whole)
    OBVIOUS
<1>2. Behind(whole, 1) \in Seq(S)
    BY <1>1, BehindIs
<1> QED  BY <1>2 DEF AnswersOf

LEMMA RepliesToRead ==
    ASSUME NEW r, NEW op \in DOMAIN Reads, TypeOf(Message(r.payload)[1]) = op
    PROVE  Replies(r) = AnswersOf(<<Ack(op) \o conf[Reads[op]]>>)
<1>1. op \notin DOMAIN Writes /\ op # "TerminalCmd" /\ op # "GetVersion"
    BY DEF Reads, Writes
<1> DEFINE D == DOMAIN Reads
           W == DOMAIN Writes
<1>2. op \in D /\ op \notin W
    BY <1>1
<1> HIDE DEF D, W
<1> DEFINE a == <<Ack(op) \o conf[Reads[op]]>>
           b == <<IF Stores(r) THEN Ack(op) ELSE TextOut>>
           c == <<TextOut, TextOut>>
           d == <<Ack(op) \o <<0, 1, 2>>>>
           whole == CASE op \in D -> a [] op \in W -> b [] op = "TerminalCmd" -> c [] op = "GetVersion" -> d
<1>3. Replies(r) = {whole, Behind(whole, 1)}
    BY DEF Replies, D, W
<1> HIDE DEF a, b, c, d
<1>4. whole = a
    BY <1>1, <1>2
<1> HIDE DEF whole
<1> QED  BY <1>3, <1>4 DEF AnswersOf, a

LEMMA RepliesToWrite ==
    ASSUME NEW r, NEW op \in DOMAIN Writes, TypeOf(Message(r.payload)[1]) = op
    PROVE  Replies(r) = AnswersOf(<<IF Stores(r) THEN Ack(op) ELSE TextOut>>)
<1>1. op \notin DOMAIN Reads /\ op # "TerminalCmd" /\ op # "GetVersion"
    BY DEF Reads, Writes
<1> DEFINE D == DOMAIN Reads
           W == DOMAIN Writes
<1>2. op \notin D /\ op \in W
    BY <1>1
<1> HIDE DEF D, W
<1> DEFINE a == <<Ack(op) \o conf[Reads[op]]>>
           b == <<IF Stores(r) THEN Ack(op) ELSE TextOut>>
           c == <<TextOut, TextOut>>
           d == <<Ack(op) \o <<0, 1, 2>>>>
           whole == CASE op \in D -> a [] op \in W -> b [] op = "TerminalCmd" -> c [] op = "GetVersion" -> d
<1>3. Replies(r) = {whole, Behind(whole, 1)}
    BY DEF Replies, D, W
<1> HIDE DEF a, b, c, d
<1>4. whole = b
    BY <1>1, <1>2
<1> HIDE DEF whole
<1> QED  BY <1>3, <1>4 DEF AnswersOf, b

LEMMA PlainHandled ==
    ASSUME NEW r \in PlainOf(can_id)
    PROVE  AsksOnly(r)
<1>1. PICK op \in {"GetMotorConfig", "GetAppConfig", "GetVersion"} : r = [payload |-> Pack(op, << >>, can_id)]
    BY DEF PlainOf
<1>2. op \in DOMAIN Class
    BY ConfigClasses, OtherClasses DEF Kind, Reader
<1>3. TypeOf(Message(r.payload)[1]) = op
    BY <1>1, <1>2, PlainRequest
<1>4. op \notin DOMAIN Writes
    BY DEF Writes
<1>5. ~Stores(r)
    BY <1>3, <1>4 DEF Stores
<1>6. CASE op = "GetVersion"
    <2> DEFINE whole == <<VersionOut>>
    <2>1. Replies(r) = AnswersOf(whole)
        BY <1>3, <1>6 DEF AnswersOf, Replies, Reads, Writes, VersionOut
    <2>2. VersionOut \in From(Now)
        BY DEF From, OtherOut
    <2>3. whole \in Seq(From(Now)) /\ Len(whole) >= 1
        BY <2>2
    <2> HIDE DEF whole
    <2> QED  BY <1>5, <2>1, <2>3, WholeOrNot DEF AsksOnly
<1>7. CASE op \in {"GetMotorConfig", "GetAppConfig"}
    <2> DEFINE kind == Reads[op]
               whole == <<Ack(op) \o conf[kind]>>
    <2>1. kind \in Kind /\ Reader[kind] = op
        BY <1>7 DEF Reads, Reader, Kind
    <2>2. Replies(r) = AnswersOf(whole)
        <3>1. op \in DOMAIN Reads
            BY <1>7 DEF Reads
        <3> QED  BY <1>3, <3>1, RepliesToRead
    <2>3. Ack(op) \o conf[kind] \in From(Now)
        <3>1. conf[kind] \in Now[kind]
            BY <2>1 DEF Now
        <3> DEFINE p == Ack(Reader[kind]) \o conf[kind]
        <3>2. p \in {Ack(Reader[kind]) \o c : c \in Now[kind]}
            BY <3>1
        <3> HIDE DEF p
        <3>3. p \in ReadsOut(Now)
            BY <2>1, <3>2 DEF ReadsOut
        <3> QED  BY <2>1, <3>3 DEF From, p
    <2>4. whole \in Seq(From(Now)) /\ Len(whole) >= 1
        BY <2>3
    <2> HIDE DEF whole
    <2> QED  BY <1>5, <2>2, <2>4, WholeOrNot DEF AsksOnly
<1> QED  BY <1>6, <1>7

LEMMA TerminalHandled ==
    ASSUME NEW r \in TerminalOf
    PROVE  AsksOnly(r)
<1> DEFINE op == "TerminalCmd"
           whole == <<TextOut, TextOut>>
<1>1. r.payload = Ack(op) \o Text /\ Text \in Seq(Byte) /\ op \in DOMAIN Class
    BY SessionAssumption, OtherClasses DEF TerminalOf
<1>2. TypeOf(Message(r.payload)[1]) = op
    BY <1>1, HeldRequest
<1>3. ~Stores(r)
    BY <1>2 DEF Stores, Writes
<1>4. Replies(r) = AnswersOf(whole)
    BY <1>2 DEF AnswersOf, Replies, Reads, Writes
<1>5. TextOut \in From(Now)
    BY DEF From, OtherOut
<1>6. whole \in Seq(From(Now)) /\ Len(whole) >= 1
    BY <1>5
<1> HIDE DEF whole
<1> QED  BY <1>3, <1>4, <1>6, WholeOrNot DEF AsksOnly

LEMMA SettingHandled ==
    ASSUME Controlled, NEW kind \in Kind, NEW r \in SettingsOf(kind, was)
    PROVE  Rewrites(r, kind)
<1>1. PICK basis \in was[kind], edits \in ChangesOf(kind) :
         /\ AllSerialisable(kind, Changed(kind, basis, edits))
         /\ r = [payload |-> Ack(Writer[kind]) \o Serialise(kind, Changed(kind, basis, edits)),
                 basis |-> basis, edits |-> edits]
    BY SettingsAre
<1> DEFINE op == Writer[kind]
           new == Serialise(kind, Changed(kind, basis, edits))
           whole == <<Ack(op)>>
<1>2. r.payload = Ack(op) \o new /\ r.basis = basis /\ r.edits = edits
    BY <1>1
<1>3. basis \in Seq(Byte) /\ Len(basis) = Size(kind)
    BY DEF Controlled, Genuine
<1>4. Genuine(kind, new) /\ SubSeq(new, 1, 4) = Signature[kind] /\ KeptBut(kind, basis, edits, new)
    BY <1>1, <1>3, WrittenBack
<1> HIDE DEF new
<1>5. new \in Seq(Byte) /\ Len(new) >= 4
    BY <1>4, SizeIs DEF Genuine
<1>6. op \in DOMAIN Class
    BY ConfigClasses
<1>7. /\ Message(r.payload) = Ack(op) \o new
      /\ TypeOf(Message(r.payload)[1]) = op
      /\ Behind(Message(r.payload), 1) = new
      /\ SubSeq(Message(r.payload), 2, 5) = Signature[kind]
    BY <1>2, <1>4, <1>5, <1>6, HeldRequest
<1>8. op \in DOMAIN Writes /\ Writes[op] = kind /\ op \notin DOMAIN Reads
    BY DEF Writes, Writer, Reads, Kind
<1> HIDE DEF op
<1>9. Stores(r)
    BY <1>7, <1>8 DEF Stores
<1>10. Replies(r) = AnswersOf(whole)
    BY <1>7, <1>8, <1>9, RepliesToWrite
<1>11. whole \in Seq(OtherOut) /\ Len(whole) >= 1
    BY DEF OtherOut, op
<1> HIDE DEF whole
<1>12. \A replies \in Replies(r) : replies \in Seq(OtherOut)
    BY <1>10, <1>11, WholeOrNot
<1> QED  BY <1>2, <1>4, <1>7, <1>8, <1>9, <1>12 DEF Rewrites

LEMMA RequestHandled ==
    ASSUME Controlled, NEW r \in RequestsOf(was, can_id)
    PROVE  AsksOnly(r) \/ \E kind \in Kind : Rewrites(r, kind)
<1>1. CASE r \in PlainOf(can_id)
    BY <1>1, PlainHandled
<1>2. CASE r \in TerminalOf
    BY <1>2, TerminalHandled
<1>3. CASE r \in UNION {SettingsOf(kind, was) : kind \in Kind}
    BY <1>3, SettingHandled
<1> QED  BY <1>1, <1>2, <1>3 DEF RequestsOf

-----------------------------------------------------------------------------
(* The steps of a session                                                   *)

LEMMA ControlledIs ==
    ASSUME Controlled
    PROVE  Sized(was) /\ Sized(Now) /\ Grows(Now, was)
<1>1. Sized(was)
    BY DEF Controlled, Sized, Genuine
<1>2. Grows(Now, was)
    BY DEF Controlled, Grows, Now
<1>3. Sized(Now)
    BY <1>1, <1>2 DEF Sized, Grows
<1> QED  BY <1>1, <1>2, <1>3

\* The link and the call are all that a step changes.
SameController == UNCHANGED <<can_id, confVars>>

LEMMA StillControlled ==
    ASSUME Controlled, SameController
    PROVE  Controlled'
BY DEF Controlled, SameController, confVars

LEMMA StillHeld ==
    ASSUME Held, SameController, UNCHANGED loaded
    PROVE  Held'
BY DEF Held, SameController, confVars

LEMMA StillReturned ==
    ASSUME Returned, SameController, UNCHANGED result
    PROVE  Returned'
BY DEF Returned, SameController, confVars

LEMMA RefusedStep ==
    ASSUME SessionInv, Idle, NEW error, Refused(error)
    PROVE  SessionInv'
<1>1. /\ UNCHANGED <<can_id, inbox, wire, call, rx, late, calls, loaded, conf, was>>
      /\ result'.is = "raised" /\ call = None
    BY DEF Refused, Raised, linkVars, userVars, confVars, Idle
<1>2. SameController
    BY <1>1 DEF SameController, confVars
<1>3. Counted'
    BY <1>1 DEF SessionInv, Counted
<1>4. Asked' /\ Answered'
    BY <1>1 DEF SessionInv, Asked, Answered
<1>5. Returned' /\ Settled'
    BY <1>1 DEF Returned, Settled
<1> QED  BY <1>1, <1>2, <1>3, <1>4, <1>5, StillControlled, StillHeld DEF SessionInv

LEMMA ExchangeStep ==
    ASSUME SessionInv, Idle, NEW op \in Requests, NEW request \in RequestsOf(was, can_id),
           Exchange(op, request)
    PROVE  SessionInv'
<1>1. PICK n \in 0..Len(wire) :
         wire' = Behind(wire, n) /\ late' = (inbox # << >> \/ n < Len(wire))
    BY DEF Exchange, Drained
<1>2. /\ UNCHANGED <<can_id, result, loaded, conf, was>>
      /\ inbox' \in {Append(inbox, request), inbox}
      /\ call' = op /\ rx' = << >> /\ calls' = calls + 1 /\ calls < MaxCalls
    BY DEF Exchange, userVars, confVars
<1>3. SameController
    BY <1>2 DEF SameController, confVars
<1>4. Counted'
    BY <1>1, <1>2, SessionAssumption DEF SessionInv, Counted
<1>5. Asked'
    <2> DEFINE S == RequestsOf(was, can_id)
    <2>1. inbox \in Seq(S) /\ request \in S
        BY DEF SessionInv, Asked
    <2>2. S' = S
        BY <1>2
    <2> HIDE DEF S
    <2>3. inbox' \in Seq(S)
        BY <1>2, <2>1
    <2> QED  BY <2>2, <2>3 DEF Asked, S
<1>6. Answered'
    <2>1. wire' \in Seq(From(was))
        BY <1>1, BehindIs DEF SessionInv, Answered
    <2> QED  BY <1>2, <2>1 DEF Answered
<1>7. Settled'
    <2>1. call' # None
        BY <1>2, RequestsAssumption
    <2>2. ASSUME ~late' PROVE Waiting'
        <3>1. inbox = << >> /\ n = Len(wire)
            <4>1. Len(wire) \in Nat
                BY DEF SessionInv, Answered
            <4>2. ~(inbox # << >>) /\ ~(n < Len(wire))
                BY <1>1, <2>2
            <4> QED  BY <1>1, <4>1, <4>2
        <3>2. wire' = << >>
            BY <1>1, <3>1, BehindIs DEF SessionInv, Answered
        <3>3. inbox' = << >> \/ Len(inbox') = 1
            BY <1>2, <3>1
        <3> QED  BY <1>2, <3>2, <3>3 DEF Waiting
    <2> QED  BY <2>1, <2>2 DEF Settled
<1> QED  BY <1>2, <1>3, <1>4, <1>5, <1>6, <1>7, StillControlled, StillHeld, StillReturned DEF SessionInv

LEMMA GetStep ==
    ASSUME SessionInv, NEW op, Get(op)
    PROVE  SessionInv'
<1>1. /\ Idle /\ op \in {"GetMotorConfig", "GetAppConfig", "GetVersion"}
      /\ Exchange(op, [payload |-> Pack(op, << >>, can_id)])
    BY DEF Get, Reads
<1> DEFINE request == [payload |-> Pack(op, << >>, can_id)]
<1>2. request \in RequestsOf(was, can_id)
    BY <1>1 DEF RequestsOf, PlainOf
<1>3. op \in Requests
    BY <1>1 DEF Requests, Reads
<1> HIDE DEF request
<1> QED  BY <1>1, <1>2, <1>3, ExchangeStep DEF request

LEMMA TerminalStep ==
    ASSUME SessionInv, Terminal
    PROVE  SessionInv'
<1> DEFINE op == "TerminalCmd"
           error == PackError(op, <<Text>>, can_id)
           request == [payload |-> Pack(op, <<Text>>, can_id)]
<1>1. Idle /\ IF error # None THEN Refused(error) ELSE Exchange(op, request)
    BY DEF Terminal
<1>2. CASE error # None
    <2> HIDE DEF error
    <2> QED  BY <1>1, <1>2, RefusedStep
<1>3. CASE error = None
    <2>1. op \in DOMAIN Class /\ SendFields(op) = <<Field("cmd", "s")>> /\ Text \in Seq(Byte)
        BY OtherClasses, SessionAssumption DEF SendFields
    <2>2. Pack(op, <<Text>>, can_id) = Ack(op) \o Text
        BY <1>3, <2>1, PackedString
    <2>3. request \in RequestsOf(was, can_id)
        BY <2>2 DEF RequestsOf, TerminalOf
    <2>4. op \in Requests
        BY DEF Requests
    <2> HIDE DEF request
    <2> QED  BY <1>1, <1>3, <2>3, <2>4, ExchangeStep
<1> QED  BY <1>2, <1>3

LEMMA SetStep ==
    ASSUME SessionInv, NEW op, Set(op)
    PROVE  SessionInv'
<1> DEFINE kind == Writes[op]
           l == loaded[kind]
           new == Serialise(kind, l.params)
           error == IF AllSerialisable(kind, l.params) THEN PackError(op, <<new>>, can_id) ELSE "ValueError"
           request == [payload |-> Pack(op, <<new>>, can_id), basis |-> l.basis, edits |-> l.edits]
<1>1. /\ Idle /\ op \in DOMAIN Writes /\ l # None
      /\ IF error # None THEN Refused(error) ELSE Exchange(op, request)
    BY DEF Set
<1>2. CASE error # None
    <2> HIDE DEF error
    <2> QED  BY <1>1, <1>2, RefusedStep
<1>3. CASE error = None
    <2>1. kind \in Kind /\ op = Writer[kind] /\ op \in Requests
        BY <1>1 DEF Writes, Writer, Kind, Requests
    <2>2. AllSerialisable(kind, l.params) /\ PackError(op, <<new>>, can_id) = None
        <3>1. "ValueError" # None
            BY MessagesAssumption
        <3> QED  BY <1>3, <3>1
    <2>3. l \in LoadedOf(kind, was)
        BY <1>1, <2>1 DEF SessionInv, Held
    <2>4. PICK basis \in was[kind], edits \in ChangesOf(kind) :
             l = [params |-> Changed(kind, basis, edits), basis |-> basis, edits |-> edits]
        BY <2>3 DEF LoadedOf
    <2>5. l.params = Changed(kind, basis, edits) /\ l.basis = basis /\ l.edits = edits
        BY <2>4
    <2>6. basis \in Seq(Byte) /\ Len(basis) = Size(kind)
        BY <2>1 DEF SessionInv, Controlled, Genuine
    <2>7. new \in Seq(Byte)
        BY <2>1, <2>2, <2>5, <2>6, WrittenBack DEF Genuine
    <2>8. op \in DOMAIN Class /\ SendFields(op) = <<Field(kind, "s")>>
        BY <2>1, ConfigClasses DEF SendFields
    <2>9. Pack(op, <<new>>, can_id) = Ack(op) \o new
        <3> HIDE DEF new, kind
        <3> QED  BY <2>2, <2>7, <2>8, PackedString
    <2>10. request = [payload |-> Ack(Writer[kind]) \o Serialise(kind, Changed(kind, basis, edits)),
                      basis |-> basis, edits |-> edits]
        BY <2>1, <2>5, <2>9
    <2> HIDE DEF request
    <2>11. request \in SettingsOf(kind, was)
        BY <2>2, <2>5, <2>10, SettingsAre
    <2>12. request \in RequestsOf(was, can_id)
        BY <2>1, <2>11 DEF RequestsOf
    <2> QED  BY <1>1, <1>3, <2>1, <2>12, ExchangeStep
<1> QED  BY <1>2, <1>3

LEMMA CollectStep ==
    ASSUME SessionInv, Collect
    PROVE  SessionInv'
<1>1. /\ call # None /\ wire # << >> /\ rx' = Append(rx, Head(wire)) /\ wire' = Tail(wire)
      /\ UNCHANGED <<can_id, inbox, call, late, calls, result, loaded, conf, was>>
    BY DEF Collect, userVars, confVars
<1>2. SameController
    BY <1>1 DEF SameController, confVars
<1>3. Counted' /\ Asked'
    BY <1>1 DEF SessionInv, Counted, Asked
<1>4. ASSUME NEW S, wire \in Seq(S), rx \in Seq(S) PROVE wire' \in Seq(S) /\ rx' \in Seq(S)
    BY <1>1, <1>4
<1>5. Answered'
    <2> DEFINE S == From(was)
    <2>1. wire \in Seq(S) /\ rx \in Seq(S)
        BY DEF SessionInv, Answered
    <2>2. was' = was
        BY <1>1
    <2> HIDE DEF S
    <2>3. wire' \in Seq(S) /\ rx' \in Seq(S)
        BY <1>4, <2>1
    <2> QED  BY <2>2, <2>3 DEF Answered, S
<1>6. Settled'
    <2>1. ASSUME ~late PROVE Waiting'
        <3> DEFINE S == From(Now)
        <3>1. wire \in Seq(S) /\ rx \in Seq(S) /\ inbox = << >>
            BY <1>1, <2>1 DEF SessionInv, Settled, Waiting
        <3>2. S' = S
            BY <1>1 DEF Now
        <3> HIDE DEF S
        <3>3. wire' \in Seq(S) /\ rx' \in Seq(S) /\ inbox' = << >>
            BY <1>1, <1>4, <3>1
        <3> QED  BY <3>2, <3>3 DEF Waiting, S
    <2> QED  BY <1>1, <2>1 DEF Settled
<1> QED  BY <1>1, <1>2, <1>3, <1>5, <1>6, StillControlled, StillHeld, StillReturned DEF SessionInv

\* Bytes that a call returns were read in it.
LEMMA AnswerIs ==
    ASSUME NEW op, Answer(op).is = "bytes"
    PROVE  Answer(op) = Decode(rx)
BY DEF Answer

LEMMA EndReadStep ==
    ASSUME SessionInv, EndRead
    PROVE  SessionInv'
<1>1. PICK n \in 0..Len(wire) : wire' = Behind(wire, n)
    BY DEF EndRead
<1>2. /\ call # None /\ call' = None /\ rx' = << >> /\ result' = Answer(call)
      /\ UNCHANGED <<can_id, inbox, late, calls, loaded, conf, was>>
    BY DEF EndRead, userVars, confVars
<1>3. SameController
    BY <1>2 DEF SameController, confVars
<1>4. Counted' /\ Asked'
    BY <1>2 DEF SessionInv, Counted, Asked
<1>5. Answered'
    <2>1. wire' \in Seq(From(was))
        BY <1>1, BehindIs DEF SessionInv, Answered
    <2> QED  BY <1>2, <2>1 DEF Answered
<1>6. ASSUME NEW confs, Sized(confs), rx \in Seq(From(confs)), result'.is = "bytes"
      PROVE  rx # << >> /\ \E kind \in Kind : BeginsWith(result'.what, kind, confs)
    <2>1. result' = Decode(rx)
        BY <1>2, <1>6, AnswerIs
    <2> QED  BY <1>6, <2>1, DecodedBytes
<1>7. Returned'
    <2>1. Sized(was) /\ rx \in Seq(From(was))
        BY ControlledIs DEF SessionInv, Answered
    <2>2. result'.is = "bytes" => \E kind \in Kind : BeginsWith(result'.what, kind, was)
        BY <1>6, <2>1
    <2> QED  BY <1>2, <2>2 DEF Returned
<1>8. Settled'
    <2>1. ASSUME ~late, result'.is = "bytes" PROVE ReturnedNow'
        <3>1. Sized(Now) /\ Waiting
            BY <1>2, <2>1, ControlledIs DEF SessionInv, Settled
        <3>2. rx # << >> /\ \E kind \in Kind : BeginsWith(result'.what, kind, Now)
            BY <1>6, <2>1, <3>1 DEF Waiting
        <3>3. inbox = << >>
            BY <3>1, <3>2 DEF Waiting
        <3>4. Now' = Now
            BY <1>2 DEF Now
        <3> QED  BY <1>2, <3>2, <3>3, <3>4 DEF ReturnedNow
    <2> QED  BY <1>2, <2>1 DEF Settled
<1> QED  BY <1>2, <1>3, <1>4, <1>5, <1>7, <1>8, StillControlled, StillHeld DEF SessionInv

-----------------------------------------------------------------------------

\* The user's parameters are those of one configuration, and of that kind.
LEMMA LoadIs ==
    ASSUME NEW kind \in Kind, NEW bytes, Deserialises(kind, bytes), NEW confs,
           \A k \in Kind : \A c \in confs[k] : Genuine(k, c),
           NEW k \in Kind, BeginsWith(bytes, k, confs)
    PROVE  /\ SubSeq(bytes, 1, Size(kind)) \in confs[kind]
           /\ Deserialise(kind, bytes) = Changed(kind, SubSeq(bytes, 1, Size(kind)), << >>)
<1> DEFINE basis == SubSeq(bytes, 1, Size(k))
<1>1. bytes \in Seq(Byte) /\ Len(bytes) >= Size(k) /\ basis \in confs[k]
    BY DEF BeginsWith
<1>2. Genuine(k, basis)
    BY <1>1
<1>3. Size(k) \in Nat /\ 4 <= Size(k)
    BY SizeIs
<1>4. SubSeq(basis, 1, 4) = SubSeq(bytes, 1, 4)
    <2> HIDE DEF basis
    <2> DEFINE t == SubSeq(bytes, 1, 4)
               z == Size(k)
    <2>1. t \in Seq(Byte) /\ Len(t) = 4 /\ \A j \in 1..4 : t[j] = bytes[1 + j - 1]
        <3>1. 1 <= 4 + 1 /\ 4 <= Len(bytes) /\ 4 - 1 + 1 = 4
            BY <1>1, <1>3
        <3> QED  BY <1>1, <3>1, Slice
    <2>2. basis \in Seq(Byte) /\ Len(basis) = z /\ \A j \in 1..z : basis[j] = bytes[1 + j - 1]
        <3>1. 1 <= z + 1 /\ z <= Len(bytes) /\ z - 1 + 1 = z
            BY <1>1, <1>3
        <3> HIDE DEF z
        <3>2. basis = SubSeq(bytes, 1, z)
            BY DEF basis, z
        <3> QED  BY <1>1, <1>3, <3>1, <3>2, Slice DEF z
    <2> HIDE DEF t, z
    <2>3. \A j \in 1..4 : t[j] = basis[1 + j - 1]
        <3>1. ASSUME NEW j \in 1..4 PROVE t[j] = basis[1 + j - 1]
            <4>1. 1 + j - 1 = j /\ j \in 1..z
                BY <1>3 DEF z
            <4> QED  BY <2>1, <2>2, <4>1
        <3> QED  BY <3>1
    <2>4. 4 <= Len(basis) /\ 1 <= 4 + 1 /\ Len(t) = 4 - 1 + 1
        BY <1>3, <2>1, <2>2 DEF z
    <2>5. SubSeq(basis, 1, 4) = t
        BY <2>1, <2>2, <2>3, <2>4, SameSlice
    <2> QED  BY <2>5 DEF t
<1>5. k = kind
    BY <1>2, <1>4 DEF Genuine, Deserialises
<1>6. ASSUME NEW i \in DOMAIN Layout[kind]
      PROVE  FieldBytes(kind, i, SubSeq(bytes, 1, Size(kind))) = FieldBytes(kind, i, bytes)
    BY <1>1, <1>5, FieldIs
<1>7. Deserialise(kind, bytes) = Changed(kind, SubSeq(bytes, 1, Size(kind)), << >>)
    <2>1. \A i \in DOMAIN Layout[kind] : i \notin DOMAIN << >>
        OBVIOUS
    <2> QED  BY <1>6, <2>1 DEF Deserialise, Changed
<1> QED  BY <1>1, <1>5, <1>7

\* What a step of Load leaves in loaded.
Picked(kind, l) ==
    \/ l = None
    \/ l \in LoadedOf(kind, was) /\ l.edits = << >> /\ (~late => l.basis = conf[kind])

LEMMA LoadPicks ==
    ASSUME SessionInv, NEW kind \in Kind, Load(kind)
    PROVE  /\ Picked(kind, loaded'[kind])
           /\ loaded' = [loaded EXCEPT ![kind] = loaded'[kind]]
<1> DEFINE bytes == result.what
           basis == SubSeq(bytes, 1, Size(kind))
           l == [params |-> Deserialise(kind, bytes), basis |-> basis, edits |-> << >>]
<1>1. /\ call = None /\ result.is = "bytes"
      /\ loaded' = [loaded EXCEPT ![kind] = IF ~Deserialises(kind, bytes) THEN None ELSE l]
    BY DEF Load, Idle
<1>2. loaded'[kind] = IF ~Deserialises(kind, bytes) THEN None ELSE l
    BY <1>1 DEF SessionInv, Held
<1>3. ASSUME Deserialises(kind, bytes) PROVE Picked(kind, l)
    <2>1. \A k \in Kind : \A c \in was[k] : Genuine(k, c)
        BY DEF SessionInv, Controlled
    <2>2. PICK k \in Kind : BeginsWith(bytes, k, was)
        BY <1>1 DEF SessionInv, Returned
    <2>3. basis \in was[kind] /\ Deserialise(kind, bytes) = Changed(kind, basis, << >>)
        BY <1>3, <2>1, <2>2, LoadIs
    <2>4. ASSUME ~late PROVE basis = conf[kind]
        <3>1. PICK j \in Kind : BeginsWith(bytes, j, Now)
            BY <1>1, <2>4 DEF SessionInv, Settled, ReturnedNow
        <3>2. \A m \in Kind : \A c \in Now[m] : Genuine(m, c)
            BY DEF SessionInv, Controlled, Now
        <3>3. basis \in Now[kind]
            BY <1>3, <3>1, <3>2, LoadIs
        <3> QED  BY <3>3 DEF Now
    <2> HIDE DEF basis
    <2>5. << >> \in ChangesOf(kind)
        BY DEF ChangesOf
    <2>6. l \in LoadedOf(kind, was)
        BY <2>3, <2>5 DEF LoadedOf
    <2>7. l.edits = << >> /\ l.basis = basis
        OBVIOUS
    <2> HIDE DEF l
    <2> QED  BY <2>4, <2>6, <2>7 DEF Picked
<1>4. Picked(kind, loaded'[kind])
    <2> HIDE DEF l
    <2> QED  BY <1>2, <1>3 DEF Picked
<1> QED  BY <1>1, <1>2, <1>4

LEMMA LoadStep ==
    ASSUME SessionInv, NEW kind \in Kind, Load(kind)
    PROVE  SessionInv'
<1>1. /\ UNCHANGED <<can_id, inbox, wire, call, rx, late, calls, conf, was>>
      /\ result'.is = "None" /\ call = None
    BY DEF Load, linkVars, confVars, Idle
<1>2. SameController
    BY <1>1 DEF SameController, confVars
<1>3. Counted' /\ Asked' /\ Answered'
    BY <1>1 DEF SessionInv, Counted, Asked, Answered
<1>4. Returned' /\ Settled'
    BY <1>1 DEF Returned, Settled
<1>5. Held'
    <2> DEFINE l == loaded'[kind]
    <2>1. Picked(kind, l) /\ loaded' = [loaded EXCEPT ![kind] = l]
        BY LoadPicks
    <2>2. l \in {None} \cup LoadedOf(kind, was)
        BY <2>1 DEF Picked
    <2> HIDE DEF l
    <2>3. Held /\ was' = was
        BY <1>1 DEF SessionInv
    <2>4. loaded' = [k \in Kind |-> IF k = kind THEN l ELSE loaded[k]]
        BY <2>1, <2>3 DEF Held
    <2>5. \A k \in Kind : loaded'[k] \in {None} \cup LoadedOf(k, was)
        BY <2>2, <2>3, <2>4 DEF Held
    <2> QED  BY <2>3, <2>4, <2>5 DEF Held
<1> QED  BY <1>2, <1>3, <1>4, <1>5, StillControlled DEF SessionInv

LEMMA EditStep ==
    ASSUME SessionInv, NEW e \in Edits, Edit(e)
    PROVE  SessionInv'
<1> DEFINE kind == e.kind
           More(edits) == [i \in DOMAIN edits \cup {e.i} |-> IF i = e.i THEN e.value ELSE edits[i]]
<1>1. /\ UNCHANGED <<can_id, inbox, wire, call, rx, late, calls, result, conf, was>>
      /\ kind \in Kind /\ loaded[kind] # None
      /\ loaded' = [loaded EXCEPT ![e.kind].params[e.i] = e.value,
                                  ![e.kind].edits = [i \in DOMAIN @ \cup {e.i} |->
                                                        IF i = e.i THEN e.value ELSE @[i]]]
    BY DEF Edit, linkVars, callVars, confVars
<1>2. SameController
    BY <1>1 DEF SameController, confVars
<1>3. Counted' /\ Asked' /\ Answered' /\ Settled'
    <2>1. Counted' /\ Asked' /\ Answered'
        BY <1>1 DEF SessionInv, Counted, Asked, Answered
    <2>2. Now' = Now
        BY <1>1 DEF Now
    <2>3. Settled'
        BY <1>1, <2>2 DEF SessionInv, Settled, Waiting, ReturnedNow
    <2> QED  BY <2>1, <2>3
<1>4. Held'
    <2>1. PICK basis \in was[kind], old \in ChangesOf(kind) :
             loaded[kind] = [params |-> Changed(kind, basis, old), basis |-> basis, edits |-> old]
        BY <1>1 DEF SessionInv, Held, LoadedOf
    <2> DEFINE edits == More(old)
    <2>2. edits \in ChangesOf(kind)
        BY <1>1, OneMore
    <2>3. e.i \in DOMAIN Layout[kind]
        BY EditsAssumption
    <2>4. [Changed(kind, basis, old) EXCEPT ![e.i] = e.value] = Changed(kind, basis, edits)
        BY <2>3 DEF Changed
    <2> DEFINE l == [params |-> Changed(kind, basis, edits), basis |-> basis, edits |-> edits]
    <2>5. loaded'[kind] = l
        <3> DEFINE p == Changed(kind, basis, old)
                   q == Changed(kind, basis, edits)
        <3>1. loaded[kind] = [params |-> p, basis |-> basis, edits |-> old]
            BY <2>1
        <3>2. [p EXCEPT ![e.i] = e.value] = q
            BY <2>4
        <3>3. kind \in DOMAIN loaded
            BY <1>1 DEF SessionInv, Held
        <3>4. loaded[kind].params = p /\ loaded[kind].basis = basis /\ loaded[kind].edits = old
            BY <3>1
        <3> HIDE DEF p, q
        <3>5. loaded'[kind] = [params |-> [loaded[kind].params EXCEPT ![e.i] = e.value],
                               basis |-> loaded[kind].basis, edits |-> More(loaded[kind].edits)]
            BY <1>1, <3>1, <3>3
        <3> QED  BY <3>2, <3>4, <3>5 DEF q
    <2>6. l \in LoadedOf(kind, was)
        <3> HIDE DEF edits, kind
        <3> QED  BY <2>1, <2>2 DEF LoadedOf
    <2> HIDE DEF l
    <2>7. /\ loaded' = [k \in Kind |-> loaded'[k]]
          /\ \A k \in Kind : k # kind => loaded'[k] = loaded[k]
        BY <1>1 DEF SessionInv, Held
    <2>8. \A k \in Kind : loaded'[k] \in {None} \cup LoadedOf(k, was)
        BY <2>5, <2>6, <2>7 DEF SessionInv, Held
    <2> QED  BY <1>1, <2>7, <2>8 DEF Held
<1> QED  BY <1>1, <1>2, <1>3, <1>4, StillControlled, StillReturned DEF SessionInv

-----------------------------------------------------------------------------

LEMMA BeginsGrows ==
    ASSUME NEW have, NEW more, Grows(have, more), NEW kind \in Kind, NEW bytes, BeginsWith(bytes, kind, have)
    PROVE  BeginsWith(bytes, kind, more)
BY DEF BeginsWith, Grows

\* The controller reads the next request, and answers.
LEMMA HandleIs ==
    ASSUME SessionInv, Handle
    PROVE  LET r == Head(inbox)
               kind == Writes[TypeOf(Message(r.payload)[1])]
           IN  /\ inbox # << >> /\ r \in RequestsOf(was, can_id) /\ inbox' = Tail(inbox)
               /\ \E replies \in Replies(r) : wire' = wire \o replies
               /\ ~Stores(r) => UNCHANGED <<conf, was>>
               /\ Stores(r) =>
                     /\ conf' = [conf EXCEPT ![kind] = Behind(Message(r.payload), 1)]
                     /\ was' = [was EXCEPT ![kind] = @ \cup {conf'[kind]}]
               /\ UNCHANGED <<can_id, call, rx, late, calls, result, loaded>>
<1>1. inbox # << >> => Head(inbox) \in RequestsOf(was, can_id)
    BY DEF SessionInv, Asked
<1> QED  BY <1>1 DEF Handle, confVars, callVars, userVars

\* A request that stores nothing, and one that does, leave the controller with
\* configurations of its kind, the present one among those it has had.
LEMMA StoredIs ==
    ASSUME SessionInv, Handle
    PROVE  LET r == Head(inbox)
           IN  /\ Controlled' /\ Grows(was, was')
               /\ \/ /\ AsksOnly(r) /\ UNCHANGED <<conf, was>>
                  \/ \E kind \in Kind :
                        /\ Rewrites(r, kind)
                        /\ conf' = [conf EXCEPT ![kind] = Behind(Message(r.payload), 1)]
<1> DEFINE r == Head(inbox)
<1>1. r \in RequestsOf(was, can_id)
    BY HandleIs
<1>2. AsksOnly(r) \/ \E kind \in Kind : Rewrites(r, kind)
    BY <1>1, RequestHandled DEF SessionInv
<1>3. CASE AsksOnly(r)
    <2>1. UNCHANGED <<conf, was>>
        BY <1>3, HandleIs DEF AsksOnly
    <2>2. Controlled' /\ Grows(was, was')
        BY <2>1 DEF SessionInv, Controlled, Grows
    <2> QED  BY <1>3, <2>1, <2>2
<1>4. ASSUME NEW kind \in Kind, Rewrites(r, kind)
      PROVE  Controlled' /\ Grows(was, was')
             /\ conf' = [conf EXCEPT ![kind] = Behind(Message(r.payload), 1)]
    <2> DEFINE new == Behind(Message(r.payload), 1)
    <2>1. Stores(r) /\ Writes[TypeOf(Message(r.payload)[1])] = kind /\ Genuine(kind, new)
        BY <1>4 DEF Rewrites
    <2>2. conf' = [conf EXCEPT ![kind] = new] /\ was' = [was EXCEPT ![kind] = @ \cup {conf'[kind]}]
        BY <2>1, HandleIs
    <2> HIDE DEF new, r
    <2>3. Controlled
        BY DEF SessionInv
    <2>4. conf' = [k \in Kind |-> IF k = kind THEN new ELSE conf[k]]
        BY <2>2, <2>3 DEF Controlled
    <2>5. was' = [k \in Kind |-> IF k = kind THEN was[k] \cup {new} ELSE was[k]]
        BY <2>2, <2>3, <2>4 DEF Controlled
    <2>6. conf' = [k \in Kind |-> conf'[k]] /\ was' = [k \in Kind |-> was'[k]]
        BY <2>4, <2>5
    <2>7. ASSUME NEW k \in Kind PROVE conf'[k] \in was'[k] /\ \A c \in was'[k] : Genuine(k, c)
        BY <2>1, <2>3, <2>4, <2>5 DEF Controlled
    <2>8. Controlled'
        BY <2>6, <2>7 DEF Controlled
    <2>9. Grows(was, was')
        BY <2>5 DEF Grows
    <2> QED  BY <2>2, <2>8, <2>9 DEF new
<1> QED  BY <1>2, <1>3, <1>4

LEMMA HandleStep ==
    ASSUME SessionInv, Handle
    PROVE  SessionInv'
<1> DEFINE r == Head(inbox)
<1>1. PICK replies \in Replies(r) : wire' = wire \o replies
    BY HandleIs
<1>2. /\ inbox # << >> /\ inbox' = Tail(inbox)
      /\ UNCHANGED <<can_id, call, rx, late, calls, result, loaded>>
    BY HandleIs
<1>3. Controlled' /\ Grows(was, was')
    BY StoredIs
<1>4. Counted'
    BY <1>2 DEF SessionInv, Counted
<1>5. Asked'
    <2>1. inbox' \in Seq(RequestsOf(was, can_id))
        BY <1>2 DEF SessionInv, Asked
    <2>2. RequestsOf(was, can_id) \subseteq RequestsOf(was', can_id)
        BY <1>3, RequestsGrow
    <2>3. inbox' \in Seq(RequestsOf(was', can_id))
        BY <2>1, <2>2, SeqInto
    <2> QED  BY <1>2, <2>3 DEF Asked
<1>6. From(was) \subseteq From(was')
    BY <1>3, FromGrows
<1>7. Returned'
    BY <1>2, <1>3, BeginsGrows DEF SessionInv, Returned
<1>8. Held'
    <2>1. \A kind \in Kind : LoadedOf(kind, was) \subseteq LoadedOf(kind, was')
        BY <1>3, LoadedGrows
    <2> QED  BY <1>2, <2>1 DEF SessionInv, Held
<1>9. From(Now)' = From(Now') /\ From(Now') \subseteq From(was')
    <2>1. Grows(Now', was')
        BY <1>3 DEF Controlled, Grows, Now
    <2> QED  BY <2>1, FromGrows
<1>10. CASE AsksOnly(r) /\ UNCHANGED <<conf, was>>
    <2>1. Now' = Now
        BY <1>10 DEF Now
    <2>2. replies \in Seq(From(Now)) /\ From(Now) \subseteq From(was)
        <3>1. Grows(Now, was)
            BY ControlledIs DEF SessionInv
        <3> QED  BY <1>1, <1>10, <3>1, FromGrows DEF AsksOnly
    <2>3. Answered'
        <3>1. replies \in Seq(From(was))
            BY <2>2, SeqInto
        <3> DEFINE S == From(was)
        <3>2. wire \in Seq(S) /\ rx \in Seq(S) /\ replies \in Seq(S)
            BY <3>1 DEF SessionInv, Answered
        <3>3. S' = S
            BY <1>10
        <3> HIDE DEF S
        <3>4. wire' \in Seq(S) /\ rx' \in Seq(S)
            BY <1>1, <1>2, <3>2
        <3> QED  BY <3>3, <3>4 DEF Answered, S
    <2>4. Settled'
        <3>1. ASSUME ~late, call # None PROVE Waiting'
            <4> DEFINE S == From(Now)
            <4>1. wire \in Seq(S) /\ rx \in Seq(S) /\ Len(inbox) = 1
                BY <1>2, <3>1 DEF SessionInv, Settled, Waiting
            <4>2. replies \in Seq(S) /\ S' = S
                BY <2>1, <2>2
            <4> HIDE DEF S
            <4>3. wire' \in Seq(S) /\ rx' \in Seq(S)
                BY <1>1, <1>2, <4>1, <4>2
            <4>4. inbox' = << >>
                BY <1>2, <4>1 DEF SessionInv, Asked
            <4> QED  BY <4>2, <4>3, <4>4 DEF Waiting, S
        <3>2. ~(~late /\ call = None /\ result.is = "bytes")
            BY <1>2 DEF SessionInv, Settled, ReturnedNow
        <3> QED  BY <1>2, <3>1, <3>2 DEF Settled
    <2> QED  BY <1>3, <1>4, <1>5, <1>7, <1>8, <2>3, <2>4 DEF SessionInv
<1>11. ASSUME NEW kind \in Kind, Rewrites(r, kind)
       PROVE  SessionInv'
    <2>1. replies \in Seq(OtherOut) /\ OtherOut \subseteq From(Now') /\ OtherOut \subseteq From(was')
        BY <1>1, <1>11 DEF Rewrites, From
    <2>2. Answered'
        <3> DEFINE S == From(was')
        <3>1. wire \in Seq(S) /\ rx \in Seq(S) /\ replies \in Seq(S)
            BY <1>6, <2>1, SeqInto DEF SessionInv, Answered
        <3> HIDE DEF S
        <3>2. wire' \in Seq(S) /\ rx' \in Seq(S)
            BY <1>1, <1>2, <3>1
        <3> QED  BY <3>2 DEF Answered, S
    <2>3. Settled'
        <3>1. ASSUME ~late, call # None PROVE Waiting'
            <4> DEFINE S == From(Now')
            <4>1. wire = << >> /\ rx = << >> /\ Len(inbox) = 1
                BY <1>2, <3>1 DEF SessionInv, Settled, Waiting
            <4>2. replies \in Seq(S)
                BY <2>1, SeqInto
            <4> HIDE DEF S
            <4>3. wire' \in Seq(S) /\ rx' \in Seq(S)
                BY <1>1, <1>2, <4>1, <4>2
            <4>4. inbox' = << >>
                BY <1>2, <4>1 DEF SessionInv, Asked
            <4> QED  BY <4>3, <4>4 DEF Waiting, S
        <3>2. ~(~late /\ call = None /\ result.is = "bytes")
            BY <1>2 DEF SessionInv, Settled, ReturnedNow
        <3> QED  BY <1>2, <3>1, <3>2 DEF Settled
    <2> QED  BY <1>3, <1>4, <1>5, <1>7, <1>8, <2>2, <2>3 DEF SessionInv
<1> QED  BY <1>10, <1>11, StoredIs

-----------------------------------------------------------------------------

LEMMA OtherStep ==
    ASSUME SessionInv, UNCHANGED <<can_id, linkVars, callVars, userVars, confVars>>
    PROVE  SessionInv'
<1>1. UNCHANGED <<can_id, inbox, wire, call, rx, late, calls, result, loaded, conf, was>>
    BY DEF linkVars, callVars, userVars, confVars
<1>2. SameController
    BY DEF SameController
<1>3. Counted' /\ Asked' /\ Answered'
    BY <1>1 DEF SessionInv, Counted, Asked, Answered
<1>4. Settled'
    <2>1. Now' = Now
        BY <1>1 DEF Now
    <2> QED  BY <1>1, <2>1 DEF SessionInv, Settled, Waiting, ReturnedNow
<1> QED  BY <1>1, <1>2, <1>3, <1>4, StillControlled, StillHeld, StillReturned DEF SessionInv

LEMMA SessionStarts ==
    ASSUME Init
    PROVE  SessionInv
<1>1. Counted
    <2>1. MaxCalls \in Nat
        BY SessionAssumption
    <2>2. can_id \in CanIds /\ call = None /\ calls = 0 /\ late = FALSE
        BY DEF Init
    <2>3. 0 \in 0..MaxCalls
        BY <2>1
    <2>4. late \in BOOLEAN
        BY <2>2
    <2> QED  BY <2>2, <2>3, <2>4 DEF Counted
<1>2. Controlled
    <2>1. conf = Factory /\ was = [kind \in Kind |-> {Factory[kind]}] /\ Factory = [kind \in Kind |-> Factory[kind]]
        <3>1. Factory = [kind \in Kind |-> Factory[kind]]
            BY SessionAssumption
        <3> QED  BY <3>1 DEF Init
    <2>2. \A kind \in Kind : Genuine(kind, Factory[kind])
        BY SessionAssumption DEF Genuine
    <2> QED  BY <2>1, <2>2 DEF Controlled
<1>3. Asked /\ Answered
    BY DEF Init, Asked, Answered
<1>4. Returned /\ Settled
    BY DEF Init, Returned, Settled
<1>5. Held
    BY DEF Init, Held
<1> QED  BY <1>1, <1>2, <1>3, <1>4, <1>5 DEF SessionInv

\* What is under way and what the user has, at every point of a session: see
\* the parts of SessionInv.
THEOREM SessionInvariant == Spec => []SessionInv
<1>1. Init => SessionInv
    BY SessionStarts
<1>2. SessionInv /\ [Next]_vars => SessionInv'
    <2> SUFFICES ASSUME SessionInv, [Next]_vars PROVE SessionInv'
        OBVIOUS
    <2>1. ASSUME NEW op \in Requests, Get(op) PROVE SessionInv'
        BY <2>1, GetStep
    <2>2. ASSUME NEW op \in Requests, Set(op) PROVE SessionInv'
        BY <2>2, SetStep
    <2>3. CASE Terminal
        BY <2>3, TerminalStep
    <2>4. CASE Collect
        BY <2>4, CollectStep
    <2>5. CASE EndRead
        BY <2>5, EndReadStep
    <2>6. ASSUME NEW kind \in Kind, Load(kind) PROVE SessionInv'
        BY <2>6, LoadStep
    <2>7. ASSUME NEW e \in Edits, Edit(e) PROVE SessionInv'
        BY <2>7, EditStep
    <2>8. CASE Handle
        BY <2>8, HandleStep
    <2>9. ASSUME NEW o \in Orders, Command(o) PROVE SessionInv'
        BY <2>9, OtherStep DEF Command
    <2>10. ASSUME NEW r \in Reports, Report(r) PROVE SessionInv'
        BY <2>10, OtherStep DEF Report
    <2>11. CASE Forget
        BY <2>11, OtherStep DEF Forget
    <2>12. CASE UNCHANGED vars
        BY <2>12, OtherStep DEF vars
    <2> QED  BY <2>1, <2>2, <2>3, <2>4, <2>5, <2>6, <2>7, <2>8, <2>9, <2>10, <2>11, <2>12 DEF Next
<1> QED  BY <1>1, <1>2, PTL DEF Spec

\* Types: configurations have the length of their layout, and of what was read
\* each parameter is a value of its type.
THEOREM SessionTypes == Spec => []TypeOK
<1>1. SessionInv => TypeOK
    <2> SUFFICES ASSUME SessionInv PROVE TypeOK
        OBVIOUS
    <2>1. ASSUME NEW kind \in Kind
          PROVE  Len(conf[kind]) = Size(kind) /\ \A i \in DOMAIN conf[kind] : conf[kind][i] \in Byte
        <3>1. Genuine(kind, conf[kind])
            BY DEF SessionInv, Controlled
        <3> QED  BY <3>1 DEF Genuine
    <2>2. ASSUME NEW kind \in Kind, loaded[kind] # None,
                 NEW i \in DOMAIN Layout[kind] \ DOMAIN loaded[kind].edits
          PROVE  loaded[kind].params[i] \in ValueOf(Layout[kind][i])
        <3>1. PICK basis \in was[kind], edits \in ChangesOf(kind) :
                 loaded[kind] = [params |-> Changed(kind, basis, edits), basis |-> basis, edits |-> edits]
            BY <2>2 DEF SessionInv, Held, LoadedOf
        <3>2. loaded[kind].params = Changed(kind, basis, edits) /\ loaded[kind].edits = edits
            BY <3>1
        <3>3. basis \in Seq(Byte) /\ Len(basis) = Size(kind)
            BY DEF SessionInv, Controlled, Genuine
        <3> QED  BY <3>2, <3>3, ChangedIs
    <2>3. Counted
        BY DEF SessionInv
    <2> QED  BY <2>1, <2>2, <2>3 DEF TypeOK, Counted
<1> QED  BY <1>1, SessionInvariant, PTL

-----------------------------------------------------------------------------

LEMMA LoadedWas ==
    ASSUME SessionInv, [Next]_vars, NEW kind \in Kind,
           loaded'[kind] # loaded[kind], loaded'[kind] # None, loaded'[kind].edits = << >>
    PROVE  loaded'[kind].basis \in was[kind] /\ (~late => loaded'[kind].basis = conf[kind])
<1>1. Held
    BY DEF SessionInv
<1>2. ASSUME NEW k \in Kind, Load(k) PROVE Picked(kind, loaded'[kind])
    <2>1. Picked(k, loaded'[k]) /\ loaded' = [loaded EXCEPT ![k] = loaded'[k]]
        BY <1>2, LoadPicks
    <2>2. k # kind => loaded'[kind] = loaded[kind]
        BY <1>1, <2>1 DEF Held
    <2> QED  BY <2>1, <2>2
<1>3. ASSUME NEW e \in Edits, Edit(e) PROVE FALSE
    <2>1. /\ e.kind \in Kind /\ loaded[e.kind] # None
          /\ loaded' = [loaded EXCEPT ![e.kind].params[e.i] = e.value,
                                      ![e.kind].edits = [i \in DOMAIN @ \cup {e.i} |->
                                                            IF i = e.i THEN e.value ELSE @[i]]]
        BY <1>3 DEF Edit
    <2>2. e.kind # kind => loaded'[kind] = loaded[kind]
        BY <1>1, <2>1 DEF Held
    <2>3. PICK l \in LoadedOf(e.kind, was) : loaded[e.kind] = l
        BY <1>1, <2>1 DEF Held
    <2>4. DOMAIN loaded'[e.kind].edits = DOMAIN loaded[e.kind].edits \cup {e.i}
        <3>1. "edits" \in DOMAIN loaded[e.kind]
            BY <2>3 DEF LoadedOf
        <3> QED  BY <1>1, <2>1, <3>1 DEF Held
    <2>5. e.i \in DOMAIN loaded'[e.kind].edits
        BY <2>4
    <2>6. loaded'[e.kind].edits # << >>
        BY <2>5
    <2> QED  BY <2>2, <2>6
<1>4. ASSUME UNCHANGED loaded PROVE FALSE
    BY <1>4
<1>5. \E k \in Kind : Load(k)
    <2>1. CASE \E k \in Kind : Load(k)
        BY <2>1
    <2>2. CASE \E e \in Edits : Edit(e)
        BY <1>3, <2>2
    <2>3. CASE \E op \in Requests : Get(op) \/ Set(op)
        BY <1>4, <2>3 DEF Get, Set, Exchange, Refused, userVars
    <2>4. CASE Terminal
        BY <1>4, <2>4 DEF Terminal, Exchange, Refused, userVars
    <2>5. CASE Collect \/ EndRead \/ Handle \/ Forget
        BY <1>4, <2>5 DEF Collect, EndRead, Handle, Forget, userVars
    <2>6. CASE (\E o \in Orders : Command(o)) \/ (\E r \in Reports : Report(r))
        BY <1>4, <2>6 DEF Command, Report, userVars
    <2>7. CASE UNCHANGED vars
        BY <1>4, <2>7 DEF vars, userVars
    <2> QED  BY <2>1, <2>2, <2>3, <2>4, <2>5, <2>6, <2>7 DEF Next
<1>6. Picked(kind, loaded'[kind])
    BY <1>2, <1>5
<1>7. ASSUME NEW l \in LoadedOf(kind, was) PROVE l.basis \in was[kind]
    BY DEF LoadedOf
<1> QED  BY <1>6, <1>7 DEF Picked

\* What the user loads is a configuration that the controller had, whole; and
\* the one it has, unless an earlier call was left unsettled.
THEOREM ReadsAreReal == Spec => ReadIsReal
<1>1. SessionInv /\ [Next]_vars =>
        [\A kind \in Kind :
            (loaded'[kind] # loaded[kind] /\ loaded'[kind] # None /\ loaded'[kind].edits = << >>) =>
               /\ loaded'[kind].basis \in was[kind]
               /\ ~late => loaded'[kind].basis = conf[kind]]_vars
    BY LoadedWas
<1> QED  BY <1>1, SessionInvariant, PTL DEF Spec, ReadIsReal

LEMMA StoredWas ==
    ASSUME SessionInv, [Next]_vars, NEW kind \in Kind, conf'[kind] # conf[kind]
    PROVE  /\ Len(conf'[kind]) = Size(kind)
           /\ KeptBut(kind, Head(inbox).basis, Head(inbox).edits, conf'[kind])
<1> DEFINE r == Head(inbox)
<1>1. ASSUME UNCHANGED conf PROVE FALSE
    BY <1>1
<1>2. Handle
    <2>1. CASE Handle
        BY <2>1
    <2>2. CASE \E op \in Requests : Get(op) \/ Set(op)
        BY <1>1, <2>2 DEF Get, Set, Exchange, Refused, confVars
    <2>3. CASE Terminal
        BY <1>1, <2>3 DEF Terminal, Exchange, Refused, confVars
    <2>4. CASE Collect \/ EndRead \/ Forget
        BY <1>1, <2>4 DEF Collect, EndRead, Forget, confVars
    <2>5. CASE (\E k \in Kind : Load(k)) \/ (\E e \in Edits : Edit(e))
        BY <1>1, <2>5 DEF Load, Edit, confVars
    <2>6. CASE (\E o \in Orders : Command(o)) \/ (\E q \in Reports : Report(q))
        BY <1>1, <2>6 DEF Command, Report, confVars
    <2>7. CASE UNCHANGED vars
        BY <1>1, <2>7 DEF vars, confVars
    <2> QED  BY <2>1, <2>2, <2>3, <2>4, <2>5, <2>6, <2>7 DEF Next
<1>3. PICK k \in Kind :
         Rewrites(r, k) /\ conf' = [conf EXCEPT ![k] = Behind(Message(r.payload), 1)]
    BY <1>1, <1>2, StoredIs
<1> DEFINE new == Behind(Message(r.payload), 1)
<1>4. Genuine(k, new) /\ KeptBut(k, r.basis, r.edits, new)
    BY <1>3 DEF Rewrites
<1> HIDE DEF new
<1>5. conf' = [j \in Kind |-> IF j = k THEN new ELSE conf[j]]
    BY <1>3 DEF SessionInv, Controlled, new
<1>6. k = kind /\ conf'[kind] = new
    BY <1>5
<1> QED  BY <1>4, <1>6 DEF Genuine

\* What is written back differs from what was read in what the user has edited,
\* and in nothing else.
THEOREM WriteBacksKeep == Spec => WriteBackKeeps
<1>1. ASSUME SessionInv, [Next]_vars, NEW kind \in Kind, conf'[kind] # conf[kind]
      PROVE  LET request == Head(inbox)
             IN  /\ Len(conf'[kind]) = Size(kind)
                 /\ \A i \in DOMAIN Layout[kind] :
                       IF i \in DOMAIN request.edits
                       THEN Says(Layout[kind][i], request.edits[i], FieldBytes(kind, i, conf'[kind]))
                       ELSE SameMeaning(Layout[kind][i], FieldBytes(kind, i, request.basis),
                                                         FieldBytes(kind, i, conf'[kind]))
    BY <1>1, StoredWas DEF KeptBut
<1>2. SessionInv /\ [Next]_vars =>
        [\A kind \in Kind : conf'[kind] # conf[kind] =>
             LET request == Head(inbox)
             IN  /\ Len(conf'[kind]) = Size(kind)
                 /\ \A i \in DOMAIN Layout[kind] :
                       IF i \in DOMAIN request.edits
                       THEN Says(Layout[kind][i], request.edits[i], FieldBytes(kind, i, conf'[kind]))
                       ELSE SameMeaning(Layout[kind][i], FieldBytes(kind, i, request.basis),
                                                         FieldBytes(kind, i, conf'[kind]))]_vars
    BY <1>1
<1> QED  BY <1>2, SessionInvariant, PTL DEF Spec, WriteBackKeeps
=============================================================================
