--------------------- MODULE UnifiedSearchModal_proofs ---------------------
(***************************************************************************)
(* Proofs about the header and the modal of the search, for any texts,     *)
(* categories, filters and layouts: typing, that the highlight is on a row *)
(* and stays on it, that the modal uses the controller only through its    *)
(* interface, so that what is proved of the controller holds in the modal, *)
(* and that a closed modal is quiet.                                       *)
(*                                                                         *)
(* The lists of the modal are computed by recursion (Kept, FlattenSeq). As *)
(* there is no operator to instantiate, induction over the naturals is     *)
(* stated with a set, and follows from the least element of a set.         *)
(***************************************************************************)
EXTENDS UnifiedSearchModal, UnifiedSearch_proofs, WellFoundedInduction

-----------------------------------------------------------------------------
(* Induction and recursion *)

(* Every set of numbers has a least one; so a set that has 0, and with each  *)
(* number the next, has all.                                                *)
LEMMA Least ==
  ASSUME NEW T \in SUBSET Nat, T # {}
  PROVE  \E n \in T : \A m \in T : n <= m
<1>1. PICK n \in T : \A m \in T : ~ (<<m, n>> \in OpToRel(<, Nat))
  BY NatLessThanWellFounded, WFMin
<1>2. \A m \in T : ~ (m < n)
  BY <1>1 DEF OpToRel
<1> QED
  BY <1>2

LEMMA Induction ==
  ASSUME NEW T, 0 \in T, \A n \in Nat : n \in T => n + 1 \in T
  PROVE  \A n \in Nat : n \in T
<1> SUFFICES ASSUME Nat \ T # {} PROVE FALSE
  OBVIOUS
<1>1. PICK n \in Nat \ T : \A m \in Nat \ T : n <= m
  BY Least
<1> QED
  BY <1>1

(* f starts with base and goes on by step, up to N. Such an f exists.       *)
Iterates(f, V, base, step, N) ==
  /\ f \in [0..N -> V]
  /\ f[0] = base
  /\ \A n \in 1..N : f[n] = step[<<f[n - 1], n>>]

LEMMA Recursion ==
  ASSUME NEW V, NEW base \in V, NEW step \in [V \X Nat -> V], NEW N \in Nat
  PROVE  \E f : Iterates(f, V, base, step, N)
<1> DEFINE Good(n, f) == /\ f[0] = base
                         /\ \A m \in 1..n : f[m] = step[<<f[m - 1], m>>]
           T == {n \in Nat : \E f \in [0..n -> V] : Good(n, f)}
<1>1. 0 \in T
  <2>1. [m \in 0..0 |-> base] \in [0..0 -> V] /\ Good(0, [m \in 0..0 |-> base])
    OBVIOUS
  <2> QED
    BY <2>1
<1>2. ASSUME NEW n \in Nat, n \in T
      PROVE  n + 1 \in T
  <2>1. PICK f \in [0..n -> V] : Good(n, f)
    BY <1>2
  <2> DEFINE next == step[<<f[n], n + 1>>]
             g == [m \in 0..(n + 1) |-> IF m = n + 1 THEN next ELSE f[m]]
  <2>2. next \in V
    OBVIOUS
  <2> HIDE DEF next
  <2>3. g \in [0..(n + 1) -> V]
    BY <2>2
  <2>4. g[0] = base
    BY <2>1
  <2>5. ASSUME NEW m \in 1..(n + 1)
        PROVE  g[m] = step[<<g[m - 1], m>>]
    <3>1. CASE m = n + 1
      BY <3>1 DEF next
    <3>2. CASE m # n + 1
      <4>1. m \in 1..n /\ m - 1 \in 0..n /\ g[m] = f[m] /\ g[m - 1] = f[m - 1]
        BY <3>2
      <4> QED
        BY <2>1, <4>1
    <3> QED
      BY <3>1, <3>2
  <2> HIDE DEF g
  <2>6. Good(n + 1, g)
    BY <2>4, <2>5
  <2> QED
    BY <2>3, <2>6
<1> HIDE DEF T
<1>3. N \in T
  BY <1>1, <1>2, Induction
<1> QED
  BY <1>3 DEF T, Iterates

-----------------------------------------------------------------------------
(* Kept and FlattenSeq: what the result is made of *)

(* The function that Kept chooses. *)
KeptSteps(f, list, S) ==
  f = [n \in 0..Len(list) |->
         IF n = 0 THEN <<>>
         ELSE IF list[n] \in S THEN Append(f[n - 1], list[n]) ELSE f[n - 1]]

LEMMA KeptUnfolds ==
  ASSUME NEW X, NEW list \in Seq(X), NEW S
  PROVE  \E f : KeptSteps(f, list, S) /\ Kept(list, S) = f[Len(list)]
<1> DEFINE step == [p \in Seq(X) \X Nat |->
                      IF p[2] \in 1..Len(list) /\ list[p[2]] \in S
                        THEN Append(p[1], list[p[2]]) ELSE p[1]]
<1>1. step \in [Seq(X) \X Nat -> Seq(X)]
  <2>1. ASSUME NEW p \in Seq(X) \X Nat
        PROVE  (IF p[2] \in 1..Len(list) /\ list[p[2]] \in S
                 THEN Append(p[1], list[p[2]]) ELSE p[1]) \in Seq(X)
    <3>1. p[1] \in Seq(X)
      OBVIOUS
    <3>2. ASSUME p[2] \in 1..Len(list) PROVE Append(p[1], list[p[2]]) \in Seq(X)
      BY <3>1, <3>2
    <3> QED
      BY <3>1, <3>2
  <2> QED
    BY <2>1
<1>2. <<>> \in Seq(X) /\ Len(list) \in Nat
  OBVIOUS
<1>3. \A s \in Seq(X), n \in 1..Len(list) :
        step[<<s, n>>] = IF list[n] \in S THEN Append(s, list[n]) ELSE s
  OBVIOUS
<1> HIDE DEF step
<1>4. PICK f : Iterates(f, Seq(X), <<>>, step, Len(list))
  BY <1>1, <1>2, Recursion
<1>5. /\ f \in [0..Len(list) -> Seq(X)]
      /\ f[0] = <<>>
      /\ \A n \in 1..Len(list) : f[n] = step[<<f[n - 1], n>>]
  BY <1>4 DEF Iterates
<1>6. KeptSteps(f, list, S)
  <2>1. ASSUME NEW n \in 0..Len(list)
        PROVE  f[n] = IF n = 0 THEN <<>>
                      ELSE IF list[n] \in S THEN Append(f[n - 1], list[n]) ELSE f[n - 1]
    <3>1. CASE n = 0
      BY <1>5, <3>1
    <3>2. CASE n # 0
      <4>1. n \in 1..Len(list) /\ n - 1 \in 0..Len(list)
        BY <1>2, <3>2
      <4>2. f[n - 1] \in Seq(X) /\ f[n] = step[<<f[n - 1], n>>]
        BY <1>5, <4>1
      <4>3. step[<<f[n - 1], n>>] = IF list[n] \in S THEN Append(f[n - 1], list[n]) ELSE f[n - 1]
        BY <1>3, <4>1, <4>2
      <4> QED
        BY <3>2, <4>2, <4>3
    <3> QED
      BY <3>1, <3>2
  <2>2. f = [n \in 0..Len(list) |-> f[n]]
    BY <1>5
  <2> QED
    BY <2>1, <2>2 DEF KeptSteps
<1>7. \E g : KeptSteps(g, list, S)
  BY <1>6
<1> DEFINE chosen == CHOOSE g : KeptSteps(g, list, S)
<1>8. KeptSteps(chosen, list, S)
  BY <1>7
<1>9. Kept(list, S) = chosen[Len(list)]
  BY DEF Kept, KeptSteps
<1> QED
  BY <1>8, <1>9

(* The elements of an appended, of a filtered and of a joined list, and that *)
(* the first two have no repetition.                                        *)
LEMMA ElementsAppended ==
  ASSUME NEW X, NEW s \in Seq(X), NEW x \in X
  PROVE  /\ Append(s, x) \in Seq(X)
         /\ ElementsOf(Append(s, x)) = ElementsOf(s) \cup {x}
         /\ Distinct(s) /\ x \notin ElementsOf(s) => Distinct(Append(s, x))
<1> DEFINE t == Append(s, x)
<1>1. /\ t \in Seq(X) /\ Len(s) \in Nat
      /\ DOMAIN s = 1..Len(s) /\ DOMAIN t = 1..(Len(s) + 1)
      /\ \A i \in 1..Len(s) : t[i] = s[i]
      /\ t[Len(s) + 1] = x
  OBVIOUS
<1> HIDE DEF t
<1>2. ElementsOf(t) = ElementsOf(s) \cup {x}
  <2>1. ElementsOf(t) \subseteq ElementsOf(s) \cup {x}
    <3> SUFFICES ASSUME NEW i \in DOMAIN t PROVE t[i] \in ElementsOf(s) \cup {x}
      BY DEF ElementsOf
    <3>1. i = Len(s) + 1 \/ i \in 1..Len(s)
      BY <1>1
    <3> QED
      BY <1>1, <3>1 DEF ElementsOf
  <2>2. ElementsOf(s) \subseteq ElementsOf(t)
    <3> SUFFICES ASSUME NEW i \in DOMAIN s PROVE s[i] \in ElementsOf(t)
      BY DEF ElementsOf
    <3>1. i \in DOMAIN t /\ t[i] = s[i]
      BY <1>1
    <3> QED
      BY <3>1 DEF ElementsOf
  <2>3. x \in ElementsOf(t)
    BY <1>1 DEF ElementsOf
  <2> QED
    BY <2>1, <2>2, <2>3
<1>3. ASSUME Distinct(s), x \notin ElementsOf(s) PROVE Distinct(t)
  <2> SUFFICES ASSUME NEW i \in DOMAIN t, NEW j \in DOMAIN t, t[i] = t[j] PROVE i = j
    BY DEF Distinct
  <2>1. ASSUME NEW k \in 1..Len(s) PROVE s[k] # x
    BY <1>1, <1>3 DEF ElementsOf
  <2>2. /\ i = Len(s) + 1 \/ i \in 1..Len(s)
        /\ j = Len(s) + 1 \/ j \in 1..Len(s)
    BY <1>1
  <2> QED
    BY <1>1, <1>3, <2>1, <2>2 DEF Distinct
<1> QED
  BY <1>1, <1>2, <1>3 DEF t

LEMMA KeptIs ==
  ASSUME NEW X, NEW list \in Seq(X), NEW S
  PROVE  /\ Kept(list, S) \in Seq(X)
         /\ ElementsOf(Kept(list, S)) = ElementsOf(list) \cap S
         /\ Distinct(list) => Distinct(Kept(list, S))
<1>1. PICK f : KeptSteps(f, list, S) /\ Kept(list, S) = f[Len(list)]
  BY KeptUnfolds
<1> DEFINE Before(n) == {list[i] : i \in 1..n}
           Fine(n) == /\ f[n] \in Seq(X)
                      /\ ElementsOf(f[n]) = Before(n) \cap S
                      /\ Distinct(list) => Distinct(f[n])
           T == {n \in Nat : n <= Len(list) => Fine(n)}
<1>2. Len(list) \in Nat /\ DOMAIN list = 1..Len(list)
  OBVIOUS
<1>3. 0 \in T
  <2>1. f[0] = <<>>
    BY <1>1, <1>2 DEF KeptSteps
  <2>2. Fine(0)
    BY <2>1 DEF ElementsOf, Distinct
  <2> HIDE DEF Fine
  <2> QED
    BY <2>2
<1>4. ASSUME NEW n \in Nat, n \in T PROVE n + 1 \in T
  <2> SUFFICES ASSUME n + 1 <= Len(list) PROVE Fine(n + 1)
    OBVIOUS
  <2>1. n + 1 \in 1..Len(list) /\ n + 1 \in 0..Len(list) /\ n + 1 # 0 /\ (n + 1) - 1 = n
    BY <1>2
  <2>2. f[n + 1] = IF list[n + 1] \in S THEN Append(f[n], list[n + 1]) ELSE f[n]
    BY <1>1, <2>1 DEF KeptSteps
  <2>3. Fine(n)
    BY <1>2, <1>4
  <2>4. list[n + 1] \in X
    BY <2>1
  <2>5. Before(n + 1) = Before(n) \cup {list[n + 1]}
    BY <2>1
  <2>6. Distinct(list) => list[n + 1] \notin Before(n)
    BY <1>2, <2>1 DEF Distinct
  <2> HIDE DEF Before
  <2>7. CASE list[n + 1] \in S
    <3>1. f[n + 1] = Append(f[n], list[n + 1])
      BY <2>2, <2>7
    <3>2. /\ Append(f[n], list[n + 1]) \in Seq(X)
          /\ ElementsOf(Append(f[n], list[n + 1])) = ElementsOf(f[n]) \cup {list[n + 1]}
          /\ Distinct(f[n]) /\ list[n + 1] \notin ElementsOf(f[n])
             => Distinct(Append(f[n], list[n + 1]))
      BY <2>3, <2>4, ElementsAppended
    <3> QED
      BY <2>3, <2>5, <2>6, <2>7, <3>1, <3>2
  <2>8. CASE list[n + 1] \notin S
    <3>1. f[n + 1] = f[n]
      BY <2>2, <2>8
    <3> QED
      BY <2>3, <2>5, <2>8, <3>1
  <2> QED
    BY <2>7, <2>8
<1> HIDE DEF T
<1>5. Len(list) \in T
  BY <1>2, <1>3, <1>4, Induction
<1>6. Fine(Len(list))
  BY <1>2, <1>5 DEF T
<1>7. Before(Len(list)) = ElementsOf(list)
  BY <1>2 DEF ElementsOf
<1> QED
  BY <1>1, <1>6, <1>7

(* The function that FlattenSeq chooses. *)
Concatenates(f, ss) ==
  f = [n \in 1..Len(ss) |-> IF n = 1 THEN ss[n] ELSE f[n - 1] \o ss[n]]

LEMMA FlattenUnfolds ==
  ASSUME NEW X, NEW ss \in Seq(Seq(X)), Len(ss) # 0
  PROVE  \E f : Concatenates(f, ss) /\ FlattenSeq(ss) = f[Len(ss)]
<1> DEFINE step == [p \in Seq(X) \X Nat |->
                      IF p[2] \in 1..Len(ss) THEN p[1] \o ss[p[2]] ELSE p[1]]
<1>1. step \in [Seq(X) \X Nat -> Seq(X)]
  <2>1. ASSUME NEW p \in Seq(X) \X Nat
        PROVE  (IF p[2] \in 1..Len(ss) THEN p[1] \o ss[p[2]] ELSE p[1]) \in Seq(X)
    <3>1. p[1] \in Seq(X)
      OBVIOUS
    <3>2. ASSUME p[2] \in 1..Len(ss) PROVE p[1] \o ss[p[2]] \in Seq(X)
      <4>1. ss[p[2]] \in Seq(X)
        BY <3>2
      <4> QED
        BY <3>1, <4>1
    <3> QED
      BY <3>1, <3>2
  <2> QED
    BY <2>1
<1>2. <<>> \in Seq(X) /\ Len(ss) \in Nat
  OBVIOUS
<1>3. \A s \in Seq(X), n \in 1..Len(ss) : step[<<s, n>>] = s \o ss[n]
  <2> SUFFICES ASSUME NEW s \in Seq(X), NEW n \in 1..Len(ss)
               PROVE  step[<<s, n>>] = s \o ss[n]
    OBVIOUS
  <2>1. <<s, n>> \in Seq(X) \X Nat /\ <<s, n>>[1] = s /\ <<s, n>>[2] = n
    BY <1>2
  <2>2. step[<<s, n>>] = IF <<s, n>>[2] \in 1..Len(ss)
                           THEN <<s, n>>[1] \o ss[<<s, n>>[2]] ELSE <<s, n>>[1]
    BY <2>1, Zenon
  <2> HIDE DEF step
  <2> QED
    BY <2>1, <2>2, Zenon
<1> HIDE DEF step
<1>4. PICK f : Iterates(f, Seq(X), <<>>, step, Len(ss))
  BY <1>1, <1>2, Recursion
<1>5. /\ f \in [0..Len(ss) -> Seq(X)]
      /\ f[0] = <<>>
      /\ \A n \in 1..Len(ss) : f[n] = step[<<f[n - 1], n>>]
  BY <1>4 DEF Iterates
<1> DEFINE g == [n \in 1..Len(ss) |-> f[n]]
<1>6. ASSUME NEW n \in 1..Len(ss)
      PROVE  f[n] = IF n = 1 THEN ss[n] ELSE g[n - 1] \o ss[n]
  <2>1. n - 1 \in 0..Len(ss) /\ ss[n] \in Seq(X)
    BY <1>2
  <2>2. f[n] = f[n - 1] \o ss[n]
    BY <1>3, <1>5, <2>1
  <2>3. CASE n = 1
    <3>1. <<>> \o ss[n] = ss[n]
      BY <2>1
    <3>2. f[n - 1] = <<>>
      BY <1>5, <2>3
    <3>3. f[n] = ss[n]
      BY <2>2, <3>1, <3>2, Zenon
    <3> QED
      BY <2>3, <3>3
  <2>4. CASE n # 1
    <3>1. g[n - 1] = f[n - 1]
      BY <2>1, <2>4
    <3> QED
      BY <2>2, <2>4, <3>1
  <2> QED
    BY <2>3, <2>4
<1>7. Concatenates(g, ss)
  BY <1>6 DEF Concatenates
<1> HIDE DEF g
<1> DEFINE chosen == CHOOSE h : Concatenates(h, ss)
<1>8. Concatenates(chosen, ss)
  BY <1>7
<1>9. FlattenSeq(ss) = chosen[Len(ss)]
  BY DEF FlattenSeq, Concatenates
<1> QED
  BY <1>8, <1>9

LEMMA ElementsJoined ==
  ASSUME NEW X
  PROVE  \A s, t \in Seq(X) : /\ s \o t \in Seq(X)
                              /\ ElementsOf(s \o t) = ElementsOf(s) \cup ElementsOf(t)
<1> SUFFICES ASSUME NEW s \in Seq(X), NEW t \in Seq(X)
             PROVE  /\ s \o t \in Seq(X)
                    /\ ElementsOf(s \o t) = ElementsOf(s) \cup ElementsOf(t)
  OBVIOUS
<1> DEFINE u == s \o t
<1>1. /\ u \in Seq(X) /\ Len(s) \in Nat /\ Len(t) \in Nat
      /\ DOMAIN s = 1..Len(s) /\ DOMAIN t = 1..Len(t)
      /\ DOMAIN u = 1..(Len(s) + Len(t))
      /\ \A i \in 1..Len(s) : u[i] = s[i]
      /\ \A i \in 1..Len(t) : u[Len(s) + i] = t[i]
  OBVIOUS
<1> HIDE DEF u
<1>2. ElementsOf(u) \subseteq ElementsOf(s) \cup ElementsOf(t)
  <2> SUFFICES ASSUME NEW i \in DOMAIN u PROVE u[i] \in ElementsOf(s) \cup ElementsOf(t)
    BY DEF ElementsOf
  <2>1. CASE i \in DOMAIN s
    BY <1>1, <2>1 DEF ElementsOf
  <2>2. CASE i \notin DOMAIN s
    <3>1. i - Len(s) \in DOMAIN t /\ Len(s) + (i - Len(s)) = i
      BY <1>1, <2>2
    <3>2. u[i] = t[i - Len(s)]
      BY <1>1, <3>1
    <3> QED
      BY <3>1, <3>2 DEF ElementsOf
  <2> QED
    BY <2>1, <2>2
<1>3. ElementsOf(s) \subseteq ElementsOf(u)
  <2> SUFFICES ASSUME NEW i \in DOMAIN s PROVE s[i] \in ElementsOf(u)
    BY DEF ElementsOf
  <2>1. i \in DOMAIN u /\ u[i] = s[i]
    BY <1>1
  <2> QED
    BY <2>1 DEF ElementsOf
<1>4. ElementsOf(t) \subseteq ElementsOf(u)
  <2> SUFFICES ASSUME NEW i \in DOMAIN t PROVE t[i] \in ElementsOf(u)
    BY DEF ElementsOf
  <2>1. Len(s) + i \in DOMAIN u /\ u[Len(s) + i] = t[i]
    BY <1>1
  <2> QED
    BY <2>1 DEF ElementsOf
<1> QED
  BY <1>1, <1>2, <1>3, <1>4 DEF u

LEMMA FlattenIs ==
  ASSUME NEW X, NEW ss \in Seq(Seq(X))
  PROVE  /\ FlattenSeq(ss) \in Seq(X)
         /\ ElementsOf(FlattenSeq(ss)) = UNION {ElementsOf(ss[i]) : i \in DOMAIN ss}
<1>0. Len(ss) \in Nat /\ DOMAIN ss = 1..Len(ss)
  OBVIOUS
<1>1. CASE Len(ss) = 0
  <2>1. FlattenSeq(ss) = <<>> /\ DOMAIN ss = {}
    BY <1>0, <1>1 DEF FlattenSeq
  <2> QED
    BY <2>1 DEF ElementsOf
<1>2. CASE Len(ss) # 0
  <2>1. PICK f : Concatenates(f, ss) /\ FlattenSeq(ss) = f[Len(ss)]
    BY <1>2, FlattenUnfolds
  <2> DEFINE Upto(n) == UNION {ElementsOf(ss[i]) : i \in 1..n}
             Fine(n) == f[n] \in Seq(X) /\ ElementsOf(f[n]) = Upto(n)
             T == {n \in Nat : n \in 1..Len(ss) => Fine(n)}
  <2>2. 0 \in T
    OBVIOUS
  <2>3. ASSUME NEW n \in Nat, n \in T PROVE n + 1 \in T
    <3> SUFFICES ASSUME n + 1 \in 1..Len(ss) PROVE Fine(n + 1)
      OBVIOUS
    <3>1. ss[n + 1] \in Seq(X)
      OBVIOUS
    <3>2. Upto(n + 1) = Upto(n) \cup ElementsOf(ss[n + 1])
      <4>1. 1..(n + 1) = 1..n \cup {n + 1}
        OBVIOUS
      <4> QED
        BY <4>1
    <3>3. CASE n = 0
      <4>1. f[n + 1] = ss[n + 1]
        BY <2>1, <3>3 DEF Concatenates
      <4>2. Upto(0) = {}
        OBVIOUS
      <4> QED
        BY <3>1, <3>2, <3>3, <4>1, <4>2
    <3>4. CASE n # 0
      <4>1. n \in 1..Len(ss) /\ n + 1 # 1 /\ (n + 1) - 1 = n
        BY <1>0, <3>4
      <4>2. f[n + 1] = f[n] \o ss[n + 1]
        BY <2>1, <4>1 DEF Concatenates
      <4>3. f[n] \in Seq(X) /\ ElementsOf(f[n]) = Upto(n)
        BY <2>3, <4>1
      <4> HIDE DEF Upto
      <4>4. /\ f[n] \o ss[n + 1] \in Seq(X)
            /\ ElementsOf(f[n] \o ss[n + 1]) = ElementsOf(f[n]) \cup ElementsOf(ss[n + 1])
        <5>1. \A s, t \in Seq(X) : /\ s \o t \in Seq(X)
                                   /\ ElementsOf(s \o t) = ElementsOf(s) \cup ElementsOf(t)
          BY ElementsJoined
        <5>2. f[n] \in Seq(X)
          BY <4>3
        <5> QED
          BY <3>1, <5>1, <5>2, Zenon
      <4> QED
        BY <3>2, <4>2, <4>3, <4>4, Zenon
    <3> QED
      BY <3>3, <3>4
  <2> HIDE DEF T
  <2>4. Len(ss) \in T
    BY <1>0, <2>2, <2>3, Induction
  <2>5. Fine(Len(ss))
    BY <1>0, <1>2, <2>4 DEF T
  <2> QED
    BY <1>0, <2>1, <2>5
<1> QED
  BY <1>1, <1>2
-----------------------------------------------------------------------------
(* The lists of categories *)

LEMMA CategoryListKept ==
  ASSUME NEW list \in CategoryLists, NEW S
  PROVE  /\ Kept(list, S) \in CategoryLists
         /\ ElementsOf(Kept(list, S)) = ElementsOf(list) \cap S
<1>1. list \in Seq(Categories) /\ Distinct(list)
  BY DEF CategoryLists
<1>2. /\ Kept(list, S) \in Seq(Categories)
      /\ ElementsOf(Kept(list, S)) = ElementsOf(list) \cap S
      /\ Distinct(Kept(list, S))
  BY <1>1, KeptIs
<1> QED
  BY <1>2 DEF CategoryLists

LEMMA SearchableIsList ==
  ASSUME filteredProviders \in CategoryLists, NEW list \in CategoryLists, NEW external
  PROVE  Searchable(list, external) \in CategoryLists
BY CategoryListKept DEF Searchable

LEMMA AppliedIsList ==
  ASSUME filteredProviders \in CategoryLists, NEW c \in Categories
  PROVE  Applied(c) \in CategoryLists
<1> DEFINE others == Kept(filteredProviders, Categories \ {c})
<1>1. /\ others \in CategoryLists
      /\ ElementsOf(others) = ElementsOf(filteredProviders) \cap (Categories \ {c})
  BY CategoryListKept
<1> HIDE DEF others
<1>2. others \in Seq(Categories) /\ Distinct(others) /\ c \notin ElementsOf(others)
  BY <1>1 DEF CategoryLists
<1>3. Append(others, c) \in Seq(Categories) /\ Distinct(Append(others, c))
  BY <1>2, ElementsAppended
<1> QED
  BY <1>3 DEF Applied, CategoryLists, others

-----------------------------------------------------------------------------
(* The rows *)

Row == [category : Categories, index : Nat, partial : BOOLEAN]

(* The rows of the categories of S, as a set. *)
RowSet(S, partial) ==
  {r \in Row : /\ r.partial = partial
               /\ r.category \in ElementsOf(categories) \cap S
               /\ r.index \in DOMAIN searchStates[r.category].entries}

(* The group of rows of the category c. *)
Group(c, partial) == [i \in DOMAIN searchStates[c].entries |->
                        [category |-> c, index |-> i, partial |-> partial]]

LEMMA GroupIs ==
  ASSUME SearchTypeOK, NEW c \in ElementsOf(categories), NEW partial \in BOOLEAN
  PROVE  /\ Group(c, partial) \in Seq(Row)
         /\ ElementsOf(Group(c, partial)) =
              {r \in Row : /\ r.partial = partial /\ r.category = c
                           /\ r.index \in DOMAIN searchStates[c].entries}
<1>1. c \in Categories
  BY DEF SearchTypeOK, ElementsOf, CategoryLists
<1>2. searchStates[c].entries \in Seq(Entry)
  BY DEF SearchTypeOK, CategorySearchState
<1> DEFINE entries == searchStates[c].entries
           row(i) == [category |-> c, index |-> i, partial |-> partial]
<1>3. Len(entries) \in Nat /\ DOMAIN entries = 1..Len(entries)
  BY <1>2
<1>4. Group(c, partial) = [i \in 1..Len(entries) |-> row(i)]
  BY <1>3 DEF Group
<1> HIDE DEF entries
<1>5. \A i \in 1..Len(entries) : row(i) \in Row
  BY <1>1, <1>3 DEF Row
<1>6. Group(c, partial) \in Seq(Row)
  BY <1>3, <1>4, <1>5
<1>7. ElementsOf(Group(c, partial)) = {row(i) : i \in 1..Len(entries)}
  BY <1>4 DEF ElementsOf
<1>8. {row(i) : i \in 1..Len(entries)} =
        {r \in Row : r.partial = partial /\ r.category = c /\ r.index \in DOMAIN entries}
  <2>1. ASSUME NEW r \in Row, r.partial = partial, r.category = c, r.index \in DOMAIN entries
        PROVE  r \in {row(i) : i \in 1..Len(entries)}
    <3>1. r = row(r.index)
      BY <2>1 DEF Row
    <3> QED
      BY <1>3, <2>1, <3>1
  <2>2. ASSUME NEW i \in 1..Len(entries)
        PROVE  /\ row(i) \in Row /\ row(i).partial = partial /\ row(i).category = c
               /\ row(i).index \in DOMAIN entries
    BY <1>3, <1>5
  <2> QED
    BY <2>1, <2>2
<1> QED
  BY <1>6, <1>7, <1>8 DEF entries

LEMMA RowsOfIs ==
  ASSUME SearchTypeOK, NEW S, NEW partial \in BOOLEAN
  PROVE  /\ RowsOf(S, partial) \in Seq(Row)
         /\ ElementsOf(RowsOf(S, partial)) = RowSet(S, partial)
<1> DEFINE group(c) == IF c \in S THEN Group(c, partial) ELSE <<>>
           ss == [g \in DOMAIN categories |-> group(categories[g])]
<1>1. categories \in Seq(Categories)
  BY DEF SearchTypeOK, CategoryLists
<1>2. RowsOf(S, partial) = FlattenSeq(ss)
  BY DEF RowsOf, Group
<1>3. \A c \in ElementsOf(categories) :
        /\ group(c) \in Seq(Row)
        /\ ElementsOf(group(c)) =
             {r \in Row : /\ c \in S /\ r.partial = partial /\ r.category = c
                          /\ r.index \in DOMAIN searchStates[c].entries}
  <2> SUFFICES ASSUME NEW c \in ElementsOf(categories)
               PROVE  /\ group(c) \in Seq(Row)
                      /\ ElementsOf(group(c)) =
                           {r \in Row : /\ c \in S /\ r.partial = partial /\ r.category = c
                                        /\ r.index \in DOMAIN searchStates[c].entries}
    OBVIOUS
  <2>1. CASE c \in S
    BY <2>1, GroupIs
  <2>2. CASE c \notin S
    <3>1. group(c) = <<>>
      BY <2>2
    <3>2. ElementsOf(<<>>) = {} /\ <<>> \in Seq(Row)
      BY DEF ElementsOf
    <3> QED
      BY <2>2, <3>1, <3>2
  <2> QED
    BY <2>1, <2>2
<1> HIDE DEF group
<1>4. \A g \in DOMAIN categories : categories[g] \in ElementsOf(categories)
  BY DEF ElementsOf
<1>5. ss \in Seq(Seq(Row)) /\ DOMAIN ss = DOMAIN categories
  BY <1>1, <1>3, <1>4
<1>6. \A g \in DOMAIN categories : ss[g] = group(categories[g])
  OBVIOUS
<1> HIDE DEF ss
<1>7. /\ FlattenSeq(ss) \in Seq(Row)
      /\ ElementsOf(FlattenSeq(ss)) = UNION {ElementsOf(ss[g]) : g \in DOMAIN ss}
  BY <1>5, FlattenIs
<1>8. UNION {ElementsOf(ss[g]) : g \in DOMAIN ss} = RowSet(S, partial)
  <2>1. ASSUME NEW g \in DOMAIN categories, NEW r \in ElementsOf(ss[g])
        PROVE  r \in RowSet(S, partial)
    BY <1>3, <1>4, <1>6 DEF RowSet
  <2>2. ASSUME NEW r \in RowSet(S, partial)
        PROVE  \E g \in DOMAIN categories : r \in ElementsOf(ss[g])
    <3>1. PICK g \in DOMAIN categories : r.category = categories[g]
      BY <2>2 DEF RowSet, ElementsOf
    <3> QED
      BY <1>3, <1>4, <1>6, <2>2, <3>1 DEF RowSet
  <2> QED
    BY <1>5, <2>1, <2>2
<1> QED
  BY <1>2, <1>7, <1>8

AllRows == IF page = "mobile" THEN {}
           ELSE RowSet(Results \cap Supported, FALSE) \cup RowSet(Results \ Supported, TRUE)

LEMMA RowsAre ==
  SearchTypeOK => NavigableRows \in Seq(Row) /\ ElementsOf(NavigableRows) = AllRows
<1> SUFFICES ASSUME SearchTypeOK
             PROVE  NavigableRows \in Seq(Row) /\ ElementsOf(NavigableRows) = AllRows
  OBVIOUS
<1>1. CASE page = "mobile"
  BY <1>1 DEF NavigableRows, AllRows, ElementsOf
<1>2. CASE page # "mobile"
  <2> DEFINE s == RowsOf(Results \cap Supported, FALSE)
             t == RowsOf(Results \ Supported, TRUE)
  <2>1. s \in Seq(Row) /\ ElementsOf(s) = RowSet(Results \cap Supported, FALSE)
    BY RowsOfIs
  <2>2. t \in Seq(Row) /\ ElementsOf(t) = RowSet(Results \ Supported, TRUE)
    BY RowsOfIs
  <2>3. NavigableRows = s \o t
    BY <1>2 DEF NavigableRows
  <2> HIDE DEF s, t
  <2>4. s \o t \in Seq(Row) /\ ElementsOf(s \o t) = ElementsOf(s) \cup ElementsOf(t)
    <3>1. s \in Seq(Row) /\ t \in Seq(Row)
      BY <2>1, <2>2
    <3>2. \A u, v \in Seq(Row) : /\ u \o v \in Seq(Row)
                                 /\ ElementsOf(u \o v) = ElementsOf(u) \cup ElementsOf(v)
      BY ElementsJoined
    <3> QED
      BY <3>1, <3>2, Zenon
  <2> QED
    BY <1>2, <2>1, <2>2, <2>3, <2>4 DEF AllRows
<1> QED
  BY <1>1, <1>2

-----------------------------------------------------------------------------
(* The highlight *)

(* A change of the rows leaves the highlight on a row. *)
LEMMA FollowKeeps ==
  ASSUME NavigableRows \in Seq(Row), (NavigableRows \in Seq(Row))', HighlightOnRow, FollowRows
  PROVE  HighlightOnRow'
<1> DEFINE next == NavigableRows'
           previous == NavigableRows
           kept == {i \in DOMAIN next : activeIndex + 1 \in DOMAIN previous
                                        /\ next[i] = previous[activeIndex + 1]}
<1>1. activeIndex' = ReconcileActiveIndex(next, previous, activeIndex)
  BY DEF FollowRows
<1>2. /\ Len(next) \in Nat /\ DOMAIN next = 1..Len(next)
      /\ next = <<>> <=> Len(next) = 0
  OBVIOUS
<1>3. /\ next = <<>> => activeIndex' = -1
      /\ (next # <<>> /\ activeIndex + 1 \in DOMAIN previous) =>
            activeIndex' = IF kept = {} THEN 0 ELSE (CHOOSE i \in kept : TRUE) - 1
      /\ (next # <<>> /\ activeIndex + 1 \notin DOMAIN previous) =>
            activeIndex' = IF activeIndex \in 0..(Len(next) - 1) THEN activeIndex ELSE 0
  BY <1>1 DEF ReconcileActiveIndex
<1>4. kept # {} => (CHOOSE i \in kept : TRUE) \in DOMAIN next
  OBVIOUS
<1>5. next # <<>> => activeIndex' \in 0..(Len(next) - 1)
  <2> HIDE DEF kept, next, previous
  <2> QED
    BY <1>2, <1>3, <1>4
<1> QED
  BY <1>3, <1>5 DEF HighlightOnRow

(* A row that is highlighted and still there stays highlighted. *)
LEMMA FollowStays ==
  ASSUME NavigableRows \in Seq(Row), (NavigableRows \in Seq(Row))', HighlightOnRow, FollowRows,
         activeIndex >= 0,
         ElementsOf(NavigableRows) \subseteq ElementsOf(NavigableRows')
  PROVE  /\ activeIndex' >= 0
         /\ NavigableRows'[activeIndex' + 1] = NavigableRows[activeIndex + 1]
<1> DEFINE next == NavigableRows'
           previous == NavigableRows
           kept == {i \in DOMAIN next : activeIndex + 1 \in DOMAIN previous
                                        /\ next[i] = previous[activeIndex + 1]}
<1>1. activeIndex' = ReconcileActiveIndex(next, previous, activeIndex)
  BY DEF FollowRows
<1>2. /\ Len(next) \in Nat /\ DOMAIN next = 1..Len(next)
      /\ Len(previous) \in Nat /\ DOMAIN previous = 1..Len(previous)
  OBVIOUS
<1>3. activeIndex \in Nat /\ activeIndex + 1 \in DOMAIN previous
  BY <1>2 DEF HighlightOnRow
<1>4. PICK i \in DOMAIN next : next[i] = previous[activeIndex + 1]
  <2>1. previous[activeIndex + 1] \in ElementsOf(previous)
    BY <1>3 DEF ElementsOf
  <2>2. previous[activeIndex + 1] \in ElementsOf(next)
    BY <2>1
  <2> QED
    BY <2>2 DEF ElementsOf
<1>5. i \in kept /\ next # <<>>
  BY <1>3, <1>4
<1>6. activeIndex' = (CHOOSE j \in kept : TRUE) - 1
  BY <1>1, <1>3, <1>5 DEF ReconcileActiveIndex
<1>7. (CHOOSE j \in kept : TRUE) \in kept
  BY <1>5
<1> DEFINE chosen == CHOOSE j \in kept : TRUE
<1>8. chosen \in 1..Len(next) /\ next[chosen] = previous[activeIndex + 1]
  BY <1>2, <1>7
<1>9. activeIndex' = chosen - 1
  BY <1>6
<1> HIDE DEF chosen, kept, next
<1>10. activeIndex' >= 0 /\ next[activeIndex' + 1] = previous[activeIndex + 1]
  <2>1. activeIndex' + 1 = chosen /\ activeIndex' >= 0
    BY <1>2, <1>8, <1>9
  <2> QED
    BY <1>8, <2>1
<1> QED
  BY <1>10 DEF next

-----------------------------------------------------------------------------
(* The inductive invariant: ModalTypeOK and the controller's, and that the  *)
(* field is cleared by whatever closes the modal where the header has no    *)
(* search bar of the page beside it.                                        *)

FieldsTyped ==
  /\ page \in Pages
  /\ open \in BOOLEAN
  /\ searchQuery \in Texts
  /\ filteredProviders \in CategoryLists
  /\ contentFilter \in BOOLEAN
  /\ searchExternal \in BOOLEAN
  /\ providers \in CategoryLists
  /\ initialized \in BOOLEAN
  /\ loading \in Nat
  /\ debounced \in Texts \cup {NoFind}
  /\ inputs \in 0..MaxInputs

ClosedFieldEmpty == ~ open /\ page # "local" => searchQuery = Empty

ModalInv == SearchInv /\ FieldsTyped /\ HighlightOnRow /\ ClosedFieldEmpty

(***************************************************************************)
(* The modal drives the controller through its interface only.             *)
(***************************************************************************)
LEMMA FindDrives ==
  ASSUME FieldsTyped, NEW text \in Texts, NEW ready, NEW list \in CategoryLists,
         NEW external, Find(text, ready, Searchable(list, external))
  PROVE  SearchNext \/ UNCHANGED searchVars
<1>1. <<text, contentFilter>> \in Terms
  BY ModalAssumption DEF FieldsTyped
<1>2. Searchable(list, external) \in CategoryLists
  BY SearchableIsList DEF FieldsTyped
<1>3. Search(<<text, contentFilter>>, Searchable(list, external)) \/ UNCHANGED searchVars
  BY DEF Find
<1> QED
  BY <1>1, <1>2, <1>3 DEF SearchNext

LEMMA FindIfTypedDrives ==
  ASSUME FieldsTyped, NEW ready, NEW list \in CategoryLists,
         NEW external, FindIfTyped(ready, Searchable(list, external))
  PROVE  SearchNext \/ UNCHANGED searchVars
<1>1. searchQuery \in Texts
  BY DEF FieldsTyped
<1>2. Find(searchQuery, ready, Searchable(list, external)) \/ UNCHANGED searchVars
  BY DEF FindIfTyped
<1> QED
  BY <1>1, <1>2, FindDrives

LEMMA ProviderLists == Providers \in CategoryLists /\ <<>> \in CategoryLists
BY ModalAssumption DEF CategoryLists, Distinct

LEMMA Drives == ModalInv /\ [Next]_vars => [SearchNext]_searchVars
<1> SUFFICES ASSUME ModalInv, [Next]_vars PROVE SearchNext \/ UNCHANGED searchVars
  OBVIOUS
<1> USE DEF ModalInv
<1>1. ASSUME NEW text \in Texts, TypeOpen(text) \/ TypeClosed(text)
      PROVE  UNCHANGED searchVars
  BY <1>1 DEF TypeOpen, TypeClosed
<1>2. ASSUME OnOpen PROVE SearchNext \/ UNCHANGED searchVars
  <2>1. /\ FindIfTyped(initialized, Searchable(providers, searchExternal))
        /\ providers \in CategoryLists
    BY <1>2 DEF OnOpen, FieldsTyped
  <2> QED
    BY <2>1, FindIfTypedDrives
<1>3. ASSUME NEW text \in Texts, TypeOpens(text)
      PROVE  SearchNext \/ UNCHANGED searchVars
  BY <1>2, <1>3 DEF TypeOpens
<1>4. ASSUME Open PROVE SearchNext \/ UNCHANGED searchVars
  BY <1>2, <1>4 DEF Open
<1>5. ASSUME Close \/ SearchLocally PROVE SearchNext
  BY <1>5 DEF Close, SearchLocally, SearchNext
<1>6. ASSUME DebounceFires PROVE SearchNext \/ UNCHANGED searchVars
  <2>1. debounced \in Texts /\ providers \in CategoryLists
    BY <1>6 DEF DebounceFires, FieldsTyped
  <2>2. Find(debounced, initialized, Searchable(providers, searchExternal))
    BY <1>6 DEF DebounceFires
  <2> QED
    BY <2>1, <2>2, FindDrives
<1>7. ASSUME NEW list \in CategoryLists, ProvidersLoaded(list)
      PROVE  SearchNext \/ UNCHANGED searchVars
  <2>1. FindIfTyped(TRUE, Searchable(list, searchExternal)) \/ UNCHANGED searchVars
    BY <1>7 DEF ProvidersLoaded
  <2> QED
    BY <2>1, FindIfTypedDrives
<1>8. ASSUME LoadEnds PROVE SearchNext \/ UNCHANGED searchVars
  <2>1. LoadFails => UNCHANGED searchVars
    BY DEF LoadFails
  <2> QED
    BY <1>7, <1>8, <2>1, ProviderLists DEF LoadEnds
<1>9. ASSUME NEW c \in Categories, AddProviderFilter(c) \/ RemoveProviderFilter(c)
      PROVE  UNCHANGED searchVars
  BY <1>9 DEF AddProviderFilter, RemoveProviderFilter
<1>10. ASSUME NEW c \in Categories, LoadMoreResultsForProvider(c) PROVE SearchNext
  BY <1>10 DEF LoadMoreResultsForProvider, SearchNext
<1>11. ASSUME ToggleContentFilter PROVE UNCHANGED searchVars
  BY <1>11 DEF ToggleContentFilter
<1>12. ASSUME ToggleExternal PROVE SearchNext \/ UNCHANGED searchVars
  <2>1. /\ FindIfTyped(initialized, Searchable(providers, ~ searchExternal))
        /\ providers \in CategoryLists
    BY <1>12 DEF ToggleExternal, FieldsTyped
  <2> QED
    BY <2>1, FindIfTypedDrives
<1>13. ASSUME NEW d, MoveActive(d) PROVE UNCHANGED searchVars
  BY <1>13 DEF MoveActive
<1>14. ASSUME SettleOne PROVE SearchNext
  BY <1>14 DEF SettleOne, Background, SearchNext
<1>15. ASSUME TimerFires PROVE SearchNext
  BY <1>15 DEF TimerFires, Background, SearchNext
<1>16. ASSUME UNCHANGED vars PROVE UNCHANGED searchVars
  BY <1>16 DEF vars
<1> HIDE DEF ModalInv
<1> QED
  BY <1>1, <1>3, <1>4, <1>5, <1>6, <1>8, <1>9, <1>10, <1>11, <1>12, <1>13, <1>14, <1>15, <1>16
  DEF Next

-----------------------------------------------------------------------------
(* Each part of the invariant is kept *)

LEMMA FieldsStep == ModalInv /\ [Next]_vars => FieldsTyped' /\ ClosedFieldEmpty'
<1> SUFFICES ASSUME ModalInv, [Next]_vars PROVE FieldsTyped' /\ ClosedFieldEmpty'
  OBVIOUS
<1>0. FieldsTyped /\ ClosedFieldEmpty /\ MaxInputs \in Nat /\ Empty \in Texts
  BY ModalAssumption DEF ModalInv
<1> USE DEF FieldsTyped, ClosedFieldEmpty
<1>1. ASSUME NEW text \in Texts, TypeOpen(text) \/ TypeOpens(text) \/ TypeClosed(text)
      PROVE  FieldsTyped' /\ ClosedFieldEmpty'
  <2>1. CASE TypeOpen(text)
    BY <1>0, <2>1 DEF TypeOpen, Input
  <2>2. CASE TypeOpens(text)
    BY <1>0, <2>2 DEF TypeOpens, OnOpen, Input
  <2>3. CASE TypeClosed(text)
    BY <1>0, <2>3 DEF TypeClosed, Input
  <2> QED
    BY <1>1, <2>1, <2>2, <2>3
<1>2. ASSUME Open PROVE FieldsTyped' /\ ClosedFieldEmpty'
  BY <1>0, <1>2 DEF Open, OnOpen, Input
<1>3. ASSUME Close \/ SearchLocally PROVE FieldsTyped' /\ ClosedFieldEmpty'
  BY <1>0, <1>3 DEF Close, SearchLocally
<1>4. ASSUME DebounceFires PROVE FieldsTyped' /\ ClosedFieldEmpty'
  BY <1>0, <1>4 DEF DebounceFires
<1>5. ASSUME LoadEnds PROVE FieldsTyped' /\ ClosedFieldEmpty'
  <2>1. CASE LoadFails
    BY <1>0, <2>1 DEF LoadFails
  <2>2. ASSUME NEW list \in CategoryLists, ProvidersLoaded(list)
        PROVE  FieldsTyped' /\ ClosedFieldEmpty'
    BY <1>0, <2>2 DEF ProvidersLoaded
  <2> QED
    BY <1>5, <2>1, <2>2, ProviderLists DEF LoadEnds
<1>6. ASSUME NEW c \in Categories, AddProviderFilter(c)
      PROVE  FieldsTyped' /\ ClosedFieldEmpty'
  <2>1. filteredProviders' \in CategoryLists
    BY <1>0, <1>6, AppliedIsList DEF AddProviderFilter
  <2> QED
    BY <1>0, <1>6, <2>1 DEF AddProviderFilter, Input
<1>7. ASSUME NEW c \in Categories, RemoveProviderFilter(c)
      PROVE  FieldsTyped' /\ ClosedFieldEmpty'
  <2>1. filteredProviders' \in CategoryLists
    BY <1>0, <1>7, CategoryListKept DEF RemoveProviderFilter
  <2> QED
    BY <1>0, <1>7, <2>1 DEF RemoveProviderFilter
<1>8. ASSUME NEW c \in Categories, LoadMoreResultsForProvider(c)
      PROVE  FieldsTyped' /\ ClosedFieldEmpty'
  BY <1>0, <1>8 DEF LoadMoreResultsForProvider
<1>9. ASSUME ToggleContentFilter PROVE FieldsTyped' /\ ClosedFieldEmpty'
  BY <1>0, <1>9 DEF ToggleContentFilter, Input
<1>10. ASSUME ToggleExternal PROVE FieldsTyped' /\ ClosedFieldEmpty'
  BY <1>0, <1>10 DEF ToggleExternal, Input
<1>11. ASSUME NEW d, MoveActive(d) PROVE FieldsTyped' /\ ClosedFieldEmpty'
  BY <1>0, <1>11 DEF MoveActive
<1>12. ASSUME SettleOne \/ TimerFires PROVE FieldsTyped' /\ ClosedFieldEmpty'
  BY <1>0, <1>12 DEF SettleOne, TimerFires, Background
<1>13. ASSUME UNCHANGED vars PROVE FieldsTyped' /\ ClosedFieldEmpty'
  BY <1>0, <1>13 DEF vars, modalVars
<1> HIDE DEF FieldsTyped, ClosedFieldEmpty
<1> QED
  BY <1>1, <1>2, <1>3, <1>4, <1>5, <1>6, <1>7, <1>8, <1>9, <1>10, <1>11, <1>12, <1>13 DEF Next

(* What the rows are computed from. *)
rowVars == <<searchVars, page, searchQuery, contentFilter>>

LEMMA SameRows == UNCHANGED rowVars => NavigableRows' = NavigableRows
BY DEF rowVars, searchVars, NavigableRows, RowsOf, Results, Supported, Revealed

(* A step moves the highlight after the rows, moves it on the user's        *)
(* behalf, or changes neither the rows nor the highlight.                   *)
LEMMA Followed ==
  [Next]_vars => \/ FollowRows
                 \/ \E d \in {"next", "prev", "first", "last"} : MoveActive(d)
                 \/ UNCHANGED <<rowVars, activeIndex>>
<1> SUFFICES ASSUME [Next]_vars, ~ FollowRows
             PROVE  \/ \E d \in {"next", "prev", "first", "last"} : MoveActive(d)
                    \/ UNCHANGED <<rowVars, activeIndex>>
  OBVIOUS
<1> USE DEF rowVars
<1>1. ASSUME NEW c \in Categories, AddProviderFilter(c) \/ RemoveProviderFilter(c)
      PROVE  UNCHANGED <<rowVars, activeIndex>>
  BY <1>1 DEF AddProviderFilter, RemoveProviderFilter
<1>2. ASSUME LoadFails PROVE UNCHANGED <<rowVars, activeIndex>>
  BY <1>2 DEF LoadFails
<1>3. ASSUME UNCHANGED vars PROVE UNCHANGED <<rowVars, activeIndex>>
  BY <1>3 DEF vars, modalVars
<1>4. \A text \in Texts : ~ (TypeOpen(text) \/ TypeOpens(text) \/ TypeClosed(text))
  BY DEF TypeOpen, TypeOpens, TypeClosed
<1>5. ~ Open /\ ~ Close /\ ~ SearchLocally /\ ~ DebounceFires
  BY DEF Open, Close, SearchLocally, DebounceFires
<1>6. \A list : ~ ProvidersLoaded(list)
  BY DEF ProvidersLoaded
<1>7. \A c \in Categories : ~ LoadMoreResultsForProvider(c)
  BY DEF LoadMoreResultsForProvider
<1>8. ~ ToggleContentFilter /\ ~ ToggleExternal
  BY DEF ToggleContentFilter, ToggleExternal
<1>9. ~ SettleOne /\ ~ TimerFires
  BY DEF SettleOne, TimerFires, Background
<1> QED
  BY <1>1, <1>2, <1>3, <1>4, <1>5, <1>6, <1>7, <1>8, <1>9 DEF Next, LoadEnds

LEMMA RowsTyped == SearchInv => NavigableRows \in Seq(Row) /\ ElementsOf(NavigableRows) = AllRows
BY RowsAre DEF SearchInv

LEMMA HighlightStep ==
  ASSUME ModalInv, SearchInv', [Next]_vars
  PROVE  HighlightOnRow'
<1>1. NavigableRows \in Seq(Row) /\ HighlightOnRow
  BY RowsTyped DEF ModalInv
<1>2. (NavigableRows \in Seq(Row))'
  BY RowsTyped, PTL
<1>3. CASE FollowRows
  BY <1>1, <1>2, <1>3, FollowKeeps
<1>4. ASSUME NEW d \in {"next", "prev", "first", "last"}, MoveActive(d)
      PROVE  HighlightOnRow'
  <2> DEFINE last == Len(NavigableRows) - 1
  <2>1. NavigableRows' = NavigableRows
    BY <1>4, SameRows DEF MoveActive, rowVars
  <2>2. NavigableRows # <<>> /\ last \in Nat /\ activeIndex \in 0..last
    BY <1>1, <1>4 DEF MoveActive, HighlightOnRow
  <2>3. activeIndex' = CASE d = "next" -> IF activeIndex < last THEN activeIndex + 1 ELSE last
                         [] d = "prev" -> IF activeIndex > 0 THEN activeIndex - 1 ELSE 0
                         [] d = "first" -> 0
                         [] d = "last" -> last
    BY <1>4 DEF MoveActive
  <2> HIDE DEF last
  <2>4. activeIndex' \in 0..last
    BY <2>2, <2>3
  <2> QED
    BY <2>1, <2>2, <2>4 DEF HighlightOnRow, last
<1>5. CASE UNCHANGED <<rowVars, activeIndex>>
  <2>1. NavigableRows' = NavigableRows /\ activeIndex' = activeIndex
    BY <1>5, SameRows
  <2> QED
    BY <1>1, <2>1 DEF HighlightOnRow
<1> QED
  BY <1>3, <1>4, <1>5, Followed

LEMMA ModalStep == ModalInv /\ [Next]_vars => ModalInv'
<1> SUFFICES ASSUME ModalInv, [Next]_vars PROVE ModalInv'
  OBVIOUS
<1>1. SearchInv'
  BY Drives, SearchStep DEF ModalInv
<1> QED
  BY <1>1, FieldsStep, HighlightStep DEF ModalInv

LEMMA ModalStart == ModalInit => ModalInv
<1> SUFFICES ASSUME ModalInit PROVE ModalInv
  OBVIOUS
<1>1. SearchInv
  BY InitInv DEF ModalInit
<1>2. FieldsTyped /\ ClosedFieldEmpty
  <2>1. MaxInputs \in Nat /\ Empty \in Texts
    BY ModalAssumption
  <2>2. /\ open \in BOOLEAN /\ contentFilter \in BOOLEAN
        /\ searchExternal \in BOOLEAN /\ initialized \in BOOLEAN
    BY DEF ModalInit
  <2>3. /\ page \in Pages /\ searchQuery = Empty /\ debounced = NoFind
        /\ filteredProviders = <<>> /\ providers = <<>>
        /\ loading = 0 /\ inputs = 0
    BY DEF ModalInit
  <2>4. inputs \in 0..MaxInputs /\ loading \in Nat
    BY <2>1, <2>3
  <2>5. filteredProviders \in CategoryLists /\ providers \in CategoryLists
    BY <2>3, ProviderLists, Zenon
  <2> QED
    BY <2>1, <2>2, <2>3, <2>4, <2>5, Zenon DEF FieldsTyped, ClosedFieldEmpty
<1>3. NavigableRows = <<>>
  <2>1. AllRows = {}
    BY DEF ModalInit, AllRows, RowSet, Results
  <2>2. NavigableRows \in Seq(Row) /\ ElementsOf(NavigableRows) = {}
    BY <1>1, <2>1, RowsTyped
  <2>3. Len(NavigableRows) # 0 => NavigableRows[1] \in ElementsOf(NavigableRows)
    <3>1. Len(NavigableRows) # 0 => 1 \in DOMAIN NavigableRows
      BY <2>2
    <3> QED
      BY <3>1 DEF ElementsOf
  <2> QED
    BY <2>2, <2>3
<1> QED
  BY <1>1, <1>2, <1>3 DEF ModalInv, HighlightOnRow, ModalInit

LEMMA ModalInvariant == ModalSpec => []ModalInv
BY ModalStart, ModalStep, PTL DEF ModalSpec

\* The field, the filters, the providers and the pending calls of the modal
\* and its controller stay well typed, the lists of categories name each
\* once, and the highlight is on a row of the screen, whatever is typed,
\* filtered, loaded and answered in whatever order.
THEOREM ModalTyped == ModalSpec => []ModalTypeOK
<1>1. ModalInv => ModalTypeOK
  BY DEF ModalInv, SearchInv, FieldsTyped, ModalTypeOK
<1> QED
  BY <1>1, ModalInvariant, PTL

(***************************************************************************)
(* The modal is a user of the controller: each of its steps is a call of   *)
(* the controller's interface with a term and a list of categories without *)
(* repetition, a step of the controller itself, or does not touch it.      *)
(***************************************************************************)
THEOREM ModalSearches == ModalSpec => SearchSpec
<1>1. ModalInit => SearchInit
  BY DEF ModalInit
<1>2. ModalInv /\ [Next]_vars => [SearchNext]_searchVars
  BY Drives
<1> QED
  BY <1>1, <1>2, ModalInvariant, PTL DEF ModalSpec, SearchSpec

(***************************************************************************)
(* So what is proved of the controller alone holds in the modal: the       *)
(* answers on screen and held back are of the running search and in order, *)
(* what is awaited comes, only the timer shows answers out of order, and   *)
(* what the reader sees only grows until the next search.                  *)
(***************************************************************************)
THEOREM ModalAnswers ==
  ModalSpec => []AnswersOfQuery /\ []AwaitedComes /\ PriorityRespected /\ ShowsProgressively
BY ModalSearches, OwnAnswers, Awaited, Priority, Progressive

(***************************************************************************)
(* A row on screen stays on screen while the search goes on.               *)
(***************************************************************************)
LEMMA ResultsStay ==
  ASSUME SearchInv, [SearchNext]_searchVars, SearchInv', searchGeneration' = searchGeneration,
         UNCHANGED <<page, searchQuery, contentFilter, categories>>
  PROVE  AllRows \subseteq AllRows'
<1>0. (\A c \in Categories : Len(ShownEntries(c)) \in Nat)'
  BY ShownIsSequence, PTL
<1>1. \A c \in Categories : Len(ShownEntries(c)') >= Len(ShownEntries(c))
  BY ShownStep
<1>2. ASSUME NEW c \in Categories, Revealed(c), searchStates[c].entries # <<>>
      PROVE  /\ Revealed(c)' /\ searchStates'[c].entries # <<>>
             /\ DOMAIN searchStates[c].entries \subseteq DOMAIN searchStates'[c].entries
  <2>1. c \in DOMAIN searchStates /\ ShownEntries(c) = searchStates[c].entries
    BY <1>2 DEF ShownEntries, Revealed
  <2>2. searchStates[c].entries \in Seq(Entry)
    BY <2>1, StateOf DEF CategorySearchState
  <2>3. Len(ShownEntries(c)') > 0 /\ Len(ShownEntries(c)') >= Len(searchStates[c].entries)
    <3>1. Len(ShownEntries(c)') \in Nat
      BY <1>0
    <3>2. Len(searchStates[c].entries) \in Nat /\ Len(searchStates[c].entries) > 0
      BY <1>2, <2>2
    <3>3. Len(ShownEntries(c)') >= Len(searchStates[c].entries)
      BY <1>1, <2>1
    <3> QED
      BY <3>1, <3>2, <3>3
  <2>4. Revealed(c)'
    BY <2>3 DEF ShownEntries
  <2>5. ShownEntries(c)' = searchStates'[c].entries
    BY <2>4 DEF ShownEntries
  <2>6. searchStates'[c].entries \in Seq(Entry)
    <3>1. searchStates' \in [ElementsOf(categories)' -> CategorySearchState]
      BY DEF SearchInv, SearchTypeOK
    <3>2. c \in DOMAIN searchStates'
      BY <2>4 DEF Revealed
    <3> QED
      BY <3>1, <3>2 DEF CategorySearchState
  <2> QED
    BY <2>2, <2>3, <2>4, <2>5, <2>6
<1>3. /\ ElementsOf(categories)' = ElementsOf(categories) /\ Supported' = Supported
      /\ page' = page /\ ElementsOf(categories) \subseteq Categories
  BY DEF ElementsOf, Supported, SearchInv, SearchTypeOK, CategoryLists
<1>4. Results \subseteq Results'
  <2> SUFFICES ASSUME NEW c \in Results PROVE c \in Results'
    OBVIOUS
  <2>1. /\ ~ (searchQuery = Empty \/ searchQuery \in TooShort)
        /\ c \in DOMAIN searchStates /\ Revealed(c) /\ searchStates[c].entries # <<>>
    BY DEF Results
  <2>2. c \in Categories
    BY <2>1, StateOf
  <2>3. Revealed(c)' /\ searchStates'[c].entries # <<>>
    BY <1>2, <2>1, <2>2
  <2> QED
    BY <2>1, <2>3 DEF Results, Revealed
<1>5. \A c \in Results :
        DOMAIN searchStates[c].entries \subseteq DOMAIN searchStates'[c].entries
  <2> SUFFICES ASSUME NEW c \in Results
               PROVE  DOMAIN searchStates[c].entries \subseteq DOMAIN searchStates'[c].entries
    OBVIOUS
  <2>1. c \in DOMAIN searchStates /\ Revealed(c) /\ searchStates[c].entries # <<>>
    BY DEF Results
  <2> QED
    BY <1>2, <2>1, StateOf
<1> QED
  BY <1>3, <1>4, <1>5 DEF AllRows, RowSet

(***************************************************************************)
(* The steps that go on with a search: a further page is asked for, an     *)
(* answer comes, the reveal timer fires.                                   *)
(***************************************************************************)
LEMMA SameSearch ==
  ASSUME ModalInv, [Next]_vars,
         searchStates' # searchStates, searchGeneration' = searchGeneration
  PROVE  FollowRows /\ UNCHANGED <<page, searchQuery, contentFilter, categories>>
<1>1. ~ Reset /\ \A t, cats : ~ Search(t, cats)
  <2>1. searchGeneration \in Nat
    BY DEF ModalInv, SearchInv, SearchTypeOK
  <2>2. searchGeneration' # NextGeneration
    BY <2>1 DEF NextGeneration
  <2> QED
    BY <2>2 DEF Reset, Search
<1>2. ~ UNCHANGED searchVars
  BY DEF searchVars
<1>3. \A text, ready, asked : ~ Find(text, ready, asked) /\ ~ FindIfTyped(ready, asked)
  BY <1>1, <1>2 DEF Find, FindIfTyped
<1>4. \A text \in Texts : ~ (TypeOpen(text) \/ TypeOpens(text) \/ TypeClosed(text))
  BY <1>2, <1>3 DEF TypeOpen, TypeOpens, TypeClosed, OnOpen
<1>5. ~ Open /\ ~ Close /\ ~ SearchLocally /\ ~ DebounceFires
  BY <1>1, <1>3 DEF Open, OnOpen, Close, SearchLocally, DebounceFires
<1>6. ~ LoadEnds
  BY <1>2, <1>3 DEF LoadEnds, ProvidersLoaded, LoadFails
<1>7. \A c \in Categories : ~ AddProviderFilter(c) /\ ~ RemoveProviderFilter(c)
  BY <1>2 DEF AddProviderFilter, RemoveProviderFilter
<1>8. ~ ToggleContentFilter /\ ~ ToggleExternal /\ \A d : ~ MoveActive(d)
  BY <1>2, <1>3 DEF ToggleContentFilter, ToggleExternal, MoveActive
<1>9. ASSUME NEW c \in Categories, LoadMoreResultsForProvider(c)
      PROVE  FollowRows /\ UNCHANGED <<page, searchQuery, contentFilter, categories>>
  BY <1>9 DEF LoadMoreResultsForProvider, LoadMore
<1>10. ASSUME NEW r \in requests, Background(SettleRequest(r))
       PROVE  FollowRows /\ UNCHANGED <<page, searchQuery, contentFilter, categories>>
  BY <1>10 DEF Background, SettleRequest, DropStale, AnswerSearch, FailSearch,
     AnswerMore, FailMore
<1>11. ASSUME TimerFires
       PROVE  FollowRows /\ UNCHANGED <<page, searchQuery, contentFilter, categories>>
  BY <1>11 DEF TimerFires, Background, RevealTimer
<1>12. ~ UNCHANGED vars
  BY <1>2 DEF vars
<1> QED
  BY <1>4, <1>5, <1>6, <1>7, <1>8, <1>9, <1>10, <1>11, <1>12 DEF Next, SettleOne

LEMMA HighlightKept ==
  ASSUME ModalInv, [Next]_vars, ModalInv',
         searchStates' # searchStates, searchGeneration' = searchGeneration, activeIndex >= 0
  PROVE  /\ activeIndex' >= 0
         /\ NavigableRows'[activeIndex' + 1] = NavigableRows[activeIndex + 1]
<1>1. FollowRows /\ UNCHANGED <<page, searchQuery, contentFilter, categories>>
  BY SameSearch
<1>2. AllRows \subseteq AllRows'
  BY <1>1, Drives, ResultsStay DEF ModalInv
<1>3. NavigableRows \in Seq(Row) /\ ElementsOf(NavigableRows) = AllRows /\ HighlightOnRow
  BY RowsTyped DEF ModalInv
<1>4. (NavigableRows \in Seq(Row) /\ ElementsOf(NavigableRows) = AllRows)'
  <2>1. SearchInv'
    BY DEF ModalInv
  <2> QED
    BY <2>1, RowsTyped, PTL
<1>5. ElementsOf(NavigableRows) \subseteq ElementsOf(NavigableRows')
  BY <1>2, <1>3, <1>4 DEF ElementsOf
<1> QED
  BY <1>1, <1>3, <1>4, <1>5, FollowStays

(***************************************************************************)
(* A category that settles, is revealed or loads a further page does not   *)
(* move the highlight off the row the user has selected, wherever its rows *)
(* are inserted and however many categories there are.                     *)
(***************************************************************************)
THEOREM HighlightKeepsRow == ModalSpec => HighlightStays
<1> DEFINE A == (/\ searchStates' # searchStates
                 /\ searchGeneration' = searchGeneration
                 /\ activeIndex >= 0)
                => /\ activeIndex' >= 0
                   /\ NavigableRows'[activeIndex' + 1] = NavigableRows[activeIndex + 1]
<1>1. ModalInv /\ [Next]_vars /\ ModalInv' => A
  BY HighlightKept
<1> QED
  BY <1>1, ModalInvariant, PTL DEF ModalSpec, HighlightStays

-----------------------------------------------------------------------------
(* The closed modal *)

\* The empty field is too short to be searched: min-search-length is one, its
\* default, or more.
EmptyIsTooShort == Empty \in TooShort

LEMMA QuietStep ==
  ASSUME ModalInv, [Next]_vars, ModalInv', EmptyIsTooShort, ClosedIsQuiet
  PROVE  ClosedIsQuiet'
<1> SUFFICES ASSUME ~ open', page' # "local"
             PROVE  categories' = <<>> /\ ~ revealTimer' /\ \A r \in requests' : ~ Current(r)'
  BY DEF ClosedIsQuiet
<1> DEFINE Quiet == categories = <<>> /\ ~ revealTimer /\ \A r \in requests : ~ Current(r)
<1>1. ASSUME Reset PROVE Quiet'
  <2>1. /\ categories' = <<>> /\ ~ revealTimer'
        /\ searchGeneration' = searchGeneration + 1
        /\ requests' \subseteq requests
    BY <1>1 DEF Reset, Late, NextGeneration
  <2>2. /\ searchGeneration \in Nat
        /\ \A r \in requests : r.generation \in Nat /\ r.generation <= searchGeneration
    BY DEF ModalInv, SearchInv, SearchTypeOK, RequestsMatch, Request
  <2> QED
    BY <2>1, <2>2 DEF Current
<1>2. ASSUME UNCHANGED searchVars, Quiet PROVE Quiet'
  BY <1>2 DEF searchVars, Current
<1>3. CASE Close \/ SearchLocally
  BY <1>1, <1>3 DEF Close, SearchLocally
<1>4. ASSUME ~ Close, ~ SearchLocally
      PROVE  ~ open /\ page # "local" /\ UNCHANGED <<open, page>>
  <2>1. ~ \E text \in Texts : TypeOpen(text) \/ TypeOpens(text)
    BY DEF TypeOpen, TypeOpens, OnOpen
  <2>2. ASSUME NEW text \in Texts, TypeClosed(text)
        PROVE  ~ open /\ page # "local" /\ UNCHANGED <<open, page>>
    BY <2>2 DEF TypeClosed
  <2>3. ~ Open
    BY DEF Open, OnOpen
  <2>4. ASSUME DebounceFires \/ LoadEnds
        PROVE  ~ open /\ page # "local" /\ UNCHANGED <<open, page>>
    <3>1. DebounceFires => UNCHANGED <<open, page>>
      BY DEF DebounceFires
    <3>2. \A list : ProvidersLoaded(list) => UNCHANGED <<open, page>>
      BY DEF ProvidersLoaded
    <3>3. LoadFails => UNCHANGED <<open, page>>
      BY DEF LoadFails
    <3> QED
      BY <2>4, <3>1, <3>2, <3>3 DEF LoadEnds
  <2>5. ~ \E c \in Categories : \/ AddProviderFilter(c) \/ RemoveProviderFilter(c)
                                \/ LoadMoreResultsForProvider(c)
    <3>1. \A c : ~ AddProviderFilter(c)
      BY DEF AddProviderFilter
    <3>2. \A c : ~ RemoveProviderFilter(c)
      BY DEF RemoveProviderFilter
    <3>3. \A c : ~ LoadMoreResultsForProvider(c)
      BY DEF LoadMoreResultsForProvider
    <3> QED
      BY <3>1, <3>2, <3>3
  <2>6. ~ ToggleContentFilter /\ ~ ToggleExternal /\ \A d : ~ MoveActive(d)
    BY DEF ToggleContentFilter, ToggleExternal, MoveActive
  <2>7. ASSUME SettleOne \/ TimerFires
        PROVE  ~ open /\ page # "local" /\ UNCHANGED <<open, page>>
    BY <2>7 DEF SettleOne, TimerFires, Background
  <2>8. ASSUME UNCHANGED vars
        PROVE  ~ open /\ page # "local" /\ UNCHANGED <<open, page>>
    BY <2>8 DEF vars, modalVars
  <2> QED
    BY <1>4, <2>1, <2>2, <2>3, <2>4, <2>5, <2>6, <2>7, <2>8 DEF Next
<1>5. ASSUME ~ Close, ~ SearchLocally PROVE Quiet'
  <2>1. ~ open /\ page # "local" /\ Quiet /\ searchQuery = Empty
    BY <1>4, <1>5 DEF ClosedIsQuiet, ModalInv, ClosedFieldEmpty
  <2>2. \A text, ready, asked : Find(text, ready, asked) => UNCHANGED searchVars
    BY <2>1 DEF Find, EmptyIsTooShort
  <2>3. ASSUME NEW text \in Texts, TypeOpen(text) \/ TypeOpens(text) \/ TypeClosed(text)
        PROVE  UNCHANGED searchVars
    BY <2>1, <2>3, <1>4, <1>5 DEF TypeOpen, TypeOpens, TypeClosed, OnOpen
  <2>4. ~ Open
    BY DEF Open, OnOpen
  <2>5. ASSUME DebounceFires \/ LoadEnds PROVE UNCHANGED searchVars
    BY <2>1, <2>2, <2>5 DEF DebounceFires, LoadEnds, ProvidersLoaded, LoadFails
  <2>6. ~ \E c \in Categories : \/ AddProviderFilter(c) \/ RemoveProviderFilter(c)
                                \/ LoadMoreResultsForProvider(c)
    BY <2>1 DEF AddProviderFilter, RemoveProviderFilter, LoadMoreResultsForProvider
  <2>7. ~ ToggleContentFilter /\ ~ ToggleExternal /\ \A d : ~ MoveActive(d)
    BY <2>1 DEF ToggleContentFilter, ToggleExternal, MoveActive
  <2>8. ASSUME NEW r \in requests, Background(SettleRequest(r)) PROVE Quiet'
    <3>1. ~ Current(r)
      BY <2>1
    <3>2. DropStale(r)
      BY <2>8, <3>1 DEF Background, SettleRequest, AnswerSearch, FailSearch,
         AnswerMore, FailMore
    <3> QED
      BY <2>1, <3>2 DEF DropStale, Settle, Current
  <2>9. ~ TimerFires
    BY <2>1 DEF TimerFires, Background, RevealTimer
  <2>10. UNCHANGED vars => UNCHANGED searchVars
    BY DEF vars
  <2>11. UNCHANGED searchVars \/ Quiet'
    <3> HIDE DEF Quiet
    <3> QED
      BY <1>5, <2>3, <2>4, <2>5, <2>6, <2>7, <2>8, <2>9, <2>10 DEF Next, SettleOne
  <2> QED
    BY <1>2, <2>1, <2>11
<1> QED
  BY <1>3, <1>5

(***************************************************************************)
(* A hidden modal fires no searches and keeps no results, although a       *)
(* debounced search or a load of the providers may end after it has been   *)
(* closed.  That the empty field is too short is needed: with a            *)
(* min-search-length of 0 the debounced search of the text that closing    *)
(* has cleared passes the guard of find and runs in the hidden modal.      *)
(***************************************************************************)
THEOREM ClosedStaysQuiet ==
  ASSUME EmptyIsTooShort
  PROVE  ModalSpec => []ClosedIsQuiet
<1>1. ModalInit => ClosedIsQuiet
  BY DEF ModalInit, SearchInit, ClosedIsQuiet
<1>2. ModalInv /\ [Next]_vars /\ ModalInv' /\ ClosedIsQuiet => ClosedIsQuiet'
  BY QuietStep
<1> QED
  BY <1>1, <1>2, ModalInvariant, PTL DEF ModalSpec
=============================================================================
