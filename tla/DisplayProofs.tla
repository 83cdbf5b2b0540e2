--------------------------- MODULE DisplayProofs ----------------------------
(***************************************************************************)
(* Theorems about what is on the screen: the tiles that partial updates    *)
(* repaint (FrameDamage), the part of a scroll view that is visible        *)
(* (ScrollView), the window of the on-screen keyboard (OnScreenKeyboard),  *)
(* and the focus that a key moves (SpatialNavigation).                     *)
(*                                                                         *)
(* The first two sections are about recursions over the natural numbers    *)
(* and about lists of rectangles; what a recursion computes is proved by   *)
(* induction over the list.  Then come the four state machines.            *)
(***************************************************************************)
EXTENDS FrameDamage, ScrollView, OnScreenKeyboard, SpatialNavigation, SequenceTheorems,
        FiniteSetTheorems, WellFoundedInduction, TLAPS

-----------------------------------------------------------------------------
(* Induction over the natural numbers, as a fact about sets of them, and   *)
(* the functions that a recursion over them defines.                       *)

\* A set that holds 0 and the successor of each of its numbers holds them all.
LEMMA Induction ==
  ASSUME NEW P, 0 \in P, \A n \in Nat : n \in P => n + 1 \in P
  PROVE  Nat \subseteq P
<1> DEFINE R == {p \in Nat \X Nat : p[1] < p[2]}
<1> SUFFICES ASSUME Nat \ P # {} PROVE FALSE
  OBVIOUS
<1>1. IsWellFoundedOn(R, Nat)
  BY NatLessThanWellFounded DEF OpToRel
<1>2. PICK x \in Nat \ P : \A y \in Nat \ P : <<y, x>> \notin R
  <2>1. Nat \ P \subseteq Nat
    OBVIOUS
  <2> QED BY <1>1, <2>1, WFMin
<1>3. x # 0 /\ x \in Nat
  BY <1>2
<1>4. x - 1 \in Nat /\ x - 1 < x /\ (x - 1) + 1 = x
  BY <1>3
<1>5. x - 1 \in P
  BY <1>2, <1>4
<1> QED BY <1>2, <1>4, <1>5

\* f is the recursion that starts with s and whose n-th step is F[<<n, _>>].
IsRecursion(f, m, S, s, F) ==
  f \in [0..m -> S] /\ f[0] = s /\ \A n \in 1..m : f[n] = F[<<n, f[n - 1]>>]

\* A recursion over 0..m has a solution.
LEMMA Recursion ==
  ASSUME NEW m \in Nat, NEW S, NEW s \in S, NEW F \in [(1..m) \X S -> S]
  PROVE  \E f : IsRecursion(f, m, S, s, F)
<1> DEFINE Solves(f, k) == f[0] = s /\ \A n \in 1..k : f[n] = F[<<n, f[n - 1]>>]
           P == {k \in Nat : k <= m => \E f \in [0..k -> S] : Solves(f, k)}
<1>1. 0 \in P
  <2>1. [i \in 0..0 |-> s] \in [0..0 -> S] /\ Solves([i \in 0..0 |-> s], 0)
    OBVIOUS
  <2> QED BY <2>1
<1>2. ASSUME NEW k \in Nat, k \in P PROVE k + 1 \in P
  <2> SUFFICES ASSUME k + 1 <= m PROVE \E g \in [0..(k + 1) -> S] : Solves(g, k + 1)
    OBVIOUS
  <2>1. PICK f \in [0..k -> S] : Solves(f, k)
    BY <1>2
  <2> DEFINE g == [i \in 0..(k + 1) |-> IF i = k + 1 THEN F[<<k + 1, f[k]>>] ELSE f[i]]
  <2>2. f[k] \in S /\ k + 1 \in 1..m
    BY <2>1
  <2>3. F[<<k + 1, f[k]>>] \in S
    BY <2>2
  <2>4. g \in [0..(k + 1) -> S]
    BY <2>1, <2>3
  <2>5. Solves(g, k + 1)
    <3>1. g[0] = s
      BY <2>1
    <3>2. ASSUME NEW n \in 1..(k + 1) PROVE g[n] = F[<<n, g[n - 1]>>]
      <4>1. CASE n = k + 1
        <5>1. n - 1 = k /\ k \in 0..(k + 1) /\ k # k + 1 /\ k + 1 \in 0..(k + 1)
          BY <4>1
        <5>2. g[k] = f[k] /\ g[k + 1] = F[<<k + 1, f[k]>>]
          BY <5>1
        <5> QED BY <4>1, <5>1, <5>2
      <4>2. CASE n # k + 1
        <5>1. n \in 1..k /\ n - 1 \in 0..k
          BY <4>2
        <5>2. g[n] = f[n] /\ g[n - 1] = f[n - 1]
          BY <4>2, <5>1
        <5> QED BY <2>1, <5>1, <5>2
      <4> QED BY <4>1, <4>2
    <3> QED BY <3>1, <3>2
  <2> QED BY <2>4, <2>5
<1> HIDE DEF P
<1>3. m \in P
  BY <1>1, <1>2, Induction
<1> QED BY <1>3 DEF P, IsRecursion

-----------------------------------------------------------------------------
(* Lists of rectangles.                                                    *)

\* No rectangle of a list contains another one.
Minimal(rects) ==
  \A i, j \in DOMAIN rects : RectContains(rects[i], rects[j]) => i = j

\* What Check 1 of addDamageRect leaves: the rectangles that the new one does
\* not cover, and no others.
LEMMA UncoveredRects ==
  ASSUME NEW rects \in Seq(Rect), NEW r \in Rect
  PROVE  /\ Uncovered(rects, r) \in Seq(Rect)
         /\ \A i \in DOMAIN Uncovered(rects, r) :
              ~RectStrictlyContains(r, Uncovered(rects, r)[i])
              /\ \E j \in DOMAIN rects : Uncovered(rects, r)[i] = rects[j]
         /\ \A j \in DOMAIN rects :
              RectStrictlyContains(r, rects[j])
              \/ \E i \in DOMAIN Uncovered(rects, r) : Uncovered(rects, r)[i] = rects[j]
         /\ Minimal(rects) => Minimal(Uncovered(rects, r))
<1> DEFINE m == Len(rects)
           Turn(k, n) == IF RectStrictlyContains(r, rects[n]) THEN k ELSE Append(k, rects[n])
           F == [p \in (1..m) \X Seq(Rect) |-> Turn(p[2], p[1])]
           kept[n \in 0..m] ==
             IF n = 0 THEN <<>>
             ELSE IF RectStrictlyContains(r, rects[n]) THEN kept[n - 1]
             ELSE Append(kept[n - 1], rects[n])
<1>1. m \in Nat /\ DOMAIN rects = 1..m /\ \A n \in 1..m : rects[n] \in Rect
  BY LenProperties
<1>2. Uncovered(rects, r) = kept[m]
  BY DEF Uncovered
<1>3. \E f \in [0..m -> Seq(Rect)] : f = [n \in 0..m |->
             IF n = 0 THEN <<>>
             ELSE IF RectStrictlyContains(r, rects[n]) THEN f[n - 1]
             ELSE Append(f[n - 1], rects[n])]
  <2> HIDE DEF kept, m
  <2>1. F \in [(1..m) \X Seq(Rect) -> Seq(Rect)]
    <3>1. ASSUME NEW n \in 1..m, NEW k \in Seq(Rect) PROVE Turn(k, n) \in Seq(Rect)
      BY <1>1, AppendProperties
    <3> QED BY <3>1
  <2>2. <<>> \in Seq(Rect)
    BY EmptySeq
  <2>3. PICK f : IsRecursion(f, m, Seq(Rect), <<>>, F)
    <3> HIDE DEF F
    <3> QED BY <1>1, <2>1, <2>2, Recursion
  <2>4. ASSUME NEW n \in 1..m PROVE f[n] = Turn(f[n - 1], n)
    <3>1. n - 1 \in 0..m
      BY <1>1
    <3>2. f[n - 1] \in Seq(Rect)
      BY <2>3, <3>1 DEF IsRecursion
    <3>3. F[<<n, f[n - 1]>>] = Turn(f[n - 1], n)
      BY <3>2
    <3> QED BY <2>3, <3>3 DEF IsRecursion
  <2> HIDE DEF F
  <2>5. f \in [0..m -> Seq(Rect)] /\ f = [n \in 0..m |-> f[n]]
    BY <2>3 DEF IsRecursion
  <2>6. ASSUME NEW n \in 0..m
        PROVE  f[n] = IF n = 0 THEN <<>>
                      ELSE IF RectStrictlyContains(r, rects[n]) THEN f[n - 1]
                      ELSE Append(f[n - 1], rects[n])
    <3>1. CASE n = 0
      BY <2>3, <3>1 DEF IsRecursion
    <3>2. CASE n # 0
      <4>1. n \in 1..m
        BY <1>1, <3>2
      <4> QED BY <2>4, <3>2, <4>1
    <3> QED BY <3>1, <3>2
  <2> QED BY <2>5, <2>6, Zenon
<1>4. kept = [n \in 0..m |->
             IF n = 0 THEN <<>>
             ELSE IF RectStrictlyContains(r, rects[n]) THEN kept[n - 1]
             ELSE Append(kept[n - 1], rects[n])]
  BY <1>3, Zenon DEF kept
<1> HIDE DEF kept
<1>5. kept[0] = <<>> /\ \A n \in 1..m : kept[n] = Turn(kept[n - 1], n)
  <2> HIDE DEF m
  <2>1. 0 \in 0..m /\ \A n \in 1..m : n \in 0..m /\ n # 0
    BY <1>1
  <2> QED BY <1>4, <2>1, Zenon
<1> DEFINE Correct(k, n) ==
             /\ k \in Seq(Rect)
             /\ \A i \in DOMAIN k :
                  ~RectStrictlyContains(r, k[i]) /\ \E j \in 1..n : k[i] = rects[j]
             /\ \A j \in 1..n : RectStrictlyContains(r, rects[j]) \/ \E i \in DOMAIN k : k[i] = rects[j]
             /\ Minimal(rects) => Minimal(k)
<1>6. Correct(<<>>, 0)
  <2>1. <<>> \in Seq(Rect) /\ DOMAIN <<>> = {}
    BY EmptySeq
  <2> QED BY <2>1 DEF Minimal
<1>7. ASSUME NEW n \in 1..m, NEW k, Correct(k, n - 1)
      PROVE  Correct(Turn(k, n), n)
  <2>1. n - 1 \in Nat /\ n \in 1..n /\ \A j \in 1..n : j = n \/ j \in 1..(n - 1)
    BY <1>1
  <2>2. \A j \in 1..(n - 1) : j \in 1..n /\ j # n /\ j \in DOMAIN rects
    BY <1>1
  <2>3. CASE RectStrictlyContains(r, rects[n])
    BY <1>7, <2>1, <2>2, <2>3, Zenon
  <2>4. CASE ~RectStrictlyContains(r, rects[n])
    <3> DEFINE a == Append(k, rects[n])
    <3>1. /\ a \in Seq(Rect) /\ DOMAIN a = DOMAIN k \cup {Len(k) + 1}
          /\ Len(k) + 1 \notin DOMAIN k /\ a[Len(k) + 1] = rects[n]
          /\ \A i \in DOMAIN k : a[i] = k[i]
      <4>1. k \in Seq(Rect) /\ rects[n] \in Rect
        BY <1>1, <1>7
      <4>2. Len(k) \in Nat /\ DOMAIN k = 1..Len(k)
        BY <4>1, LenProperties
      <4>3. /\ a \in Seq(Rect) /\ Len(a) = Len(k) + 1 /\ a[Len(k) + 1] = rects[n]
            /\ \A i \in 1..Len(k) : a[i] = k[i]
        BY <4>1, AppendProperties
      <4>4. DOMAIN a = 1..(Len(k) + 1)
        BY <4>3, LenProperties
      <4> HIDE DEF a
      <4> QED BY <4>2, <4>3, <4>4
    <3>2. Turn(k, n) = a
      BY <2>4
    <3> HIDE DEF a
    <3> DEFINE l == Len(k) + 1
    <3> HIDE DEF l
    <3>3. \A i \in DOMAIN a : (i = l /\ a[i] = rects[n]) \/ (i \in DOMAIN k /\ i # l /\ a[i] = k[i])
      BY <3>1, Zenon DEF l
    <3>4. l \in DOMAIN a /\ a[l] = rects[n] /\ \A i \in DOMAIN k : i \in DOMAIN a /\ a[i] = k[i]
      BY <3>1, Zenon DEF l
    <3>5. \A i \in DOMAIN a : ~RectStrictlyContains(r, a[i]) /\ \E j \in 1..n : a[i] = rects[j]
      BY <1>7, <2>1, <2>2, <2>4, <3>3, Zenon
    <3>6. \A j \in 1..n : RectStrictlyContains(r, rects[j]) \/ \E i \in DOMAIN a : a[i] = rects[j]
      BY <1>7, <2>1, <2>4, <3>4, Zenon
    <3>7. ASSUME Minimal(rects) PROVE Minimal(a)
      <4>1. Minimal(k) /\ n \in DOMAIN rects
        BY <1>1, <1>7, <3>7
      <4>2. \A i \in DOMAIN k : ~RectContains(k[i], rects[n]) /\ ~RectContains(rects[n], k[i])
        BY <1>7, <2>2, <3>7, <4>1, Zenon DEF Minimal
      <4> QED BY <3>3, <4>1, <4>2, Zenon DEF Minimal
    <3> QED BY <3>1, <3>2, <3>5, <3>6, <3>7, Zenon
  <2> QED BY <2>3, <2>4
<1> HIDE DEF Correct, Turn
<1>8. \A n \in 0..m : Correct(kept[n], n)
  <2> DEFINE P == {n \in Nat : n <= m => Correct(kept[n], n)}
  <2> HIDE DEF m
  <2>1. 0 \in P
    BY <1>5, <1>6
  <2>2. ASSUME NEW n \in Nat, n \in P PROVE n + 1 \in P
    <3> SUFFICES ASSUME n + 1 <= m PROVE Correct(kept[n + 1], n + 1)
      OBVIOUS
    <3>1. n + 1 \in 1..m /\ (n + 1) - 1 = n /\ n <= m
      BY <1>1
    <3>2. Correct(kept[n], n)
      BY <2>2, <3>1
    <3>3. kept[n + 1] = Turn(kept[n], n + 1)
      BY <1>5, <3>1
    <3> QED BY <1>7, <3>1, <3>2, <3>3
  <2> HIDE DEF P
  <2>3. Nat \subseteq P
    BY <2>1, <2>2, Induction
  <2> QED BY <1>1, <2>3 DEF P
<1>9. Correct(kept[m], m)
  <2> HIDE DEF m
  <2> QED BY <1>1, <1>8
<1> QED BY <1>1, <1>2, <1>9, Zenon DEF Correct

\* Layer::addDamageRect covers what it did and the new rectangle, and keeps a
\* minimal list minimal: it may return early at a rectangle that contains the
\* new one only if it has erased nothing before, and if it has, no rectangle
\* behind it contains the new one, or it would contain the erased one as well.
LEMMA AddedRect ==
  ASSUME NEW rects \in Seq(Rect), NEW r \in Rect
  PROVE  /\ AddDamageRect(rects, r) \in Seq(Rect)
         /\ Covered(AddDamageRect(rects, r)) = Covered(rects) \cup r
         /\ Minimal(rects) => Minimal(AddDamageRect(rects, r))
<1> DEFINE Found == \E i \in DOMAIN rects :
             /\ RectContains(rects[i], r)
             /\ \A j \in 1..(i - 1) : ~RectStrictlyContains(r, rects[j])
           u == Uncovered(rects, r)
           a == Append(u, r)
<1>1. CASE Found
  <2>1. AddDamageRect(rects, r) = rects
    BY <1>1, Zenon DEF AddDamageRect
  <2>2. r \subseteq Covered(rects)
    BY <1>1 DEF Covered, RectContains
  <2> QED BY <2>1, <2>2
<1>2. CASE ~Found
  <2>1. AddDamageRect(rects, r) = a
    BY <1>2, Zenon DEF AddDamageRect
  <2>2. /\ u \in Seq(Rect)
        /\ \A i \in DOMAIN u :
             ~RectStrictlyContains(r, u[i]) /\ \E j \in DOMAIN rects : u[i] = rects[j]
        /\ \A j \in DOMAIN rects :
             RectStrictlyContains(r, rects[j]) \/ \E i \in DOMAIN u : u[i] = rects[j]
        /\ Minimal(rects) => Minimal(u)
    BY UncoveredRects
  <2> HIDE DEF u
  <2> DEFINE l == Len(u) + 1
  <2>3. /\ a \in Seq(Rect)
        /\ l \in DOMAIN a /\ a[l] = r /\ \A i \in DOMAIN u : i \in DOMAIN a /\ a[i] = u[i]
        /\ \A i \in DOMAIN a : (i = l /\ a[i] = r) \/ (i \in DOMAIN u /\ i # l /\ a[i] = u[i])
    <3>1. Len(u) \in Nat /\ DOMAIN u = 1..Len(u)
      BY <2>2, LenProperties
    <3>2. a \in Seq(Rect) /\ Len(a) = Len(u) + 1 /\ a[Len(u) + 1] = r /\ \A i \in 1..Len(u) : a[i] = u[i]
      BY <2>2, AppendProperties
    <3>3. DOMAIN a = 1..(Len(u) + 1)
      BY <3>2, LenProperties
    <3> HIDE DEF a
    <3> QED BY <3>1, <3>2, <3>3
  <2> HIDE DEF a, l
  <2>4. Covered(a) = Covered(rects) \cup r
    <3>1. ASSUME NEW x \in Covered(a) PROVE x \in Covered(rects) \cup r
      <4>1. PICK i \in DOMAIN a : x \in a[i]
        BY <3>1 DEF Covered
      <4>2. a[i] = r \/ \E j \in DOMAIN rects : a[i] = rects[j]
        BY <2>2, <2>3, Zenon
      <4> QED BY <4>1, <4>2 DEF Covered
    <3>2. ASSUME NEW x \in Covered(rects) PROVE x \in Covered(a)
      <4>1. PICK j \in DOMAIN rects : x \in rects[j]
        BY <3>2 DEF Covered
      <4>2. CASE RectStrictlyContains(r, rects[j])
        <5>1. x \in r
          BY <4>1, <4>2 DEF RectStrictlyContains, RectContains
        <5> QED BY <5>1, <2>3 DEF Covered
      <4>3. CASE ~RectStrictlyContains(r, rects[j])
        <5>1. PICK i \in DOMAIN u : u[i] = rects[j]
          BY <2>2, <4>3
        <5>2. i \in DOMAIN a /\ a[i] = rects[j]
          BY <2>3, <5>1
        <5> QED BY <4>1, <5>2 DEF Covered
      <4> QED BY <4>2, <4>3
    <3>3. r \subseteq Covered(a)
      BY <2>3 DEF Covered
    <3> QED BY <3>1, <3>2, <3>3
  <2>5. ASSUME Minimal(rects) PROVE Minimal(a)
    <3>1. ASSUME NEW i \in DOMAIN u, RectContains(u[i], r) PROVE FALSE
      <4>1. PICK j \in DOMAIN rects : u[i] = rects[j]
        BY <2>2
      <4>2. PICK k \in 1..(j - 1) : RectStrictlyContains(r, rects[k])
        BY <1>2, <3>1, <4>1, Zenon
      <4>3. k \in DOMAIN rects /\ k # j
        <5>1. Len(rects) \in Nat /\ DOMAIN rects = 1..Len(rects)
          BY LenProperties
        <5> HIDE DEF Found
        <5> QED BY <4>1, <4>2, <5>1
      <4>4. RectContains(rects[j], rects[k])
        BY <3>1, <4>1, <4>2, Zenon DEF RectContains, RectStrictlyContains
      <4> QED BY <2>5, <4>3, <4>4 DEF Minimal
    <3>2. ASSUME NEW i \in DOMAIN u PROVE ~RectContains(u[i], r) /\ ~RectContains(r, u[i])
      <4>1. ~RectContains(u[i], r)
        BY <3>1
      <4>2. ~RectStrictlyContains(r, u[i])
        BY <2>2
      <4> QED BY <4>1, <4>2, Zenon DEF RectStrictlyContains
    <3>3. Minimal(u)
      BY <2>2, <2>5
    <3> QED BY <2>3, <3>2, <3>3, Zenon DEF Minimal
  <2> QED BY <2>1, <2>3, <2>4, <2>5
<1> QED BY <1>1, <1>2

\* A list of rectangles added one by one, as prePaint does for the layers of a
\* tree and beginClip for the damage of an earlier frame.
LEMMA AddedRects ==
  ASSUME NEW rects \in Seq(Rect), NEW more \in Seq(Rect)
  PROVE  /\ AddDamageRects(rects, more) \in Seq(Rect)
         /\ Covered(AddDamageRects(rects, more)) = Covered(rects) \cup Covered(more)
         /\ Minimal(rects) => Minimal(AddDamageRects(rects, more))
<1> DEFINE m == Len(more)
           F == [p \in (1..m) \X Seq(Rect) |-> AddDamageRect(p[2], more[p[1]])]
           added[n \in 0..m] ==
             IF n = 0 THEN rects ELSE AddDamageRect(added[n - 1], more[n])
<1>1. m \in Nat /\ DOMAIN more = 1..m /\ \A n \in 1..m : more[n] \in Rect
  BY LenProperties
<1>2. AddDamageRects(rects, more) = added[m]
  BY DEF AddDamageRects
<1>3. \E f \in [0..m -> Seq(Rect)] : f = [n \in 0..m |->
             IF n = 0 THEN rects ELSE AddDamageRect(f[n - 1], more[n])]
  <2> HIDE DEF added, m
  <2>1. F \in [(1..m) \X Seq(Rect) -> Seq(Rect)]
    <3>1. ASSUME NEW n \in 1..m, NEW k \in Seq(Rect) PROVE AddDamageRect(k, more[n]) \in Seq(Rect)
      BY <1>1, AddedRect
    <3> QED BY <3>1
  <2>2. PICK f : IsRecursion(f, m, Seq(Rect), rects, F)
    <3> HIDE DEF F
    <3> QED BY <1>1, <2>1, Recursion
  <2>3. ASSUME NEW n \in 1..m PROVE f[n] = AddDamageRect(f[n - 1], more[n])
    <3>1. n - 1 \in 0..m
      BY <1>1
    <3>2. f[n - 1] \in Seq(Rect)
      BY <2>2, <3>1 DEF IsRecursion
    <3>3. F[<<n, f[n - 1]>>] = AddDamageRect(f[n - 1], more[n])
      BY <3>2
    <3> QED BY <2>2, <3>3 DEF IsRecursion
  <2> HIDE DEF F
  <2>4. f \in [0..m -> Seq(Rect)] /\ f = [n \in 0..m |-> f[n]]
    BY <2>2 DEF IsRecursion
  <2>5. ASSUME NEW n \in 0..m
        PROVE  f[n] = IF n = 0 THEN rects ELSE AddDamageRect(f[n - 1], more[n])
    <3>1. CASE n = 0
      BY <2>2, <3>1 DEF IsRecursion
    <3>2. CASE n # 0
      <4>1. n \in 1..m
        BY <1>1, <3>2
      <4> QED BY <2>3, <3>2, <4>1
    <3> QED BY <3>1, <3>2
  <2> QED BY <2>4, <2>5, Zenon
<1>4. added = [n \in 0..m |-> IF n = 0 THEN rects ELSE AddDamageRect(added[n - 1], more[n])]
  BY <1>3, Zenon DEF added
<1> HIDE DEF added
<1>5. added[0] = rects /\ \A n \in 1..m : added[n] = AddDamageRect(added[n - 1], more[n])
  <2> HIDE DEF m
  <2>1. 0 \in 0..m /\ \A n \in 1..m : n \in 0..m /\ n # 0
    BY <1>1
  <2> QED BY <1>4, <2>1, Zenon
<1> DEFINE Correct(k, n) ==
             /\ k \in Seq(Rect)
             /\ \A x : x \in Covered(k) <=> x \in Covered(rects) \/ \E j \in 1..n : x \in more[j]
             /\ Minimal(rects) => Minimal(k)
           P == {n \in Nat : n <= m => Correct(added[n], n)}
<1>6. Correct(rects, 0)
  OBVIOUS
<1>7. ASSUME NEW n \in 1..m, NEW k, Correct(k, n - 1)
      PROVE  Correct(AddDamageRect(k, more[n]), n)
  <2>1. \A j : j \in 1..n <=> j = n \/ j \in 1..(n - 1)
    BY <1>1
  <2>2. k \in Seq(Rect) /\ more[n] \in Rect
    BY <1>1, <1>7
  <2>3. /\ AddDamageRect(k, more[n]) \in Seq(Rect)
        /\ Covered(AddDamageRect(k, more[n])) = Covered(k) \cup more[n]
        /\ Minimal(k) => Minimal(AddDamageRect(k, more[n]))
    BY <2>2, AddedRect
  <2>4. ASSUME NEW x
        PROVE  x \in Covered(AddDamageRect(k, more[n]))
                 <=> x \in Covered(rects) \/ \E j \in 1..n : x \in more[j]
    <3>1. x \in Covered(AddDamageRect(k, more[n])) <=> x \in Covered(k) \/ x \in more[n]
      BY <2>3
    <3>2. x \in Covered(k) <=> x \in Covered(rects) \/ \E j \in 1..(n - 1) : x \in more[j]
      BY <1>7
    <3> QED BY <2>1, <3>1, <3>2, Zenon
  <2> QED BY <1>7, <2>3, <2>4
<1> HIDE DEF Correct
<1>8. 0 \in P
  BY <1>5, <1>6
<1>9. ASSUME NEW n \in Nat, n \in P PROVE n + 1 \in P
  <2> HIDE DEF m
  <2> SUFFICES ASSUME n + 1 <= m PROVE Correct(added[n + 1], n + 1)
    OBVIOUS
  <2>1. n + 1 \in 1..m /\ (n + 1) - 1 = n /\ n <= m
    BY <1>1
  <2>2. Correct(added[n], n)
    BY <1>9, <2>1
  <2>3. added[n + 1] = AddDamageRect(added[n], more[n + 1])
    BY <1>5, <2>1
  <2> QED BY <1>7, <2>1, <2>2, <2>3
<1>10. m \in P
  <2> HIDE DEF P, m
  <2> QED BY <1>1, <1>8, <1>9, Induction
<1>11. Correct(added[m], m)
  BY <1>10
<1>12. \A x : x \in Covered(more) <=> \E j \in 1..m : x \in more[j]
  <2> HIDE DEF m
  <2> QED BY <1>1 DEF Covered
<1> HIDE DEF m, P
<1>13. Covered(added[m]) = Covered(rects) \cup Covered(more)
  BY <1>11, <1>12 DEF Correct
<1> QED BY <1>2, <1>11, <1>13 DEF Correct

\* beginClip() repaints the damage of this frame and that of the m frames
\* before it.
LEMMA MissedCovered ==
  ASSUME history \in Seq(Seq(Rect)), NEW damage \in Seq(Rect), NEW m \in 0..Len(history)
  PROVE  /\ WithMissed(damage, m) \in Seq(Rect)
         /\ \A x : x \in Covered(WithMissed(damage, m)) <=>
                     \/ x \in Covered(damage)
                     \/ \E n \in 1..m : x \in Covered(history[Len(history) + 1 - n])
<1> DEFINE earlier(n) == history[Len(history) + 1 - n]
           F == [p \in (1..m) \X Seq(Rect) |-> AddDamageRects(p[2], earlier(p[1]))]
           added[n \in 0..m] ==
             IF n = 0 THEN damage ELSE AddDamageRects(added[n - 1], earlier(n))
<1>1. m \in Nat /\ \A n \in 1..m : earlier(n) \in Seq(Rect)
  <2>1. Len(history) \in Nat /\ \A k \in 1..Len(history) : history[k] \in Seq(Rect)
    BY LenProperties
  <2>2. \A n \in 1..m : Len(history) + 1 - n \in 1..Len(history)
    BY <2>1
  <2> QED BY <2>1, <2>2
<1>2. WithMissed(damage, m) = added[m]
  BY DEF WithMissed
<1> HIDE DEF earlier
<1>3. \E f \in [0..m -> Seq(Rect)] : f = [n \in 0..m |->
             IF n = 0 THEN damage ELSE AddDamageRects(f[n - 1], earlier(n))]
  <2> HIDE DEF added
  <2>1. F \in [(1..m) \X Seq(Rect) -> Seq(Rect)]
    <3>1. ASSUME NEW n \in 1..m, NEW k \in Seq(Rect) PROVE AddDamageRects(k, earlier(n)) \in Seq(Rect)
      BY <1>1, AddedRects
    <3> QED BY <3>1
  <2>2. PICK f : IsRecursion(f, m, Seq(Rect), damage, F)
    <3> HIDE DEF F
    <3> QED BY <1>1, <2>1, Recursion
  <2>3. ASSUME NEW n \in 1..m PROVE f[n] = AddDamageRects(f[n - 1], earlier(n))
    <3>1. n - 1 \in 0..m
      BY <1>1
    <3>2. f[n - 1] \in Seq(Rect)
      BY <2>2, <3>1 DEF IsRecursion
    <3>3. F[<<n, f[n - 1]>>] = AddDamageRects(f[n - 1], earlier(n))
      BY <3>2
    <3> QED BY <2>2, <3>3 DEF IsRecursion
  <2> HIDE DEF F
  <2>4. f \in [0..m -> Seq(Rect)] /\ f = [n \in 0..m |-> f[n]]
    BY <2>2 DEF IsRecursion
  <2>5. ASSUME NEW n \in 0..m
        PROVE  f[n] = IF n = 0 THEN damage ELSE AddDamageRects(f[n - 1], earlier(n))
    <3>1. CASE n = 0
      BY <2>2, <3>1 DEF IsRecursion
    <3>2. CASE n # 0
      <4>1. n \in 1..m
        BY <1>1, <3>2
      <4> QED BY <2>3, <3>2, <4>1
    <3> QED BY <3>1, <3>2
  <2> QED BY <2>4, <2>5, Zenon
<1>4. added = [n \in 0..m |-> IF n = 0 THEN damage ELSE AddDamageRects(added[n - 1], earlier(n))]
  BY <1>3, Zenon DEF added
<1> HIDE DEF added
<1>5. added[0] = damage /\ \A n \in 1..m : added[n] = AddDamageRects(added[n - 1], earlier(n))
  <2>1. 0 \in 0..m /\ \A n \in 1..m : n \in 0..m /\ n # 0
    BY <1>1
  <2> QED BY <1>4, <2>1, Zenon
<1> DEFINE Correct(k, n) ==
             /\ k \in Seq(Rect)
             /\ \A x : x \in Covered(k) <=>
                         x \in Covered(damage) \/ \E j \in 1..n : x \in Covered(earlier(j))
           P == {n \in Nat : n <= m => Correct(added[n], n)}
<1>6. Correct(damage, 0)
  OBVIOUS
<1>7. ASSUME NEW n \in 1..m, NEW k, Correct(k, n - 1)
      PROVE  Correct(AddDamageRects(k, earlier(n)), n)
  <2>1. \A j : j \in 1..n <=> j = n \/ j \in 1..(n - 1)
    BY <1>1
  <2>2. k \in Seq(Rect) /\ earlier(n) \in Seq(Rect)
    BY <1>1, <1>7
  <2>3. /\ AddDamageRects(k, earlier(n)) \in Seq(Rect)
        /\ Covered(AddDamageRects(k, earlier(n))) = Covered(k) \cup Covered(earlier(n))
    BY <2>2, AddedRects
  <2>4. ASSUME NEW x
        PROVE  x \in Covered(AddDamageRects(k, earlier(n)))
                 <=> x \in Covered(damage) \/ \E j \in 1..n : x \in Covered(earlier(j))
    <3>1. x \in Covered(AddDamageRects(k, earlier(n))) <=> x \in Covered(k) \/ x \in Covered(earlier(n))
      BY <2>3
    <3>2. x \in Covered(k) <=> x \in Covered(damage) \/ \E j \in 1..(n - 1) : x \in Covered(earlier(j))
      BY <1>7
    <3> QED BY <2>1, <3>1, <3>2, Zenon
  <2> QED BY <2>3, <2>4
<1> HIDE DEF Correct
<1>8. 0 \in P
  BY <1>5, <1>6
<1>9. ASSUME NEW n \in Nat, n \in P PROVE n + 1 \in P
  <2> SUFFICES ASSUME n + 1 <= m PROVE Correct(added[n + 1], n + 1)
    OBVIOUS
  <2>1. n + 1 \in 1..m /\ (n + 1) - 1 = n /\ n <= m
    BY <1>1
  <2>2. Correct(added[n], n)
    BY <1>9, <2>1
  <2>3. added[n + 1] = AddDamageRects(added[n], earlier(n + 1))
    BY <1>5, <2>1
  <2> QED BY <1>7, <2>1, <2>2, <2>3
<1>10. m \in P
  <2> HIDE DEF P
  <2> QED BY <1>1, <1>8, <1>9, Induction
<1>11. Correct(added[m], m)
  BY <1>10
<1> QED BY <1>2, <1>11, Zenon DEF Correct, earlier

-----------------------------------------------------------------------------
(* The parts of a frame.                                                   *)

(***************************************************************************)
(* Types.  Neither a tile nor a buffer is newer than the last frame.       *)
(***************************************************************************)
DamageTypeOK ==
  /\ frame \in Nat
  /\ tree \in [Tile -> Nat] /\ \A x \in Tile : tree[x] <= frame
  /\ buffer \in [Buffer -> [Tile -> Int]]
  /\ shown \in [Buffer -> Nat] /\ \A b \in Buffer : shown[b] <= frame
  /\ front \in Buffer \cup {NoBuffer}
  /\ history \in Seq(Seq(Rect)) /\ Len(history) <= MaxHistory

\* Rectangles consist of tiles.
LEMMA OnSurface ==
  /\ Surface \in Rect
  /\ \A rects \in Seq(Rect) : Covered(rects) \subseteq Tile
<1>1. Surface \in Rect
  <2>1. 1 \in Tile /\ Width \in 0..Width /\ Surface = 1..Width
    BY FrameDamageAssumption DEF Tile, Surface
  <2> QED BY <2>1 DEF Rect
<1>2. ASSUME NEW rects \in Seq(Rect), NEW i \in DOMAIN rects, NEW x \in rects[i]
      PROVE  x \in Tile
  <2>1. rects[i] \in Rect
    BY LenProperties
  <2>2. PICK lo \in Tile, hi \in 0..Width : rects[i] = lo..hi
    BY <2>1 DEF Rect
  <2>3. lo \in Nat /\ hi \in Nat /\ 1 <= lo /\ hi <= Width /\ Width \in Nat
    BY FrameDamageAssumption DEF Tile
  <2>4. x \in lo..hi
    BY <2>2
  <2> QED BY <2>3, <2>4 DEF Tile
<1> QED BY <1>1, <1>2 DEF Covered

\* What beginClip() repaints holds the damage of the frame.
LEMMA Clipped ==
  ASSUME DamageTypeOK, NEW b \in Buffer, NEW damage \in Seq(Rect)
  PROVE  /\ BufferAge(b) \in Nat
         /\ ClipDamage(damage, BufferAge(b)) \in Seq(Rect)
         /\ Covered(damage) \subseteq Covered(ClipDamage(damage, BufferAge(b)))
         /\ BufferAge(b) = 0 => Tile \subseteq Covered(ClipDamage(damage, BufferAge(b)))
<1> DEFINE age == BufferAge(b)
           clip == ClipDamage(damage, age)
<1>1. age \in Nat
  BY DEF DamageTypeOK, BufferAge
<1>2. Covered(<<Surface>>) = Tile /\ <<Surface>> \in Seq(Rect)
  <2>1. <<Surface>> \in Seq(Rect) /\ DOMAIN <<Surface>> = {1} /\ <<Surface>>[1] = Surface
    BY OnSurface
  <2> QED BY <2>1 DEF Covered, Surface
<1>3. Covered(damage) \subseteq Tile
  BY OnSurface
<1> HIDE DEF age
<1>4. CASE age = 1
  <2>1. clip = damage
    BY <1>4, Zenon DEF ClipDamage
  <2> QED BY <1>1, <1>4, <2>1 DEF age
<1>5. CASE age # 1 /\ (age = 0 \/ age > Len(history))
  <2>1. clip = <<Surface>>
    BY <1>5, Zenon DEF ClipDamage
  <2> QED BY <1>1, <1>2, <1>3, <2>1 DEF age
<1>6. CASE age # 1 /\ ~(age = 0 \/ age > Len(history))
  <2>1. clip = WithMissed(damage, age - 1)
    BY <1>6, Zenon DEF ClipDamage
  <2>2. history \in Seq(Seq(Rect)) /\ Len(history) \in Nat
    BY LenProperties DEF DamageTypeOK
  <2>3. age - 1 \in 0..Len(history)
    BY <1>1, <1>6, <2>2
  <2>4. clip \in Seq(Rect) /\ \A x : x \in Covered(damage) => x \in Covered(clip)
    <3> HIDE DEF clip
    <3> QED BY <2>1, <2>2, <2>3, MissedCovered
  <2> HIDE DEF clip
  <2>5. age # 0
    BY <1>6
  <2> QED BY <1>1, <2>4, <2>5 DEF age, clip
<1> QED BY <1>4, <1>5, <1>6

\* The history that beginClip() leaves has entries that were there before.
LEMMA ClippedHistory ==
  ASSUME DamageTypeOK, NEW age \in Nat
  PROVE  /\ ClipHistory(age) \in Seq(Seq(Rect))
         /\ Len(ClipHistory(age)) = Len(history)
         /\ \A k \in DOMAIN ClipHistory(age) :
              \E j \in DOMAIN history : ClipHistory(age)[k] = history[j]
         /\ age <= 2 => ClipHistory(age) = history
<1>1. /\ history \in Seq(Seq(Rect)) /\ Len(history) \in Nat /\ DOMAIN history = 1..Len(history)
      /\ \A k \in 1..Len(history) : history[k] \in Seq(Rect)
  BY LenProperties DEF DamageTypeOK
<1>2. CASE ~(age > 1 /\ age <= Len(history))
  <2>1. ClipHistory(age) = history
    BY <1>2, Zenon DEF ClipHistory
  <2> QED BY <1>1, <2>1
<1>3. CASE age > 1 /\ age <= Len(history)
  <2> DEFINE l == Len(history)
             old == l + 2 - age
             h == [history EXCEPT ![l] = history[old]]
  <2>1. ClipHistory(age) = h
    BY <1>3, Zenon DEF ClipHistory
  <2>2. old \in 1..l /\ l \in 1..l /\ l \in Nat /\ (age <= 2 => old = l)
    BY <1>1, <1>3
  <2>3. h = [k \in 1..l |-> IF k = l THEN history[old] ELSE history[k]]
    BY <1>1, <2>2
  <2> HIDE DEF old, h
  <2>4. \A k \in 1..l : h[k] = history[k] \/ h[k] = history[old]
    BY <2>3
  <2>5. h \in [1..l -> Seq(Rect)]
    BY <1>1, <2>2, <2>3
  <2>6. h \in Seq(Seq(Rect)) /\ Len(h) = l /\ DOMAIN h = 1..l
    <3> HIDE DEF l
    <3>1. h \in Seq(Seq(Rect))
      BY <2>2, <2>5
    <3>2. DOMAIN h = 1..l /\ Len(h) \in Nat /\ DOMAIN h = 1..Len(h)
      BY <2>5, <3>1, LenProperties
    <3> QED BY <2>2, <3>1, <3>2
  <2>7. age <= 2 => h = history
    <3> SUFFICES ASSUME age <= 2 PROVE h = history
      OBVIOUS
    <3>1. \A k \in 1..l : h[k] = history[k]
      BY <2>2, <2>3
    <3>2. history = [k \in 1..l |-> history[k]]
      BY <1>1
    <3> QED BY <2>3, <3>1, <3>2
  <2> QED BY <1>1, <2>1, <2>2, <2>4, <2>6, <2>7
<1> QED BY <1>2, <1>3

\* The history after a frame: its damage last, before it the newest entries.
LEMMA Pushed ==
  ASSUME NEW hist \in Seq(Seq(Rect)), Len(hist) <= MaxHistory, NEW damage \in Seq(Rect)
  PROVE  LET pushed == PushHistory(hist, damage)
         IN  /\ pushed \in Seq(Seq(Rect))
             /\ Len(pushed) \in 1..MaxHistory
             /\ pushed[Len(pushed)] = damage
             /\ \A k \in DOMAIN pushed : k # Len(pushed) =>
                  LET j == k + 1 + Len(hist) - Len(pushed)
                  IN  j \in DOMAIN hist /\ pushed[k] = hist[j]
<1> DEFINE kept == IF Len(hist) >= MaxHistory THEN Tail(hist) ELSE hist
           pushed == PushHistory(hist, damage)
<1>1. Len(hist) \in Nat /\ DOMAIN hist = 1..Len(hist) /\ MaxHistory \in Nat /\ MaxHistory >= 1
  BY LenProperties, FrameDamageAssumption
<1>2. /\ kept \in Seq(Seq(Rect))
      /\ Len(kept) \in 0..(MaxHistory - 1)
      /\ \A k \in 1..Len(kept) :
           k + Len(hist) - Len(kept) \in DOMAIN hist /\ kept[k] = hist[k + Len(hist) - Len(kept)]
  <2>1. CASE Len(hist) >= MaxHistory
    <3>1. kept = Tail(hist) /\ hist # <<>>
      BY <1>1, <2>1
    <3>2. /\ kept \in Seq(Seq(Rect)) /\ Len(kept) = Len(hist) - 1
          /\ \A k \in 1..(Len(hist) - 1) : kept[k] = hist[k + 1]
      <4> HIDE DEF kept
      <4>1. /\ Tail(hist) \in Seq(Seq(Rect)) /\ Len(Tail(hist)) = Len(hist) - 1
            /\ \A k \in 1..Len(Tail(hist)) : Tail(hist)[k] = hist[k + 1]
        BY <3>1, HeadTailProperties
      <4> QED BY <3>1, <4>1
    <3> HIDE DEF kept
    <3> QED BY <1>1, <2>1, <3>2
  <2>2. CASE ~(Len(hist) >= MaxHistory)
    <3>1. kept = hist
      BY <2>2
    <3> HIDE DEF kept
    <3> QED BY <1>1, <2>2, <3>1
  <2> QED BY <2>1, <2>2
<1>3. pushed = Append(kept, damage)
  BY DEF PushHistory
<1> HIDE DEF kept, pushed
<1>4. /\ pushed \in Seq(Seq(Rect)) /\ Len(pushed) = Len(kept) + 1 /\ pushed[Len(kept) + 1] = damage
      /\ \A k \in 1..Len(kept) : pushed[k] = kept[k]
  BY <1>2, <1>3, AppendProperties
<1>5. DOMAIN pushed = 1..Len(pushed)
  BY <1>4, LenProperties
<1>6. ASSUME NEW k \in DOMAIN pushed, k # Len(pushed)
      PROVE  k + 1 + Len(hist) - Len(pushed) \in DOMAIN hist
             /\ pushed[k] = hist[k + 1 + Len(hist) - Len(pushed)]
  <2>1. k \in 1..Len(kept) /\ k + 1 + Len(hist) - Len(pushed) = k + Len(hist) - Len(kept)
    BY <1>1, <1>2, <1>4, <1>5, <1>6
  <2> QED BY <1>2, <1>4, <2>1
<1>7. Len(pushed) \in 1..MaxHistory
  BY <1>1, <1>2, <1>4
<1> QED BY <1>4, <1>6, <1>7 DEF pushed

-----------------------------------------------------------------------------
(* Any number of buffers.                                                  *)

(***************************************************************************)
(* A frame in detail: either nothing is to be painted, and nothing has     *)
(* changed, or the buffer b gets the clip and goes to the screen.          *)
(***************************************************************************)
Painted(b, rects) ==
  LET damage == AddDamageRects(<<>>, rects)
      clip   == ClipDamage(damage, BufferAge(b))
  IN  /\ \A x \in Tile : tree'[x] = IF x \in Covered(rects) THEN frame + 1 ELSE tree[x]
      /\ \A c \in Buffer, x \in Tile :
           buffer'[c][x] = IF c = b /\ x \in Covered(clip) THEN tree'[x] ELSE buffer[c][x]
      /\ \A c \in Buffer : shown'[c] = IF c = b THEN frame + 1 ELSE shown[c]
      /\ front' = b
      /\ frame' = frame + 1
      /\ history' = PushHistory(ClipHistory(BufferAge(b)), damage)

NothingPainted(b) ==
  /\ history' = ClipHistory(BufferAge(b))
  /\ UNCHANGED <<tree, buffer, shown, front, frame>>

\* The damage that prePaint collects is what the changed layers cover, in a
\* minimal list.
LEMMA Collected ==
  ASSUME NEW rects \in Seq(Rect)
  PROVE  /\ AddDamageRects(<<>>, rects) \in Seq(Rect)
         /\ Covered(AddDamageRects(<<>>, rects)) = Covered(rects)
         /\ Minimal(AddDamageRects(<<>>, rects))
<1>1. <<>> \in Seq(Rect) /\ Covered(<<>>) = {} /\ Minimal(<<>>)
  <2>1. <<>> \in Seq(Rect) /\ DOMAIN <<>> = {}
    BY EmptySeq
  <2> QED BY <2>1 DEF Covered, Minimal
<1>2. ASSUME NEW none \in Seq(Rect), Covered(none) = {}, Minimal(none)
      PROVE  /\ AddDamageRects(none, rects) \in Seq(Rect)
             /\ Covered(AddDamageRects(none, rects)) = Covered(rects)
             /\ Minimal(AddDamageRects(none, rects))
  <2>1. /\ AddDamageRects(none, rects) \in Seq(Rect)
        /\ Covered(AddDamageRects(none, rects)) = Covered(none) \cup Covered(rects)
        /\ Minimal(none) => Minimal(AddDamageRects(none, rects))
    BY AddedRects
  <2> QED BY <1>2, <2>1
<1> QED BY <1>1, <1>2, Zenon

\* The damaged rectangles of a frame are a sequence of rectangles.
LEMMA Damages ==
  \A rects \in UNION {[1..n -> Rect] : n \in 1..MaxRects} : rects \in Seq(Rect)
<1> SUFFICES ASSUME NEW n \in 1..MaxRects, NEW rects \in [1..n -> Rect] PROVE rects \in Seq(Rect)
  OBVIOUS
<1>1. n \in Nat
  BY FrameDamageAssumption
<1> QED BY <1>1

\* The two outcomes of renderLayerTree().
LEMMA Outcomes ==
  ASSUME DamageTypeOK, NEW b \in Buffer, NEW rects \in Seq(Rect), RenderLayerTree(b, rects)
  PROVE  /\ tree' \in [Tile -> Nat]
         /\ buffer' \in [Buffer -> [Tile -> Int]]
         /\ shown' \in [Buffer -> Nat]
         /\ Painted(b, rects) \/ NothingPainted(b)
<1> DEFINE damage == AddDamageRects(<<>>, rects)
           clip == ClipDamage(damage, BufferAge(b))
           after == [x \in Tile |-> IF x \in Covered(rects) THEN frame + 1 ELSE tree[x]]
<1>1. damage \in Seq(Rect) /\ Covered(damage) = Covered(rects)
  BY Collected
<1>2. Covered(damage) \subseteq Covered(clip)
  <2> HIDE DEF damage
  <2> QED BY <1>1, Clipped
<1>3. after \in [Tile -> Nat] /\ tree' = after
  BY DEF RenderLayerTree, DamageTypeOK
<1>4. CASE Covered(clip) = {}
  <2>1. history' = ClipHistory(BufferAge(b)) /\ UNCHANGED <<buffer, shown, front, frame>>
    BY <1>4, Zenon DEF RenderLayerTree
  <2>2. Covered(rects) = {}
    BY <1>1, <1>2, <1>4
  <2>3. tree' = tree
    BY <1>3, <2>2 DEF DamageTypeOK
  <2> QED BY <2>1, <2>3 DEF NothingPainted, DamageTypeOK
<1>5. CASE Covered(clip) # {}
  <2>1. /\ buffer' = [buffer EXCEPT ![b] =
                        [x \in Tile |-> IF x \in Covered(clip) THEN after[x] ELSE @[x]]]
        /\ shown' = [shown EXCEPT ![b] = frame + 1]
        /\ front' = b
        /\ frame' = frame + 1
        /\ history' = PushHistory(ClipHistory(BufferAge(b)), damage)
    BY <1>5, Zenon DEF RenderLayerTree
  <2>2. /\ shown' \in [Buffer -> Nat]
        /\ \A c \in Buffer : shown'[c] = IF c = b THEN frame + 1 ELSE shown[c]
    BY <2>1 DEF DamageTypeOK
  <2> HIDE DEF after, clip, damage
  <2>3. /\ buffer' \in [Buffer -> [Tile -> Int]]
        /\ \A c \in Buffer, x \in Tile :
             buffer'[c][x] = IF c = b /\ x \in Covered(clip) THEN after[x] ELSE buffer[c][x]
    BY <1>3, <2>1 DEF DamageTypeOK
  <2>4. \A x \in Tile : tree'[x] = IF x \in Covered(rects) THEN frame + 1 ELSE tree[x]
    BY <1>3 DEF after
  <2> QED BY <1>3, <2>1, <2>2, <2>3, <2>4 DEF Painted, clip, damage
<1> QED BY <1>4, <1>5

(***************************************************************************)
(* The damage lists of the history are minimal.  Types are needed for it   *)
(* to be inductive, and for the clip to hold the frame's damage: a frame   *)
(* that is not painted has changed nothing.                                *)
(***************************************************************************)
DamageInv == DamageTypeOK /\ DamageListsMinimal

LEMMA DamageInit == Init => DamageInv
<1> SUFFICES ASSUME Init PROVE DamageInv
  OBVIOUS
<1>1. /\ frame = 0 /\ tree = [x \in Tile |-> 0] /\ buffer = [b \in Buffer |-> [x \in Tile |-> -1]]
      /\ shown = [b \in Buffer |-> 0] /\ front = NoBuffer /\ history = <<>>
  BY DEF Init
<1>2. history \in Seq(Seq(Rect)) /\ DOMAIN history = {} /\ Len(history) = 0
  BY <1>1, EmptySeq
<1>3. 0 <= MaxHistory
  BY FrameDamageAssumption
<1>4. DamageTypeOK
  BY <1>1, <1>2, <1>3 DEF DamageTypeOK
<1> QED BY <1>2, <1>4 DEF DamageInv, DamageListsMinimal

LEMMA DamageLost == DamageInv /\ BufferLost => DamageInv'
<1> SUFFICES ASSUME DamageInv, BufferLost PROVE DamageInv'
  OBVIOUS
<1>1. PICK b \in Buffer \ {front} :
        /\ shown' = [shown EXCEPT ![b] = 0]
        /\ buffer' = [buffer EXCEPT ![b] = [x \in Tile |-> -1]]
        /\ UNCHANGED <<tree, front, frame, history>>
  BY DEF BufferLost
<1>2. shown' \in [Buffer -> Nat] /\ \A c \in Buffer : shown'[c] <= frame
  BY <1>1 DEF DamageInv, DamageTypeOK
<1>3. buffer' \in [Buffer -> [Tile -> Int]]
  BY <1>1 DEF DamageInv, DamageTypeOK
<1> QED BY <1>1, <1>2, <1>3 DEF DamageInv, DamageTypeOK, DamageListsMinimal

LEMMA DamageFrame == DamageInv /\ Frame => DamageInv'
<1> SUFFICES ASSUME DamageInv, NEW b \in Buffer, NEW rects \in Seq(Rect), RenderLayerTree(b, rects)
             PROVE  DamageInv'
  BY Damages DEF Frame
<1> DEFINE age == BufferAge(b)
           hist == ClipHistory(age)
           damage == AddDamageRects(<<>>, rects)
<1>1. DamageTypeOK /\ \A k \in DOMAIN history : Minimal(history[k])
  BY DEF DamageInv, DamageListsMinimal, Minimal
<1>2. damage \in Seq(Rect) /\ Minimal(damage)
  BY Collected
<1> HIDE DEF damage
<1>3. age \in Nat
  BY <1>1, <1>2, Clipped
<1> HIDE DEF age
<1>4. /\ hist \in Seq(Seq(Rect)) /\ Len(hist) = Len(history)
      /\ \A k \in DOMAIN hist : Minimal(hist[k])
  BY <1>1, <1>3, ClippedHistory
<1> HIDE DEF hist
<1>5. /\ tree' \in [Tile -> Nat] /\ buffer' \in [Buffer -> [Tile -> Int]] /\ shown' \in [Buffer -> Nat]
      /\ Painted(b, rects) \/ NothingPainted(b)
  BY <1>1, Outcomes
<1>6. /\ frame \in Nat /\ front \in Buffer \cup {NoBuffer} /\ Len(history) <= MaxHistory
      /\ \A x \in Tile : tree[x] <= frame /\ tree[x] \in Nat
      /\ \A c \in Buffer : shown[c] <= frame /\ shown[c] \in Nat
  BY <1>1 DEF DamageTypeOK
<1>7. CASE NothingPainted(b)
  <2>1. history' = hist /\ UNCHANGED <<tree, buffer, shown, front, frame>>
    BY <1>7 DEF NothingPainted, hist, age
  <2>2. DamageTypeOK'
    BY <1>4, <1>5, <1>6, <2>1 DEF DamageTypeOK
  <2>3. DamageListsMinimal'
    BY <1>4, <2>1 DEF DamageListsMinimal, Minimal
  <2> QED BY <2>2, <2>3 DEF DamageInv
<1>8. CASE Painted(b, rects)
  <2>1. /\ \A x \in Tile : tree'[x] = IF x \in Covered(rects) THEN frame + 1 ELSE tree[x]
        /\ \A c \in Buffer : shown'[c] = IF c = b THEN frame + 1 ELSE shown[c]
        /\ front' = b /\ frame' = frame + 1
    BY <1>8 DEF Painted
  <2>2. history' = PushHistory(hist, damage)
    BY <1>8 DEF Painted, hist, age, damage
  <2>3. /\ history' \in Seq(Seq(Rect)) /\ Len(history') \in 1..MaxHistory
        /\ history'[Len(history')] = damage
        /\ \A k \in DOMAIN history' : k # Len(history') =>
             \E j \in DOMAIN hist : history'[k] = hist[j]
    BY <1>2, <1>4, <1>6, <2>2, Pushed
  <2>4. \A x \in Tile : tree'[x] <= frame'
    BY <1>6, <2>1
  <2>5. \A c \in Buffer : shown'[c] <= frame'
    BY <1>6, <2>1
  <2>6. Len(history') <= MaxHistory
    BY <2>3, FrameDamageAssumption
  <2>7. DamageTypeOK'
    BY <1>5, <1>6, <2>1, <2>3, <2>4, <2>5, <2>6 DEF DamageTypeOK
  <2>8. \A k \in DOMAIN history' : Minimal(history'[k])
    BY <1>2, <1>4, <2>3
  <2> QED BY <2>7, <2>8 DEF DamageInv, DamageListsMinimal, Minimal
<1> QED BY <1>5, <1>7, <1>8

(***************************************************************************)
(* Layer::addDamageRect keeps every damage list minimal, for any number of *)
(* buffers and layers.                                                     *)
(***************************************************************************)
THEOREM ListsMinimal == Spec => []DamageListsMinimal
<1>1. DamageInv /\ [Next]_vars => DamageInv'
  <2>1. DamageInv /\ UNCHANGED vars => DamageInv'
    BY DEF DamageInv, DamageTypeOK, DamageListsMinimal, vars
  <2> QED BY <2>1, DamageFrame, DamageLost DEF Next
<1>2. DamageInv => DamageListsMinimal
  BY DEF DamageInv
<1> QED BY <1>1, <1>2, DamageInit, PTL DEF Spec

-----------------------------------------------------------------------------
(* At most two buffers.                                                    *)

TwoBuffers == IsFiniteSet(Buffer) /\ Cardinality(Buffer) <= 2

(***************************************************************************)
(* Two buffers alternate: the one on the screen was painted last, and the  *)
(* other one, unless its content is unknown, just before it.  So the age   *)
(* of a buffer that is painted into is 0, 1 or 2, and beginClip() writes   *)
(* nothing through its reference into the history.                         *)
(***************************************************************************)
Alternate ==
  IF front = NoBuffer
    THEN frame = 0 /\ \A b \in Buffer : shown[b] = 0
    ELSE /\ frame > 0 /\ shown[front] = frame
         /\ \A b \in Buffer : b # front => shown[b] \in {0, frame - 1}

\* A buffer of known content shows every tile that has not changed since.
Current ==
  \A b \in Buffer, x \in Tile : shown[b] # 0 /\ tree[x] <= shown[b] => buffer[b][x] = tree[x]

DoubleInv == DamageInv /\ HistoryComplete /\ Alternate /\ Current

\* A buffer that the window system gives out has an age of at most 2.
LEMMA AgeAtMostTwo ==
  ASSUME DamageTypeOK, Alternate, TwoBuffers, NEW b \in Buffer, Free(b)
  PROVE  /\ BufferAge(b) \in 0..2
         /\ BufferAge(b) = 1 => shown[b] = frame
         /\ BufferAge(b) = 2 => shown[b] = frame - 1
         /\ BufferAge(b) # 0 => shown[b] # 0
         /\ \A c \in Buffer : c # b => shown[c] \in {0, frame}
<1>1. \A c, d \in Buffer : c # b /\ d # b => c = d
  <2> SUFFICES ASSUME NEW c \in Buffer, NEW d \in Buffer, c # b, d # b, c # d PROVE FALSE
    OBVIOUS
  <2>1. IsFiniteSet(Buffer \ {b}) /\ Cardinality(Buffer \ {b}) = Cardinality(Buffer) - 1
    BY FS_RemoveElement DEF TwoBuffers
  <2>2. IsFiniteSet((Buffer \ {b}) \ {c}) /\ Cardinality((Buffer \ {b}) \ {c}) = Cardinality(Buffer \ {b}) - 1
    BY <2>1, FS_RemoveElement
  <2>3. Cardinality(((Buffer \ {b}) \ {c}) \ {d}) = Cardinality((Buffer \ {b}) \ {c}) - 1
        /\ IsFiniteSet(((Buffer \ {b}) \ {c}) \ {d})
    BY <2>2, FS_RemoveElement
  <2>4. Cardinality(((Buffer \ {b}) \ {c}) \ {d}) \in Nat /\ Cardinality(Buffer) \in Nat
    BY <2>3, FS_CardinalityType DEF TwoBuffers
  <2> DEFINE n0 == Cardinality(Buffer)
             n1 == Cardinality(Buffer \ {b})
             n2 == Cardinality((Buffer \ {b}) \ {c})
             n3 == Cardinality(((Buffer \ {b}) \ {c}) \ {d})
  <2>5. n0 <= 2 /\ n1 = n0 - 1 /\ n2 = n1 - 1 /\ n3 = n2 - 1 /\ n3 \in Nat /\ n0 \in Nat
    BY <2>1, <2>2, <2>3, <2>4 DEF TwoBuffers
  <2> HIDE DEF n0, n1, n2, n3
  <2> QED BY <2>5
<1>2. frame \in Nat /\ \A c \in Buffer : shown[c] \in Nat /\ shown[c] <= frame
  BY DEF DamageTypeOK
<1>3. NoBuffer \notin Buffer
  BY FrameDamageAssumption
<1>4. CASE front = NoBuffer
  <2>1. \A c \in Buffer : shown[c] = 0
    BY <1>4 DEF Alternate
  <2> QED BY <2>1 DEF BufferAge
<1>5. CASE front # NoBuffer /\ b = front
  <2>1. shown[b] = frame /\ frame > 0
    BY <1>5 DEF Alternate
  <2>2. Cardinality(Buffer) = 1
    BY <1>5 DEF Free
  <2>3. \A c \in Buffer : c = b
    BY <2>2, FS_Singleton DEF TwoBuffers
  <2> QED BY <1>2, <2>1, <2>3 DEF BufferAge
<1>6. CASE front # NoBuffer /\ b # front
  <2>1. front \in Buffer
    BY <1>6 DEF DamageTypeOK
  <2>2. /\ frame > 0 /\ shown[front] = frame /\ shown[b] \in {0, frame - 1}
    BY <1>6 DEF Alternate
  <2>3. \A c \in Buffer : c # b => c = front
    BY <1>1, <1>6, <2>1
  <2> QED BY <1>2, <2>2, <2>3 DEF BufferAge
<1> QED BY <1>4, <1>5, <1>6

LEMMA DoubleInit == Init => DoubleInv
<1> SUFFICES ASSUME Init PROVE DoubleInv
  OBVIOUS
<1>1. DamageInv /\ DamageTypeOK
  BY DamageInit DEF DamageInv
<1>2. front = NoBuffer /\ frame = 0 /\ \A b \in Buffer : shown[b] = 0
  BY DEF Init
<1>3. history = <<>> /\ DOMAIN history = {} /\ Len(history) <= MaxHistory
  <2>1. history = <<>> /\ DOMAIN history = {}
    BY EmptySeq DEF Init
  <2> QED BY <1>1, <2>1 DEF DamageTypeOK
<1>4. Alternate /\ Current
  BY <1>2 DEF Alternate, Current
<1>5. HistoryComplete
  BY <1>3, Zenon DEF HistoryComplete
<1> QED BY <1>1, <1>4, <1>5 DEF DoubleInv

LEMMA DoubleLost == DoubleInv /\ BufferLost => DoubleInv'
<1> SUFFICES ASSUME DoubleInv, DamageInv', NEW b \in Buffer \ {front}, shown[b] # 0,
                    shown' = [shown EXCEPT ![b] = 0],
                    buffer' = [buffer EXCEPT ![b] = [x \in Tile |-> -1]],
                    UNCHANGED <<tree, front, frame, history>>
             PROVE  DoubleInv'
  <2>1. DoubleInv /\ BufferLost => DamageInv'
    BY DamageLost DEF DoubleInv
  <2> QED BY <2>1 DEF BufferLost
<1>1. DamageTypeOK
  BY DEF DoubleInv, DamageInv
<1>2. shown' \in [Buffer -> Nat] /\ \A c \in Buffer : shown'[c] = IF c = b THEN 0 ELSE shown[c]
  BY <1>1 DEF DamageTypeOK
<1>3. buffer' \in [Buffer -> [Tile -> Int]] /\ \A c \in Buffer : c # b => buffer'[c] = buffer[c]
  BY <1>1 DEF DamageTypeOK
<1>4. HistoryComplete'
  BY DEF DoubleInv, HistoryComplete
<1>5. Alternate'
  <2>1. front = NoBuffer \/ front \in Buffer
    BY <1>1 DEF DamageTypeOK
  <2> QED BY <1>2, <2>1 DEF DoubleInv, Alternate
<1>6. Current'
  BY <1>2, <1>3 DEF DoubleInv, Current
<1> QED BY <1>4, <1>5, <1>6 DEF DoubleInv

LEMMA DoubleFrame == TwoBuffers /\ DoubleInv /\ Frame => DoubleInv'
<1> SUFFICES ASSUME TwoBuffers, DoubleInv, DamageInv',
                    NEW b \in Buffer, Free(b), NEW rects \in Seq(Rect), RenderLayerTree(b, rects)
             PROVE  DoubleInv'
  <2>1. DoubleInv /\ Frame => DamageInv'
    BY DamageFrame DEF DoubleInv
  <2> QED BY <2>1, Damages DEF Frame
<1> DEFINE age == BufferAge(b)
           damage == AddDamageRects(<<>>, rects)
           clip == ClipDamage(damage, age)
<1>1. DamageTypeOK /\ HistoryComplete /\ Alternate /\ Current
  BY DEF DoubleInv, DamageInv
<1>2. /\ frame \in Nat
      /\ \A x \in Tile : tree[x] \in Nat /\ tree[x] <= frame
      /\ \A c \in Buffer : shown[c] \in Nat /\ shown[c] <= frame
      /\ history \in Seq(Seq(Rect)) /\ Len(history) \in Nat /\ DOMAIN history = 1..Len(history)
      /\ Len(history) <= MaxHistory
  BY <1>1, LenProperties DEF DamageTypeOK
<1>3. damage \in Seq(Rect) /\ Covered(damage) = Covered(rects)
  BY Collected
<1> HIDE DEF damage
<1>4. /\ age \in 0..2 /\ age \in Nat
      /\ age = 1 => shown[b] = frame
      /\ age = 2 => shown[b] = frame - 1
      /\ age # 0 => shown[b] # 0
      /\ \A c \in Buffer : c # b => shown[c] \in {0, frame}
  BY <1>1, AgeAtMostTwo
<1>5. Covered(damage) \subseteq Covered(clip) /\ (age = 0 => Tile \subseteq Covered(clip))
  BY <1>1, <1>3, Clipped
<1>6. ASSUME age = 2, NEW x \in Tile, x \notin Covered(clip) PROVE tree[x] # frame
  <2>1. CASE 2 > Len(history)
    <3>1. clip = <<Surface>>
      <4>1. age # 1
        BY <1>6
      <4> QED BY <1>6, <2>1, <4>1, Zenon DEF ClipDamage
    <3>2. x \in Covered(clip)
      BY <3>1 DEF Covered, Surface
    <3> QED BY <1>6, <3>2
  <2>2. CASE ~(2 > Len(history))
    <3>1. clip = WithMissed(damage, age - 1)
      <4>1. age # 1 /\ age # 0 /\ ~(age > Len(history))
        BY <1>6, <2>2
      <4> QED BY <4>1, Zenon DEF ClipDamage
    <3>2. age - 1 = 1 /\ 1 \in 0..Len(history) /\ Len(history) \in DOMAIN history
      BY <1>2, <1>6, <2>2
    <3>3. x \in Covered(history[Len(history)]) => x \in Covered(WithMissed(damage, 1))
      <4>1. 1 \in 1..1 /\ Len(history) + 1 - 1 = Len(history)
        BY <1>2
      <4>2. \A y : y \in Covered(WithMissed(damage, 1)) <=>
                     \/ y \in Covered(damage)
                     \/ \E n \in 1..1 : y \in Covered(history[Len(history) + 1 - n])
        BY <1>2, <1>3, <3>2, MissedCovered
      <4> QED BY <4>1, <4>2
    <3>4. x \notin Covered(history[Len(history)])
      <4> HIDE DEF age, clip
      <4> QED BY <1>6, <3>1, <3>2, <3>3
    <3>5. frame - (Len(history) - Len(history)) = frame
      BY <1>2
    <3>6. tree[x] = frame - (Len(history) - Len(history)) => x \in Covered(history[Len(history)])
      BY <1>1, <3>2, Zenon DEF HistoryComplete
    <3> QED BY <3>4, <3>5, <3>6
  <2> QED BY <2>1, <2>2
<1>7. ClipHistory(age) = history
  <2> HIDE DEF age
  <2>1. age \in Nat /\ age <= 2
    BY <1>4
  <2>2. age <= 2 => ClipHistory(age) = history
    BY <1>1, <2>1, ClippedHistory
  <2> QED BY <2>1, <2>2
<1>8. Painted(b, rects) \/ NothingPainted(b)
  BY <1>1, Outcomes
<1>9. CASE NothingPainted(b)
  <2>1. UNCHANGED <<tree, buffer, shown, front, frame, history>>
    BY <1>7, <1>9 DEF NothingPainted
  <2> QED BY <1>1, <2>1, Zenon DEF DoubleInv, HistoryComplete, Alternate, Current
<1>10. CASE Painted(b, rects)
  <2>1. /\ \A x \in Tile : tree'[x] = IF x \in Covered(rects) THEN frame + 1 ELSE tree[x]
        /\ \A c \in Buffer, x \in Tile :
             buffer'[c][x] = IF c = b /\ x \in Covered(clip) THEN tree'[x] ELSE buffer[c][x]
        /\ \A c \in Buffer : shown'[c] = IF c = b THEN frame + 1 ELSE shown[c]
        /\ front' = b /\ frame' = frame + 1
        /\ history' = PushHistory(ClipHistory(age), damage)
    BY <1>10, Zenon DEF Painted, damage
  <2> HIDE DEF age, clip
  <2>a. history' = PushHistory(history, damage)
    BY <1>7, <2>1
  <2>2. /\ Len(history') \in 1..MaxHistory /\ history' \in Seq(Seq(Rect))
        /\ history'[Len(history')] = damage
        /\ \A k \in DOMAIN history' : k # Len(history') =>
             /\ k + 1 + Len(history) - Len(history') \in DOMAIN history
             /\ history'[k] = history[k + 1 + Len(history) - Len(history')]
    BY <1>2, <1>3, <2>a, Pushed
  <2>3. DOMAIN history' = 1..Len(history') /\ Len(history') \in Nat /\ Len(history') <= MaxHistory
    BY <2>2, LenProperties, FrameDamageAssumption
  <2>4. HistoryComplete'
    <3>1. ASSUME NEW k \in DOMAIN history', NEW x \in Tile, tree'[x] = frame' - (Len(history') - k)
          PROVE  x \in Covered(history'[k])
      <4>1. CASE k = Len(history')
        <5>1. tree'[x] = frame + 1
          BY <1>2, <2>1, <2>3, <3>1, <4>1
        <5>2. tree[x] # frame + 1
          BY <1>2
        <5>3. x \in Covered(rects)
          BY <2>1, <5>1, <5>2
        <5> QED BY <1>3, <2>2, <4>1, <5>3
      <4>2. CASE k # Len(history')
        <5> DEFINE j == k + 1 + Len(history) - Len(history')
        <5>1. j \in DOMAIN history /\ history'[k] = history[j]
          BY <2>2, <4>2
        <5>2. k \in Nat /\ k < Len(history')
          BY <2>3, <4>2
        <5>3. tree'[x] # frame + 1
          BY <1>2, <2>1, <2>3, <3>1, <5>2
        <5>4. tree[x] = tree'[x]
          BY <2>1, <5>3
        <5>5. tree[x] = frame - (Len(history) - j)
          BY <1>2, <2>1, <2>3, <3>1, <5>2, <5>4
        <5> HIDE DEF j
        <5>6. x \in Covered(history[j])
          BY <1>1, <5>1, <5>5, Zenon DEF HistoryComplete
        <5> QED BY <5>1, <5>6
      <4> QED BY <4>1, <4>2
    <3> QED BY <2>3, <3>1 DEF HistoryComplete
  <2>5. Alternate'
    <3>1. b # NoBuffer
      BY FrameDamageAssumption
    <3>2. frame' > 0 /\ shown'[front'] = frame'
      BY <1>2, <2>1
    <3>3. \A c \in Buffer : c # front' => shown'[c] \in {0, frame' - 1}
      BY <1>2, <1>4, <2>1
    <3> QED BY <2>1, <3>1, <3>2, <3>3 DEF Alternate
  <2>6. Current'
    <3> SUFFICES ASSUME NEW c \in Buffer, NEW x \in Tile, shown'[c] # 0, tree'[x] <= shown'[c]
                 PROVE  buffer'[c][x] = tree'[x]
      BY DEF Current
    <3>1. CASE c = b /\ x \in Covered(clip)
      BY <2>1, <3>1
    <3>2. CASE c = b /\ x \notin Covered(clip)
      <4>1. x \notin Covered(rects) /\ age # 0
        BY <1>3, <1>5, <3>2
      <4>2. tree'[x] = tree[x] /\ buffer'[c][x] = buffer[b][x]
        BY <2>1, <3>2, <4>1
      <4>3. shown[b] # 0 /\ tree[x] <= shown[b]
        <5>1. CASE age = 1
          BY <1>2, <1>4, <4>1, <5>1
        <5>2. CASE age = 2
          BY <1>2, <1>4, <1>6, <3>2, <5>2
        <5> QED BY <1>4, <4>1, <5>1, <5>2
      <4> QED BY <1>1, <4>2, <4>3 DEF Current
    <3>3. CASE c # b
      <4>1. shown'[c] = shown[c] /\ buffer'[c][x] = buffer[c][x]
        BY <2>1, <3>3
      <4>2. tree'[x] # frame + 1
        BY <1>2, <2>1, <4>1
      <4>3. tree'[x] = tree[x]
        BY <2>1, <4>2
      <4> QED BY <1>1, <4>1, <4>3 DEF Current
    <3> QED BY <3>1, <3>2, <3>3
  <2> QED BY <2>4, <2>5, <2>6 DEF DoubleInv
<1> QED BY <1>8, <1>9, <1>10

LEMMA DoubleStep == TwoBuffers /\ DoubleInv /\ [Next]_vars => DoubleInv'
<1>1. DoubleInv /\ UNCHANGED vars => DoubleInv'
  BY DEF DoubleInv, DamageInv, DamageTypeOK, DamageListsMinimal, HistoryComplete, Alternate, Current, vars
<1> QED BY <1>1, DoubleFrame, DoubleLost DEF Next

(***************************************************************************)
(* With at most two buffers, the history holds what a buffer has missed.   *)
(***************************************************************************)
THEOREM HistoryHolds ==
  ASSUME TwoBuffers
  PROVE  Spec => []HistoryComplete
<1>1. DoubleInv /\ [Next]_vars => DoubleInv'
  BY DoubleStep
<1>2. DoubleInv => HistoryComplete
  BY DEF DoubleInv
<1> QED BY <1>1, <1>2, DoubleInit, PTL DEF Spec

(***************************************************************************)
(* With at most two buffers, the screen shows the tree after every frame.  *)
(***************************************************************************)
THEOREM ScreenUpToDate ==
  ASSUME TwoBuffers
  PROVE  Spec => []FrontUpToDate
<1>1. DoubleInv /\ [Next]_vars => DoubleInv'
  BY DoubleStep
<1>2. DoubleInv => FrontUpToDate
  <2> SUFFICES ASSUME DoubleInv, front # NoBuffer PROVE buffer[front] = tree
    BY DEF FrontUpToDate
  <2>1. /\ front \in Buffer /\ frame \in Nat
        /\ tree \in [Tile -> Nat] /\ \A x \in Tile : tree[x] <= frame
        /\ buffer[front] \in [Tile -> Int]
    BY DEF DoubleInv, DamageInv, DamageTypeOK
  <2>2. shown[front] = frame /\ frame # 0
    BY <2>1 DEF DoubleInv, Alternate
  <2>3. \A x \in Tile : buffer[front][x] = tree[x]
    BY <2>1, <2>2 DEF DoubleInv, Current
  <2> QED BY <2>1, <2>3
<1> QED BY <1>1, <1>2, DoubleInit, PTL DEF Spec

-----------------------------------------------------------------------------
(* Scroll views: the position stays inside the scroll range, for all       *)
(* sizes, snap offsets and frames of candidates, between the steps of a    *)
(* key as well.  What a key has decided is in the range of the sizes that  *)
(* it was found with; so the position is in range after it is set, unless  *)
(* these are other sizes by then.                                          *)

\* A length of the axis that scrolls and the position on it.
InRange(p, content, size, wide) ==
  LET a == IF wide THEN "x" ELSE "y"
      b == IF wide THEN "y" ELSE "x"
  IN  /\ p \in [Axis -> Int]
      /\ p[b] = 0 /\ 0 <= p[a]
      /\ p[a] <= IF content[a] > size[a] THEN content[a] - size[a] ELSE 0

\* Sizes that a new content size or a new scroll view can have are natural
\* numbers on both axes.
LEMMA SizesAreNat ==
  ASSUME NEW c \in ContentSize \cup {Origin}, NEW f \in FrameSize
  PROVE  c \in [Axis -> Nat] /\ f \in [Axis -> Nat]
BY ScrollAssumption DEF Origin, Axis

\* handleScroll(x, y) returns a position inside the range, whatever it is given,
\* if a scroll view that is horizontal has content to scroll.
LEMMA ClampedInRange ==
  ASSUME NEW p \in [Axis -> Int], NEW c \in [Axis -> Nat], NEW f \in [Axis -> Nat],
         NEW wide \in BOOLEAN, wide => c["x"] > f["x"]
  PROVE  InRange(Clamped(p, c, f, wide), c, f, wide)
<1>1. CASE wide
  BY <1>1, SMT DEF InRange, Clamped, Clamp, Axis
<1>2. CASE ~wide
  BY <1>2, SMT DEF InRange, Clamped, Clamp, Axis
<1> QED BY <1>1, <1>2

\* The same condition as the properties state it.
LEMMA RangeForm ==
  ASSUME NEW p \in [Axis -> Int], NEW c \in [Axis -> Nat], NEW f \in [Axis -> Nat],
         NEW wide \in BOOLEAN
  PROVE  Within(p, <<c, f, wide>>) <=> InRange(p, c, f, wide)
<1>1. CASE wide
  BY <1>1 DEF Within, InRange, Axis
<1>2. CASE ~wide
  BY <1>2 DEF Within, InRange, Axis
<1> QED BY <1>1, <1>2

\* The sizes of the view are sizes, and its position is a point.
LEMMA SizesTyped ==
  ASSUME ScrollTypeOK
  PROVE  /\ contentSize \in [Axis -> Nat] /\ frameSize \in [Axis -> Nat]
         /\ horizontal \in BOOLEAN /\ scrollPos \in [Axis -> Int]
BY SizesAreNat DEF ScrollTypeOK

\* A nonempty set of snap offsets has a least and a greatest element, and they
\* are snap offsets.
LEMMA SnapChoice ==
  ASSUME props \in ScrollProps, NEW s \in SUBSET props.snaps, s # {}
  PROVE  Least(s) \in s /\ Greatest(s) \in s
<1>1. (\E o \in s : \A q \in s : o <= q) /\ (\E o \in s : \A q \in s : o >= q)
  BY ScrollAssumption
<1> QED BY <1>1 DEF Least, Greatest

\* A position in the range of the view as it is.
Placed(p) == InRange(p, contentSize, frameSize, horizontal)

\* A position that the view may be given: in range, unless the frame is newer
\* than the content or React or a key has left the range before.
Good(p) == p \in [Axis -> Int] /\ (~stale /\ ~beyond => Placed(p))

\* The position itself is good.
LEMMA PositionGood == ScrollInv => Good(scrollPos)
BY SizesTyped, RangeForm DEF ScrollInv, Good, Placed, OffsetInRange, Sizes

\* What handleScroll(x, y) makes of any point is good.
LEMMA ClampedGood ==
  ASSUME ScrollInv, NEW p \in [Axis -> Int]
  PROVE  LET q == Clamped(p, contentSize, frameSize, horizontal)
         IN  q \in [Axis -> Int] /\ (~stale => Placed(q))
<1>1. contentSize \in [Axis -> Nat] /\ frameSize \in [Axis -> Nat] /\ horizontal \in BOOLEAN
  BY SizesTyped DEF ScrollInv
<1>2. Clamped(p, contentSize, frameSize, horizontal) \in [Axis -> Int]
  BY <1>1 DEF Clamped, Clamp
<1>3. ASSUME ~stale PROVE horizontal => contentSize["x"] > frameSize["x"]
  BY <1>3 DEF ScrollInv, AxisFollowsSizes
<1> QED BY <1>1, <1>2, <1>3, ClampedInRange DEF Placed

\* The next page or half page in a direction in which the view can scroll.
LEMMA NextGood ==
  ASSUME ScrollInv, NEW d \in Direction, CanScrollInDirection(d)
  PROVE  Good(GetNextScrollPosition(d))
<1> DEFINE a == AxisOf(d)
           next == CalculateNextScrollOffset(d, contentSize[a], frameSize[a], scrollPos[a])
<1>1. /\ contentSize \in [Axis -> Nat] /\ frameSize \in [Axis -> Nat] /\ horizontal \in BOOLEAN
      /\ scrollPos \in [Axis -> Int] /\ a \in Axis /\ a = ScrollAxis
  BY SizesAreNat DEF ScrollInv, ScrollTypeOK, AxisOf, Axis, CanScrollInDirection
<1>2. next \in Int
  BY <1>1 DEF CalculateNextScrollOffset
<1>3. ASSUME ~stale, ~beyond
      PROVE  0 <= next /\ next <= IF contentSize[a] > frameSize[a] THEN contentSize[a] - frameSize[a]
                                                                   ELSE 0
  <2>1. /\ 0 <= scrollPos[a]
        /\ scrollPos[a] <= IF contentSize[a] > frameSize[a] THEN contentSize[a] - frameSize[a] ELSE 0
    BY <1>1, <1>3, PositionGood DEF Good, Placed, InRange, ScrollAxis
  <2>2. IF Forward(d) THEN contentSize[a] - scrollPos[a] > frameSize[a] ELSE scrollPos[a] # 0
    BY DEF CanScrollInDirection
  <2> HIDE DEF a
  <2> QED BY <1>1, <2>1, <2>2 DEF CalculateNextScrollOffset
<1>4. Good(scrollPos)
  BY PositionGood
<1>5. GetNextScrollPosition(d) = [scrollPos EXCEPT ![a] = next]
  BY DEF GetNextScrollPosition
<1> HIDE DEF next, a
<1>6. CASE horizontal
  BY <1>1, <1>2, <1>3, <1>4, <1>5, <1>6 DEF Good, Placed, InRange, ScrollAxis, Axis
<1>7. CASE ~horizontal
  BY <1>1, <1>2, <1>3, <1>4, <1>5, <1>7 DEF Good, Placed, InRange, ScrollAxis, Axis
<1> QED BY <1>1, <1>6, <1>7

\* A snap offset, or the end of the content; only an offset that is not cut leaves
\* the range.
LEMMA SnapGood ==
  ASSUME ScrollInv, NEW d \in Direction, CanScrollInDirection(d),
         NEW r \in CandidateFrame \cup {NoFrame}
  PROVE  LET p == HandleSnapToOffsetScroll(d, r).pos
         IN  p \in [Axis -> Int] /\ (~Uncut(d) => Good(p))
<1> DEFINE a == ScrollAxis
           current == IF r = NoFrame THEN scrollPos[a] ELSE r.lo[a]
           upper == {o \in props.snaps :
                       o > IF r = NoFrame THEN current + frameSize[a] ELSE current}
           lower == {o \in props.snaps : o < current}
           next == IF upper = {} THEN scrollPos[a] ELSE Least(upper)
           prev == IF lower = {} THEN -1 ELSE Greatest(lower)
           target == IF ~Forward(d) THEN prev
                     ELSE IF contentSize[a] - next < frameSize[a] THEN contentSize[a] - frameSize[a]
                     ELSE next
           limit == IF contentSize[a] > frameSize[a] THEN contentSize[a] - frameSize[a] ELSE 0
           result == HandleSnapToOffsetScroll(d, r).pos
<1>1. /\ contentSize \in [Axis -> Nat] /\ frameSize \in [Axis -> Nat] /\ horizontal \in BOOLEAN
      /\ scrollPos \in [Axis -> Int] /\ a \in Axis /\ a = AxisOf(d)
  BY SizesTyped DEF ScrollInv, ScrollAxis, Axis, CanScrollInDirection
<1>2. /\ props \in ScrollProps /\ props.snaps \in SUBSET Int
      /\ upper \in SUBSET props.snaps /\ lower \in SUBSET props.snaps
  BY ScrollAssumption DEF ScrollInv, ScrollTypeOK
<1>3. /\ upper # {} => Least(upper) \in props.snaps
      /\ lower # {} => Greatest(lower) \in props.snaps
  BY <1>2, SnapChoice
<1>4. next \in Int /\ prev \in Int /\ target \in Int
  <2> HIDE DEF upper, lower
  <2> QED BY <1>1, <1>2, <1>3
<1>5. result = IF (IF Forward(d) THEN next = current ELSE prev = -1) THEN scrollPos
               ELSE [scrollPos EXCEPT ![a] = target]
  BY DEF HandleSnapToOffsetScroll
<1>6. result \in [Axis -> Int]
  <2> HIDE DEF next, prev, target, result, current
  <2> QED BY <1>1, <1>4, <1>5
<1>7. ASSUME ~Uncut(d), ~stale, ~beyond, result # scrollPos PROVE 0 <= target /\ target <= limit
  <2>1. \A o \in props.snaps : 0 <= o /\ (~Forward(d) => o <= limit)
    BY <1>1, <1>2, <1>7 DEF Uncut, ScrollRange
  <2>2. 0 <= scrollPos[a] /\ scrollPos[a] <= limit
    BY <1>1, <1>7, PositionGood DEF Good, Placed, InRange, ScrollAxis
  <2>3. CASE Forward(d)
    <3>1. contentSize[a] - scrollPos[a] > frameSize[a]
      BY <1>1, <2>3 DEF CanScrollInDirection
    <3>2. 0 <= next
      BY <1>3, <2>1, <2>2
    <3> HIDE DEF next, prev, a
    <3> QED BY <1>1, <1>4, <2>2, <2>3, <3>1, <3>2
  <2>4. CASE ~Forward(d)
    <3>1. prev # -1
      BY <1>5, <1>7, <2>4
    <3>2. prev \in props.snaps
      BY <1>3, <3>1
    <3> HIDE DEF next, prev, limit
    <3> QED BY <2>1, <2>4, <3>2
  <2> QED BY <2>3, <2>4
<1>8. ASSUME ~Uncut(d), ~stale, ~beyond PROVE Placed(result)
  <2>1. CASE result = scrollPos
    BY <1>8, <2>1, PositionGood DEF Good
  <2>2. CASE result # scrollPos
    <3>1. result = [scrollPos EXCEPT ![a] = target] /\ 0 <= target /\ target <= limit
      BY <1>5, <1>7, <1>8, <2>2
    <3>2. Placed(scrollPos)
      BY <1>8, PositionGood DEF Good
    <3> HIDE DEF target, result
    <3>3. CASE horizontal
      BY <1>1, <1>4, <3>1, <3>2, <3>3 DEF Placed, InRange, ScrollAxis, Axis
    <3>4. CASE ~horizontal
      BY <1>1, <1>4, <3>1, <3>2, <3>4 DEF Placed, InRange, ScrollAxis, Axis
    <3> QED BY <1>1, <3>3, <3>4
  <2> QED BY <2>1, <2>2
<1> QED BY <1>6, <1>8 DEF Good

\* Scrolling to the edge of a candidate.
LEMMA ToFrameGood ==
  ASSUME ScrollInv, NEW d, NEW r \in CandidateFrame
  PROVE  LET p == ScrollToFrame(d, r).pos
         IN  p \in [Axis -> Int] /\ (~stale => Placed(p))
<1> DEFINE p == [scrollPos EXCEPT ![AxisOf(d)] =
                   IF Forward(d) THEN r.hi[AxisOf(d)] - frameSize[AxisOf(d)] ELSE r.lo[AxisOf(d)]]
<1>1. /\ frameSize \in [Axis -> Nat] /\ scrollPos \in [Axis -> Int] /\ AxisOf(d) \in Axis
      /\ r.lo \in [Axis -> Int] /\ r.hi \in [Axis -> Int]
  BY SizesAreNat, ScrollAssumption DEF ScrollInv, ScrollTypeOK, AxisOf, Axis
<1>2. p \in [Axis -> Int]
  BY <1>1
<1>3. ScrollToFrame(d, r).pos = Clamped(p, contentSize, frameSize, horizontal)
  BY DEF ScrollToFrame
<1> HIDE DEF p
<1> QED BY <1>2, <1>3, ClampedGood

\* scrollInDirection: the results of all its branches are good, but for an offset
\* that is not cut.
LEMMA ScrollInDirectionGood ==
  ASSUME ScrollInv, NEW d \in Direction, NEW r \in CandidateFrame \cup {NoFrame}
  PROVE  LET result == ScrollInDirection(r, d)
         IN  /\ result.pos \in [Axis -> Int] /\ (~Uncut(d) => Good(result.pos))
             /\ result.status \in {"noScroll", "scrollOnly", "scrollToFocus"}
<1>0. ScrollInDirection(r, d).status \in {"noScroll", "scrollOnly", "scrollToFocus"}
  BY DEF ScrollInDirection, HandleScroll, HandleSnapToOffsetScroll, ScrollToFrame
<1>1. CASE ~CanScrollInDirection(d)
  BY <1>0, <1>1, PositionGood DEF ScrollInDirection, Good
<1>2. CASE CanScrollInDirection(d) /\ props.snaps # {}
  <2>1. ScrollInDirection(r, d) = HandleSnapToOffsetScroll(d, r)
    BY <1>2 DEF ScrollInDirection
  <2> QED BY <1>0, <1>2, <2>1, SnapGood
<1>3. CASE CanScrollInDirection(d) /\ props.snaps = {}
  <2>1. \/ ScrollInDirection(r, d).pos = GetNextScrollPosition(d)
        \/ ScrollInDirection(r, d).pos = scrollPos
        \/ r # NoFrame /\ ScrollInDirection(r, d) = ScrollToFrame(d, r)
    BY <1>3 DEF ScrollInDirection, HandleScroll
  <2>2. Good(GetNextScrollPosition(d))
    BY <1>3, NextGood
  <2>3. Good(ScrollInDirection(r, d).pos)
    BY <2>1, <2>2, PositionGood, ToFrameGood DEF Good
  <2> QED BY <1>0, <2>3 DEF Good
<1> QED BY <1>1, <1>2, <1>3

\* A step that only moves a scroll view, into the range unless it says otherwise,
\* keeps the invariant.
LEMMA MoveKeepsInv ==
  ASSUME ScrollInv, scrollPos' \in [Axis -> Int], beyond' \in BOOLEAN,
         ~stale /\ ~beyond' => Placed(scrollPos'),
         UNCHANGED <<contentSize, frameSize, horizontal, stale>>, props' \in ScrollProps,
         look' \in Looks, DecisionInRange'
  PROVE  ScrollInv'
<1>1. ScrollTypeOK'
  BY DEF ScrollInv, ScrollTypeOK, Looks
<1>2. AxisFollowsSizes'
  BY DEF ScrollInv, AxisFollowsSizes
<1>3. OffsetInRange'
  <2>1. Placed(scrollPos') <=> Within(scrollPos', Sizes)
    BY SizesTyped, RangeForm DEF ScrollInv, Placed, Sizes
  <2>2. Sizes' = Sizes
    BY DEF Sizes
  <2> QED BY <2>1, <2>2 DEF OffsetInRange
<1> QED BY <1>1, <1>2, <1>3 DEF ScrollInv

\* What a key has decided is left alone by all that does not change it.
LEMMA LookKept ==
  ASSUME ScrollInv, UNCHANGED look
  PROVE  look' \in Looks /\ DecisionInRange'
BY DEF ScrollInv, ScrollTypeOK, Looks, DecisionInRange, Within

\* A step that hands over sizes and puts the position into their range.
LEMMA ResizeKeepsInv ==
  ASSUME ScrollInv, contentSize' \in ContentSize, frameSize' \in FrameSize, props' \in ScrollProps,
         NEW p \in [Axis -> Int], stale' = FALSE, beyond' = FALSE, UNCHANGED look,
         horizontal' = (contentSize'.x > frameSize'.x),
         scrollPos' = Clamped(p, contentSize', frameSize', horizontal')
  PROVE  ScrollInv'
<1>1. /\ contentSize' \in [Axis -> Nat] /\ frameSize' \in [Axis -> Nat]
      /\ horizontal' \in BOOLEAN
  BY SizesAreNat
<1>2. InRange(scrollPos', contentSize', frameSize', horizontal')
  BY <1>1, ClampedInRange
<1>3. scrollPos' \in [Axis -> Int]
  BY <1>2 DEF InRange
<1>4. ScrollTypeOK' /\ AxisFollowsSizes' /\ DecisionInRange'
  BY <1>1, <1>3, LookKept DEF ScrollTypeOK, AxisFollowsSizes, Looks
<1>5. OffsetInRange'
  BY <1>1, <1>2, <1>3, RangeForm DEF OffsetInRange, Sizes
<1> QED BY <1>4, <1>5 DEF ScrollInv

\* What a key decides, or finds visible, is in range or known to be doubtful.
LEMMA LookGood ==
  ASSUME ScrollInv, NEW status \in {"visible", "scrollOnly", "scrollToFocus"},
         NEW p \in [Axis -> Int], NEW doubtful \in BOOLEAN,
         status # "visible" /\ ~doubtful => Placed(p),
         Look([status |-> status, pos |-> p], doubtful),
         UNCHANGED <<scrollPos, viewVars, beyond>>
  PROVE  ScrollInv'
<1>1. /\ props \in ScrollProps /\ scrollPos \in [Axis -> Int] /\ beyond \in BOOLEAN
      /\ ~stale /\ ~beyond => Placed(scrollPos)
  BY PositionGood DEF ScrollInv, ScrollTypeOK, Good
<1>2. UNCHANGED <<contentSize, frameSize, horizontal, props, stale>>
  BY DEF viewVars
<1>3. look' = [status |-> status, pos |-> p, sizes |-> Sizes, props |-> props,
               doubtful |-> doubtful]
  BY DEF Look
<1>4. look' \in Looks
  <2>1. Sizes \in (ContentSize \cup {Origin}) \X FrameSize \X BOOLEAN
    BY DEF Sizes, ScrollInv, ScrollTypeOK
  <2> QED BY <1>1, <1>3, <2>1 DEF Looks
<1>5. DecisionInRange'
  <2>1. Placed(p) <=> Within(p, Sizes)
    BY SizesTyped, RangeForm DEF ScrollInv, Placed, Sizes
  <2> QED BY <1>3, <2>1 DEF DecisionInRange
<1> QED BY <1>1, <1>2, <1>4, <1>5, MoveKeepsInv

\* A component that is given the focus on the main thread is scrolled to.
LEMMA MoveToKeepsInv ==
  ASSUME ScrollInv, NEW r \in CandidateFrame, MoveTo(ScrollTo(r))
  PROVE  ScrollInv'
<1>1. \/ ScrollTo(r).status = "noScroll" /\ ScrollTo(r).pos = scrollPos
      \/ \E d : ScrollTo(r) = ScrollToFrame(d, r)
  BY DEF ScrollTo
<1>2. /\ scrollPos' = ScrollTo(r).pos /\ beyond' = (beyond /\ ScrollTo(r).status = "noScroll")
      /\ UNCHANGED <<contentSize, frameSize, horizontal, props, stale, look>>
  BY DEF MoveTo, viewVars
<1>3. /\ scrollPos' \in [Axis -> Int] /\ beyond' \in BOOLEAN
      /\ ~stale /\ ~beyond' => Placed(scrollPos')
  <2>1. CASE ScrollTo(r).status = "noScroll" /\ ScrollTo(r).pos = scrollPos
    BY <1>2, <2>1, PositionGood DEF Good, ScrollInv, ScrollTypeOK
  <2>2. ASSUME NEW d, ScrollTo(r) = ScrollToFrame(d, r)
        PROVE  /\ scrollPos' \in [Axis -> Int] /\ beyond' \in BOOLEAN
               /\ ~stale /\ ~beyond' => Placed(scrollPos')
    BY <1>2, <2>2, ToFrameGood DEF ScrollInv, ScrollTypeOK
  <2> QED BY <1>1, <2>1, <2>2
<1>4. props' \in ScrollProps
  BY <1>2 DEF ScrollInv, ScrollTypeOK
<1> QED BY <1>2, <1>3, <1>4, LookKept, MoveKeepsInv

\* Every step of the scroll view keeps the inductive invariant.
THEOREM ScrollStep == ScrollInv /\ [ScrollNext]_scrollVars => ScrollInv'
<1> SUFFICES ASSUME ScrollInv, [ScrollNext]_scrollVars PROVE ScrollInv'
  OBVIOUS
<1>1. /\ props \in ScrollProps /\ frameSize \in FrameSize /\ scrollPos \in [Axis -> Int]
      /\ stale \in BOOLEAN /\ beyond \in BOOLEAN
      /\ \A q \in ScrollProps : q.offset \in [Axis -> Int]
      /\ Origin \in [Axis -> Int] /\ NoLook \in Looks
      /\ ~stale /\ ~beyond => Placed(scrollPos)
  BY ScrollAssumption, PositionGood DEF ScrollInv, ScrollTypeOK, Origin, Looks, Good
<1>2. CASE CreateScroller
  BY <1>1, <1>2, ResizeKeepsInv DEF CreateScroller
<1>3. ASSUME NEW q \in ScrollProps, UpdateComponentProps(q) PROVE ScrollInv'
  <2>1. q.offset \in [Axis -> Int]
    BY <1>1
  <2>2. scrollPos' \in [Axis -> Int] /\ (~stale /\ ~beyond' => Placed(scrollPos'))
    BY <1>1, <1>3, <2>1, ClampedGood DEF UpdateComponentProps
  <2> QED BY <1>1, <1>3, <2>2, LookKept, MoveKeepsInv DEF UpdateComponentProps
<1>4. ASSUME NEW c \in ContentSize, UpdateComponentState(c) PROVE ScrollInv'
  BY <1>1, <1>4, ResizeKeepsInv DEF UpdateComponentState
<1>5. ASSUME NEW f \in FrameSize, UpdateLayout(f) PROVE ScrollInv'
  <2>1. look' \in Looks /\ DecisionInRange'
    BY <1>5, LookKept DEF UpdateLayout
  <2> QED BY <1>5, <2>1
          DEF UpdateLayout, ScrollInv, ScrollTypeOK, AxisFollowsSizes, OffsetInRange, Looks
<1>6. CASE ScrollToEnd
  <2>1. contentSize \in [Axis -> Nat] /\ frameSize \in [Axis -> Nat] /\ horizontal \in BOOLEAN
    BY SizesTyped DEF ScrollInv
  <2>2. scrollPos' \in [Axis -> Int] /\ (~stale => Placed(scrollPos'))
    <3>1. CASE horizontal
      <4>1. ~stale => contentSize["x"] > frameSize["x"]
        BY <3>1 DEF ScrollInv, AxisFollowsSizes
      <4> QED BY <1>6, <2>1, <3>1, <4>1
              DEF ScrollToEnd, Placed, InRange, ScrollAxis, Origin, Axis
    <3>2. CASE ~horizontal
      BY <1>6, <2>1, <3>2 DEF ScrollToEnd, Placed, InRange, ScrollAxis, Origin, Axis
    <3> QED BY <2>1, <3>1, <3>2
  <2> QED BY <1>1, <1>6, <2>2, LookKept, MoveKeepsInv DEF ScrollToEnd, viewVars
<1>7. ASSUME NEW o \in Offset, ScrollToOffset(o) PROVE ScrollInv'
  <2>1. scrollPos' \in [Axis -> Int] /\ (~stale => Placed(scrollPos'))
    BY <1>7, ScrollAssumption, ClampedGood DEF ScrollToOffset
  <2> QED BY <1>1, <1>7, <2>1, LookKept, MoveKeepsInv DEF ScrollToOffset, viewVars
<1>8. ASSUME NEW d \in Direction, NEW r \in CandidateFrame \cup {NoFrame},
             Decide(ScrollInDirection(r, d), d)
      PROVE  ScrollInv'
  <2> DEFINE result == ScrollInDirection(r, d)
             doubtful == stale \/ beyond \/ Uncut(d)
  <2>1. /\ result.pos \in [Axis -> Int] /\ (~Uncut(d) => Good(result.pos))
        /\ result.status \in {"scrollOnly", "scrollToFocus"}
    BY <1>8, ScrollInDirectionGood DEF Decide
  <2>2. /\ Look(result, doubtful)
        /\ UNCHANGED <<scrollPos, viewVars, beyond>>
    BY <1>8 DEF Decide
  <2> HIDE DEF result
  <2>3. doubtful \in BOOLEAN
    BY <1>1 DEF Uncut
  <2>4. Look([status |-> result.status, pos |-> result.pos], doubtful)
    BY <2>2 DEF Look
  <2>5. ~doubtful => Placed(result.pos)
    BY <2>1 DEF Good
  <2> HIDE DEF doubtful
  <2> QED BY <2>1, <2>2, <2>3, <2>4, <2>5, LookGood
<1>9. ASSUME SetPosition, look' \in {look, NoLook} PROVE ScrollInv'
  <2>1. look.status \in {"scrollOnly", "scrollToFocus"} /\ look \in Looks
    BY <1>9 DEF SetPosition, ScrollInv, ScrollTypeOK
  <2>2. look.pos \in [Axis -> Int] /\ look.doubtful \in BOOLEAN
    BY <2>1 DEF Looks, NoLook
  <2>3. ~beyond' => Placed(scrollPos')
    <3>1. ~beyond' => Within(look.pos, Sizes)
      BY <1>9, <2>1 DEF SetPosition, ScrollInv, DecisionInRange
    <3>2. Placed(look.pos) <=> Within(look.pos, Sizes)
      BY <2>2, SizesTyped, RangeForm DEF ScrollInv, Placed, Sizes
    <3> QED BY <1>9, <3>1, <3>2 DEF SetPosition
  <2>4. look' \in Looks /\ DecisionInRange'
    <3>1. CASE look' = look
      BY <3>1, LookKept
    <3>2. CASE look' = NoLook
      BY <1>1, <3>2 DEF DecisionInRange, NoLook
    <3> QED BY <1>9, <3>1, <3>2
  <2>5. /\ scrollPos' = look.pos /\ beyond' \in BOOLEAN
        /\ UNCHANGED <<contentSize, frameSize, horizontal, props, stale>>
    BY <1>9, <2>2 DEF SetPosition, viewVars
  <2> QED BY <1>1, <2>2, <2>3, <2>4, <2>5, MoveKeepsInv
<1>10. CASE See
  <2>1. Look([status |-> "visible", pos |-> scrollPos], FALSE)
        /\ UNCHANGED <<scrollPos, viewVars, beyond>>
    BY <1>10 DEF See
  <2> QED BY <1>1, <2>1, LookGood
<1>11. CASE Forget
  <2>1. /\ look' = NoLook /\ UNCHANGED <<scrollPos, beyond>>
        /\ UNCHANGED <<contentSize, frameSize, horizontal, props, stale>>
    BY <1>11 DEF Forget, viewVars
  <2>2. DecisionInRange'
    BY <2>1 DEF DecisionInRange, NoLook
  <2> QED BY <1>1, <2>1, <2>2, MoveKeepsInv
<1>12. ASSUME NEW r \in CandidateFrame, MoveTo(ScrollTo(r)) PROVE ScrollInv'
  BY <1>12, MoveToKeepsInv
<1>13. CASE UNCHANGED scrollVars
  <2>1. UNCHANGED <<scrollPos, contentSize, frameSize, horizontal, props, stale, look, beyond>>
    BY <1>13 DEF scrollVars, viewVars
  <2> QED BY <1>1, <2>1, LookKept, MoveKeepsInv
<1> QED BY <1>2, <1>3, <1>4, <1>5, <1>6, <1>7, <1>8, <1>9, <1>10, <1>11, <1>12, <1>13
        DEF ScrollNext, ReactScrolls, NavigatorScrolls

\* So do the initial states.
LEMMA ScrollStart == ScrollInit => ScrollInv
<1> SUFFICES ASSUME ScrollInit PROVE ScrollInv
  OBVIOUS
<1>1. ScrollTypeOK
  <2>1. Origin \in [Axis -> Int]
    BY DEF Origin
  <2> QED BY <2>1 DEF ScrollInit, ScrollTypeOK, Looks
<1>2. frameSize \in [Axis -> Nat]
  BY <1>1, SizesTyped
<1>3. scrollPos = Origin /\ contentSize = Origin /\ horizontal = FALSE /\ look = NoLook
  BY DEF ScrollInit
<1>4. AxisFollowsSizes
  <2>1. (contentSize.x > frameSize.x) = FALSE
    BY <1>2, <1>3 DEF Origin, Axis
  <2> QED BY <1>3, <2>1 DEF AxisFollowsSizes
<1>5. OffsetInRange
  BY <1>2, <1>3 DEF OffsetInRange, Within, Sizes, Origin, Axis
<1>6. DecisionInRange
  BY <1>3 DEF DecisionInRange, NoLook
<1> QED BY <1>1, <1>4, <1>5, <1>6 DEF ScrollInv

\* The position of a scroll view stays in its scroll range, whatever sizes, snap
\* offsets, commands and candidates it is given and however React and a key
\* interleave, with the exceptions that OffsetInRange names.
THEOREM ScrollSafety == ScrollSpec => []OffsetInRange
<1>1. ScrollInv => OffsetInRange
  BY DEF ScrollInv
<1> QED BY <1>1, ScrollStart, ScrollStep, PTL DEF ScrollSpec

-----------------------------------------------------------------------------
(***************************************************************************)
(* The keyboard and its window.                                            *)
(*                                                                         *)
(* An exit holds the mutex from the closing of the window until the two    *)
(* threads are joined; a launch and every drawing need it.  So the request *)
(* to close is always that of the one client that waits for the worker,    *)
(* and where no exit is at work the worker has not ended.                  *)
(***************************************************************************)
Task == {"create", "draw", "close"}
CallPc == {"idle", "launch", "update", "exit", "lock", "join", "release", "joinRepeater"}

\* The queues with a request to close the window.
Closing == {s \in Seq(Task) : \E i \in 1..Len(s) : s[i] = "close"}

KeyboardTypeOK ==
  /\ call \in [Client -> CallPc]
  /\ mutex \in Client \cup {NoClient}
  /\ tasks \in Seq(Task)
  /\ worker \in {"none", "running", "ended"}
  /\ callback \in {"none", "worker", "expose"}

\* The client between the closing of the window and the end of its exit is
\* the one that holds the mutex.
ExitHoldsMutex ==
  \A t \in Client : call[t] \in {"join", "release", "joinRepeater"} <=> mutex = t

\* The worker is asked to end, and ends, only for an exit that joins it; from
\* then on until the exit is over there is no worker.
ExitJoinsWorker ==
  /\ (worker = "ended" \/ tasks \in Closing) => \E t \in Client : call[t] = "join"
  /\ \A t \in Client : call[t] \in {"release", "joinRepeater"} => worker = "none"

\* Without a running worker nothing is left to do and there is no window; if
\* it was joined, the keyboard is not shown, and the repeat thread is joined
\* before the exit ends.
WorkerGone ==
  /\ worker # "running" => tasks = <<>> /\ ~window
  /\ worker = "none" => /\ oskState \in {"inactive", "exiting"}
                        /\ mutex = NoClient => repeater = NoThread

\* Without an expose event the worker itself reports that the window is ready;
\* it does nothing else meanwhile.
ReadyOnWorker ==
  /\ callback # "none" => callback = "worker" /\ worker = "running" /\ window
  /\ ready # "idle" => callback = "worker"
  /\ ~exposeID /\ ~exposing

\* What the state says of the worker and of the window.
StateOfWindow ==
  /\ oskState = "inactive" => worker = "none"
  /\ oskState = "active" => window \/ worker = "ended"

KeyboardInv ==
  /\ KeyboardTypeOK
  /\ (display = "wpe" /\ ~crashed) => /\ ExitHoldsMutex /\ ExitJoinsWorker /\ WorkerGone
                                      /\ ReadyOnWorker /\ StateOfWindow

\* What the queue of the worker holds after its operations.
LEMMA ClosingTasks ==
  /\ <<>> \in Seq(Task) /\ <<>> \notin Closing
  /\ <<"create">> \in Seq(Task) /\ <<"create">> \notin Closing
  /\ \A s \in Seq(Task), x \in Task :
       /\ Append(s, x) \in Seq(Task)
       /\ Append(s, x) \in Closing <=> (s \in Closing \/ x = "close")
  /\ \A s \in Seq(Task) \ {<<>>} :
       /\ Tail(s) \in Seq(Task)
       /\ s \in Closing <=> (Head(s) = "close" \/ Tail(s) \in Closing)
<1>1. <<>> \in Seq(Task) /\ <<>> \notin Closing
  BY EmptySeq DEF Closing
<1>2. <<"create">> \in Seq(Task) /\ <<"create">> \notin Closing
  BY DEF Closing, Task
<1>3. ASSUME NEW s \in Seq(Task), NEW x \in Task
      PROVE  /\ Append(s, x) \in Seq(Task)
             /\ Append(s, x) \in Closing <=> (s \in Closing \/ x = "close")
  <2>1. /\ Append(s, x) \in Seq(Task) /\ Len(s) \in Nat /\ Len(Append(s, x)) = Len(s) + 1
        /\ \A i \in 1..Len(s) : Append(s, x)[i] = s[i]
        /\ Append(s, x)[Len(s) + 1] = x
    BY AppendProperties, LenProperties
  <2>2. ASSUME Append(s, x) \in Closing PROVE s \in Closing \/ x = "close"
    <3>1. PICK i \in 1..Len(Append(s, x)) : Append(s, x)[i] = "close"
      BY <2>2 DEF Closing
    <3>2. i \in 1..Len(s) \/ i = Len(s) + 1
      BY <2>1, <3>1
    <3> QED BY <2>1, <3>1, <3>2 DEF Closing
  <2>3. ASSUME s \in Closing PROVE Append(s, x) \in Closing
    <3>1. PICK i \in 1..Len(s) : s[i] = "close"
      BY <2>3 DEF Closing
    <3>2. i \in 1..Len(Append(s, x)) /\ Append(s, x)[i] = "close"
      BY <2>1, <3>1
    <3> QED BY <2>1, <3>2 DEF Closing
  <2>4. ASSUME x = "close" PROVE Append(s, x) \in Closing
    <3>1. Len(s) + 1 \in 1..Len(Append(s, x))
      BY <2>1
    <3> QED BY <2>1, <2>4, <3>1 DEF Closing
  <2> QED BY <2>1, <2>2, <2>3, <2>4
<1>4. ASSUME NEW s \in Seq(Task) \ {<<>>}
      PROVE  /\ Tail(s) \in Seq(Task)
             /\ s \in Closing <=> (Head(s) = "close" \/ Tail(s) \in Closing)
  <2>1. /\ Tail(s) \in Seq(Task) /\ Len(s) \in Nat \ {0} /\ Len(Tail(s)) = Len(s) - 1
        /\ \A i \in 1..Len(Tail(s)) : Tail(s)[i] = s[i + 1]
        /\ Head(s) = s[1]
    BY HeadTailProperties, LenProperties, EmptySeq
  <2>2. ASSUME s \in Closing, Head(s) # "close" PROVE Tail(s) \in Closing
    <3>1. PICK i \in 1..Len(s) : s[i] = "close"
      BY <2>2 DEF Closing
    <3>2. i - 1 \in 1..Len(Tail(s)) /\ (i - 1) + 1 = i
      BY <3>1, <2>1, <2>2
    <3>3. Tail(s)[i - 1] = "close"
      BY <3>1, <3>2, <2>1
    <3> QED BY <3>2, <3>3, <2>1 DEF Closing
  <2>3. ASSUME Head(s) = "close" PROVE s \in Closing
    BY <2>1, <2>3 DEF Closing
  <2>4. ASSUME Tail(s) \in Closing PROVE s \in Closing
    <3>1. PICK i \in 1..Len(Tail(s)) : Tail(s)[i] = "close"
      BY <2>4 DEF Closing
    <3> QED BY <3>1, <2>1 DEF Closing
  <2> QED BY <2>1, <2>2, <2>3, <2>4
<1> QED BY <1>1, <1>2, <1>3, <1>4

LEMMA KeyboardStart == KeyboardInit => KeyboardInv
BY ClosingTasks, KeyAssumption
   DEF KeyboardInit, DelegatorInit, KeyboardInv, KeyboardTypeOK, CallPc, ExitHoldsMutex,
       ExitJoinsWorker, WorkerGone, ReadyOnWorker, StateOfWindow

\* The steps of the clients.
LEMMA ClientKeepsInv ==
  ASSUME KeyboardInv, NEW t \in Client,
         LaunchCheck(t) \/ UpdateCheck(t) \/ ExitCheck(t) \/ ClientWorks(t)
  PROVE  KeyboardInv'
<1> USE KeyAssumption
    DEF KeyboardInv, KeyboardTypeOK, CallPc, ExitHoldsMutex, ExitJoinsWorker, WorkerGone,
        ReadyOnWorker, StateOfWindow, Step, delegatorVars
<1>1. CASE LaunchCheck(t)
  BY <1>1 DEF LaunchCheck
<1>2. CASE UpdateCheck(t)
  BY <1>2 DEF UpdateCheck
<1>3. CASE ExitCheck(t)
  BY <1>3 DEF ExitCheck
<1>4. CASE Launch(t)
  <2>1. CASE worker = "none"
    <3>1. tasks' \in Seq(Task) /\ tasks' \notin Closing
      BY <1>4, <2>1, ClosingTasks DEF Launch, CreateWindow
    <3>2. (~exposeID' /\ ~exposing') \/ ~(display' = "wpe" /\ ~crashed')
      BY <1>4, <2>1 DEF Launch, CreateWindow
    <3> QED BY <1>4, <2>1, <3>1, <3>2 DEF Launch, CreateWindow
  <2>2. CASE worker # "none"
    BY <1>4, <2>2 DEF Launch
  <2> QED BY <2>1, <2>2
<1>5. CASE UpdateDraw(t)
  <2>1. tasks' = tasks \/ (tasks' = Append(tasks, "draw") /\ worker = "running")
    BY <1>5 DEF UpdateDraw, TriggerRenderRequest, CommitDrawCall
  <2>2. tasks' \in Seq(Task) /\ (tasks' \in Closing => tasks \in Closing)
    <3>1. "draw" \in Task /\ tasks \in Seq(Task)
      BY DEF Task
    <3>2. /\ Append(tasks, "draw") \in Seq(Task)
          /\ Append(tasks, "draw") \in Closing <=> (tasks \in Closing \/ "draw" = "close")
      BY <3>1, ClosingTasks, Zenon
    <3> HIDE DEF Closing, Task
    <3> QED BY <2>1, <3>1, <3>2
  <2> QED BY <1>5, <2>1, <2>2 DEF UpdateDraw, TriggerRenderRequest, CommitDrawCall
<1>6. CASE ExitState(t)
  BY <1>6 DEF ExitState
<1>7. CASE ExitClose(t)
  <2>1. tasks' \in Seq(Task)
    BY <1>7, ClosingTasks DEF ExitClose, CloseWindow, Task
  <2> QED BY <1>7, <2>1 DEF ExitClose, CloseWindow
<1>8. CASE ExitReset(t)
  BY <1>8, ClosingTasks DEF ExitReset, CanJoin
<1>9. CASE ExitRelease(t)
  BY <1>9 DEF ExitRelease
<1>10. CASE ExitJoin(t)
  BY <1>10 DEF ExitJoin
<1> QED BY <1>1, <1>2, <1>3, <1>4, <1>5, <1>6, <1>7, <1>8, <1>9, <1>10 DEF ClientWorks

\* A drawing of a thread that is not in an exit: the queue gets nothing but
\* drawings, and only that of a worker that runs.
LEMMA DrawKeepsQueue ==
  ASSUME KeyboardTypeOK, TriggerRenderRequest
  PROVE  /\ tasks' \in Seq(Task) /\ (tasks' \in Closing => tasks \in Closing)
         /\ tasks' = tasks \/ worker = "running"
         /\ UNCHANGED <<display, worker, window, windowActive, readyCB, exposeID, readyPermits,
                        exposing, callback>>
BY ClosingTasks DEF KeyboardTypeOK, TriggerRenderRequest, CommitDrawCall, Task

\* The steps of the worker's callback, of the keys and of the repeat thread.
LEMMA ThreadKeepsInv ==
  ASSUME KeyboardInv,
         KeyRelease \/ (\E k \in Key : KeyPress(k)) \/ Ready \/ Handler \/ Repeater
  PROVE  KeyboardInv'
<1> USE DEF KeyboardInv, KeyboardTypeOK, CallPc, ExitHoldsMutex, ExitJoinsWorker, WorkerGone,
            ReadyOnWorker, StateOfWindow, delegatorVars
<1>1. CASE KeyRelease
  BY <1>1 DEF KeyRelease, KeyEvent
<1>2. CASE \E k \in Key : KeyPress(k)
  BY <1>2 DEF KeyPress, KeyEvent
<1>3. CASE Ready
  <2>1. CASE ReadyCheck
    BY <2>1 DEF ReadyCheck, ReadyUnchanged, CallbackReturns
  <2>2. CASE ReadySet
    BY <2>2 DEF ReadySet, ReadyUnchanged
  <2>3. CASE ReadyDraw
    BY <2>3, DrawKeepsQueue DEF ReadyDraw, ReadyUnchanged
  <2>4. CASE ReadyStart
    BY <2>4 DEF ReadyStart, ReadyUnchanged, CallbackReturns
  <2> QED BY <1>3, <2>1, <2>2, <2>3, <2>4 DEF Ready
<1>4. CASE Handler
  <2>1. CASE KeyRepeat
    BY <2>1 DEF KeyRepeat
  <2>2. CASE KeyProcess
    BY <2>2 DEF KeyProcess
  <2>3. CASE KeyDraw
    BY <2>3, DrawKeepsQueue DEF KeyDraw, Draws
  <2>4. CASE KeyEmit
    BY <2>4 DEF KeyEmit
  <2> QED BY <1>4, <2>1, <2>2, <2>3, <2>4 DEF Handler
<1>5. CASE Repeater
  <2> USE DEF RepeaterUnchanged, Processing, NoThread, Loop, Ended
  <2>1. CASE RepeatLoop
    BY <2>1 DEF RepeatLoop
  <2>2. CASE RepeatWait
    BY <2>2 DEF RepeatWait
  <2>3. CASE RepeatCheck
    BY <2>3 DEF RepeatCheck
  <2>4. CASE RepeatPop
    BY <2>4 DEF RepeatPop
  <2>5. CASE RepeatDraw
    BY <2>5, DrawKeepsQueue DEF RepeatDraw, Draws
  <2>6. CASE RepeatEmit
    BY <2>6 DEF RepeatEmit
  <2> QED BY <1>5, <2>1, <2>2, <2>3, <2>4, <2>5, <2>6 DEF Repeater
<1> QED BY <1>1, <1>2, <1>3, <1>4, <1>5

\* The steps of the worker, and of the thread that brings an expose event.
LEMMA WorkerKeepsInv ==
  ASSUME KeyboardInv, Window \/ ExposeEvent
  PROVE  KeyboardInv'
<1> USE DEF KeyboardInv, KeyboardTypeOK, CallPc, ExitHoldsMutex, ExitJoinsWorker, WorkerGone,
            ReadyOnWorker, StateOfWindow, oskVars
<1>1. CASE ExposeEvent
  BY <1>1 DEF ExposeEvent, Expose
<1>2. CASE Window
  <2>1. ASSUME NEW x, NextTask(x)
        PROVE  /\ Tail(tasks) \in Seq(Task) /\ (Tail(tasks) \in Closing => tasks \in Closing)
               /\ x = "close" => tasks \in Closing
    BY <2>1, ClosingTasks DEF NextTask
  <2>2. CASE CreateNativeWindow
    BY <1>2, <2>1, <2>2 DEF Window, CreateNativeWindow, NextTask
  <2>3. CASE RenderToDisplay
    BY <1>2, <2>1, <2>3 DEF Window, RenderToDisplay, NextTask
  <2>4. CASE CloseNativeWindow
    BY <1>2, <2>1, <2>4, ClosingTasks DEF Window, CloseNativeWindow, NextTask
  <2>5. CASE OnExposed
    BY <1>2, <2>5 DEF Window, OnExposed
  <2> QED BY <1>2, <2>2, <2>3, <2>4, <2>5 DEF Window
<1> QED BY <1>1, <1>2

\* The invariant holds in every state, for any clients, keys and bounds.
LEMMA KeyboardInvariant == KeyboardSpec => []KeyboardInv
<1>1. KeyboardInv /\ [KeyboardNext]_keyboardVars => KeyboardInv'
  <2> SUFFICES ASSUME KeyboardInv, [KeyboardNext]_keyboardVars PROVE KeyboardInv'
    OBVIOUS
  <2>1. CASE UNCHANGED keyboardVars
    BY <2>1 DEF keyboardVars, delegatorVars, oskVars, KeyboardInv, KeyboardTypeOK, ExitHoldsMutex,
                ExitJoinsWorker, WorkerGone, ReadyOnWorker, StateOfWindow
  <2>2. CASE KeyboardNext
    BY <2>2, ClientKeepsInv, ThreadKeepsInv, WorkerKeepsInv DEF KeyboardNext
  <2> QED BY <2>1, <2>2
<1> QED BY <1>1, KeyboardStart, PTL DEF KeyboardSpec

\* What the keyboard's state says of its window is true wherever no exit is at
\* work, on the platform where the worker reports that the window is ready:
\* however the launches, exits, keys and drawings of any number of threads
\* overlap, an active keyboard has its window, and after an exit neither the
\* window nor a thread is left.
THEOREM KeyboardStateTrue == KeyboardSpec => []StateMatchesWindow
<1>1. KeyboardInv => StateMatchesWindow
  BY KeyAssumption DEF KeyboardInv, StateMatchesWindow, KeyboardTypeOK, ExitHoldsMutex,
                       ExitJoinsWorker, WorkerGone, ReadyOnWorker, StateOfWindow
<1> QED BY <1>1, KeyboardInvariant, PTL

-----------------------------------------------------------------------------
(* Spatial navigation: the tree of components and the climb to a container. *)

\* What SceneAssumption says of Root, Scroller and the parents.
LEMMA SceneFacts ==
  /\ Root \in Component /\ Scroller \in Component /\ None \notin Component
  /\ Root # Scroller
  /\ \A c \in Component \ {Root} : ParentOf[c] \in Component
<1>1. ParentOf[Scroller] = Root /\ ParentOf[Root] = None /\ Root # None
  BY SceneAssumption
<1>2. \A c \in Component \ {Root} : ParentOf[c] \in Component
  BY SceneAssumption
<1> QED BY <1>1, <1>2, SceneAssumption

\* What holds of a component whenever it holds of its parent holds of all: a set
\* that would be the exceptions has a member whose parent is none of them.
LEMMA TopOf ==
  ASSUME NEW S \in SUBSET Component, S # {}
  PROVE  \E c \in S : ParentOf[c] \notin S
BY SceneAssumption

\* A subtree: the component, and of every other member the parent.
LEMMA Subtrees ==
  ASSUME NEW c \in Component \ {Root}
  PROVE  /\ Subtree[c] \subseteq Component \ {Root}
         /\ c \in Subtree[c]
         /\ \A d \in Component : ParentOf[d] \in Subtree[c] => d \in Subtree[c]
         /\ \A d \in Subtree[c] : d # c => ParentOf[d] \in Subtree[c]
         /\ ParentOf[c] \notin Subtree[c]
<1> DEFINE Closed(S) == c \in S /\ \A e \in Component : ParentOf[e] \in S => e \in S
           T == Subtree[c]
<1>1. T = {d \in Component : \A S \in SUBSET Component : Closed(S) => d \in S}
  BY DEF Subtree
<1>2. T \in SUBSET Component /\ c \in T
  BY <1>1
<1>3. ASSUME NEW d \in Component, ParentOf[d] \in T PROVE d \in T
  BY <1>1, <1>3
<1>4. ASSUME NEW S \in SUBSET Component, Closed(S) PROVE T \subseteq S
  BY <1>1, <1>4
<1> HIDE DEF T
<1>5. Root \notin T
  <2>1. Closed(T \ {Root})
    <3>1. ASSUME NEW e \in Component, ParentOf[e] \in T \ {Root} PROVE e \in T \ {Root}
      BY <1>2, <1>3, <3>1, SceneAssumption
    <3> QED BY <1>2, <3>1
  <2> QED BY <1>2, <1>4, <2>1
<1>6. ASSUME NEW d \in T, d # c PROVE ParentOf[d] \in T
  <2> SUFFICES ASSUME ParentOf[d] \notin T PROVE FALSE
    OBVIOUS
  <2>1. Closed(T \ {d})
    BY <1>2, <1>3, <1>6
  <2> QED BY <1>2, <1>4, <2>1
<1>7. ParentOf[c] \notin T
  <2>1. PICK d \in T : ParentOf[d] \notin T
    BY <1>2, TopOf
  <2> QED BY <1>6, <2>1
<1> QED BY <1>2, <1>3, <1>5, <1>6, <1>7 DEF T

-----------------------------------------------------------------------------
(* nearestAncestorContainer and hasAncestor climb from parent to parent.  A *)
(* climb is a recursion over the tree; that there is a function which obeys *)
(* it follows from the least set of components below a given one.           *)

\* The components from which a climb over up, that stops at the containers or
\* at nothing, comes to k.
Under(up, stops, k) ==
  {d \in Component : \A S \in SUBSET Component :
     (\A e \in Component : up[e] = k \/ (up[e] \in S /\ up[e] \notin stops) => e \in S) => d \in S}

\* They are k's children and what hangs on them by components that do not stop
\* the climb.
LEMMA UnderIsLeast ==
  ASSUME NEW up \in [Component -> Component \cup {None}], NEW stops, NEW k \in Component,
         NEW d \in Component
  PROVE  d \in Under(up, stops, k) <=>
           up[d] = k \/ (up[d] \in Under(up, stops, k) /\ up[d] \notin stops)
<1> DEFINE U == Under(up, stops, k)
           Closed(S) == \A e \in Component : up[e] = k \/ (up[e] \in S /\ up[e] \notin stops) => e \in S
<1>1. U = {e \in Component : \A S \in SUBSET Component : Closed(S) => e \in S}
  BY DEF Under
<1>2. U \in SUBSET Component
  BY <1>1
<1>3. Closed(U)
  BY <1>1
<1>4. ASSUME NEW S \in SUBSET Component, Closed(S) PROVE U \subseteq S
  BY <1>1, <1>4
<1> HIDE DEF U
<1>5. ASSUME d \in U, ~(up[d] = k \/ (up[d] \in U /\ up[d] \notin stops)) PROVE FALSE
  <2>1. Closed(U \ {d})
    BY <1>3, <1>5
  <2>2. U \ {d} \in SUBSET Component
    BY <1>2
  <2> QED BY <1>4, <1>5, <2>1, <2>2
<1> QED BY <1>3, <1>5 DEF U

\* The containers.
Container == {Root, Scroller}

\* The recursion of nearestAncestorContainer has a solution.
LEMMA ClimbExists ==
  ASSUME NEW up \in [Component -> Component \cup {None}]
  PROVE  \E f : f = [d \in Component |->
                       IF up[d] = None \/ IsContainer(up[d]) THEN up[d] ELSE f[up[d]]]
<1> DEFINE R == Under(up, Container, Root)
           S == Under(up, Container, Scroller)
           f == [d \in Component |-> IF d \in R THEN Root ELSE IF d \in S THEN Scroller ELSE None]
<1>1. \A d \in Component : d \in R <=> up[d] = Root \/ (up[d] \in R /\ up[d] \notin Container)
  BY SceneFacts, UnderIsLeast
<1>2. \A d \in Component : d \in S <=> up[d] = Scroller \/ (up[d] \in S /\ up[d] \notin Container)
  BY SceneFacts, UnderIsLeast
<1> HIDE DEF R, S
<1>3. ASSUME NEW d \in Component
      PROVE  f[d] = IF up[d] = None \/ IsContainer(up[d]) THEN up[d] ELSE f[up[d]]
  <2>1. CASE up[d] = None
    <3>1. d \notin R /\ d \notin S
      <4>1. None \notin R /\ None \notin S
        BY SceneFacts DEF R, S, Under
      <4> QED BY <1>1, <1>2, <2>1, <4>1, SceneFacts
    <3> QED BY <2>1, <3>1
  <2>2. CASE up[d] = Root
    BY <1>1, <2>2 DEF IsContainer
  <2>3. CASE up[d] = Scroller
    BY <1>1, <1>2, <2>3, SceneFacts DEF IsContainer, Container
  <2>4. CASE up[d] \in Component \ Container
    BY <1>1, <1>2, <2>4, SceneFacts DEF IsContainer, Container
  <2> QED BY <2>1, <2>2, <2>3, <2>4 DEF Container
<1>4. f = [d \in Component |-> IF up[d] = None \/ IsContainer(up[d]) THEN up[d] ELSE f[up[d]]]
  <2>1. f = [d \in Component |-> f[d]]
    OBVIOUS
  <2> HIDE DEF f
  <2> QED BY <1>3, <2>1, Zenon
<1> QED BY <1>4

\* nearestAncestorContainer, one step of the climb.
LEMMA NearestUnfolds ==
  ASSUME parent \in [Component -> Component \cup {None}], NEW c \in Component
  PROVE  NearestAncestorContainer(c) =
           IF parent[c] = None \/ IsContainer(parent[c]) THEN parent[c]
           ELSE NearestAncestorContainer(parent[c])
<1> DEFINE nearest[d \in Component] ==
             IF parent[d] = None \/ IsContainer(parent[d]) THEN parent[d] ELSE nearest[parent[d]]
<1>1. \A d : NearestAncestorContainer(d) = nearest[d]
  BY DEF NearestAncestorContainer
<1>2. \E f : f = [d \in Component |->
                    IF parent[d] = None \/ IsContainer(parent[d]) THEN parent[d] ELSE f[parent[d]]]
  BY ClimbExists
<1>3. nearest = [d \in Component |->
                   IF parent[d] = None \/ IsContainer(parent[d]) THEN parent[d] ELSE nearest[parent[d]]]
  BY <1>2, Zenon DEF nearest
<1> HIDE DEF nearest
<1>4. nearest[c] = IF parent[c] = None \/ IsContainer(parent[c]) THEN parent[c] ELSE nearest[parent[c]]
  BY <1>3, Zenon
<1> QED BY <1>1, <1>4

\* hasAncestor, one step of the climb.
LEMMA AncestorUnfolds ==
  ASSUME parent \in [Component -> Component \cup {None}],
         NEW c \in Component, NEW k \in Component
  PROVE  HasAncestor(c, k) <=>
           parent[c] # None /\ (parent[c] = k \/ HasAncestor(parent[c], k))
<1> DEFINE has[d \in Component] == parent[d] # None /\ (parent[d] = k \/ has[parent[d]])
           U == Under(parent, {}, k)
           f == [d \in Component |-> d \in U]
<1>1. \A d : HasAncestor(d, k) = has[d]
  BY DEF HasAncestor
<1>2. \A d \in Component : d \in U <=> parent[d] = k \/ parent[d] \in U
  BY UnderIsLeast
<1>3. None \notin U /\ None \notin Component
  BY SceneFacts DEF Under
<1> HIDE DEF U, has
<1>4. ASSUME NEW d \in Component
      PROVE  f[d] = (parent[d] # None /\ (parent[d] = k \/ f[parent[d]]))
  <2>1. CASE parent[d] = None
    BY <1>2, <1>3, <2>1
  <2>2. CASE parent[d] \in Component
    <3>1. f[d] = (d \in U) /\ f[parent[d]] = (parent[d] \in U)
      BY <2>2
    <3>2. parent[d] # None
      BY <1>3, <2>2
    <3>3. (d \in U) = (parent[d] = k \/ parent[d] \in U)
      BY <1>2
    <3>4. (d \in U) = (parent[d] # None /\ (parent[d] = k \/ parent[d] \in U))
      BY <3>2, <3>3
    <3> HIDE DEF f
    <3> QED BY <3>1, <3>4, Zenon
  <2> QED BY <2>1, <2>2
<1>5. f = [d \in Component |-> parent[d] # None /\ (parent[d] = k \/ f[parent[d]])]
  <2>1. f = [d \in Component |-> f[d]]
    OBVIOUS
  <2> HIDE DEF f
  <2> QED BY <1>4, <2>1, Zenon
<1> HIDE DEF f
<1>6. has = [d \in Component |-> parent[d] # None /\ (parent[d] = k \/ has[parent[d]])]
  BY <1>5, Zenon DEF has
<1>7. has[c] = (parent[c] # None /\ (parent[c] = k \/ has[parent[c]]))
  BY <1>6, Zenon
<1> QED BY <1>1, <1>7

-----------------------------------------------------------------------------
(* The inductive invariant of spatial navigation.  ListsComplete speaks of  *)
(* components that are mounted, but while a subtree is put together the     *)
(* focusable components of it are collected in the lists of components that *)
(* are no containers, and a component that is moved takes those below it    *)
(* off the screen and back.  So the invariant says where a component is     *)
(* listed whether it is mounted or not: h gives, for every component, the   *)
(* container above it or the root of the unfinished subtree it belongs to.  *)
(* A component that was updated while the code found no container above it  *)
(* (missed) is listed nowhere for certain, until it is updated again.       *)

Child == Component \ {Root}

Transaction ==
  [insert : SUBSET Child, delete : SUBSET Child, move : SUBSET Child, update : SUBSET Child]

KeyType == [pc : {"idle", "search", "test", "scroll", "set", "take"}, dir : Direction,
            container : Component \cup {None}, candidate : Child \cup {None},
            ancestor : BOOLEAN, visibleOnly : BOOLEAN, entered : {None, Scroller}]

NavTypeOK ==
  /\ alive \subseteq Component /\ Root \in alive
  /\ parent \in [Component -> Component \cup {None}]
  /\ nav \in [Component -> Seq(Child)] /\ missed \subseteq Component
  /\ currentFocus \in Child \cup {None} /\ currentContainer \in Component \cup {None}
  /\ todo \in Transaction
  /\ key \in KeyType /\ (key.pc # "idle" => key.container # None)
  /\ dangling \in BOOLEAN

\* The tree as far as it stands, and what the rest of the transaction is about.
TreeOK ==
  /\ \A c \in Component : parent[c] \in {None, ParentOf[c]}
  /\ \A c \in alive \ {Root} : ParentOf[c] \in alive
  /\ \A c \in Component \ alive : parent[c] = None
  /\ \A c \in alive \ {Root} :
       parent[c] = None => c \in todo.insert \cup todo.delete \cup todo.move
  /\ \A c \in todo.insert : parent[c] = None
  /\ todo.insert \cup todo.delete \cup todo.move \subseteq alive
  /\ \A c \in alive : ParentOf[c] \in todo.delete => c \in todo.delete
  /\ todo.delete # {} => todo.insert = {} /\ todo.move = {}
  /\ todo.move # {} => todo.insert = {}
  /\ todo.update \subseteq alive \cap Item
  /\ todo.update # {} => todo.insert = {} /\ todo.delete = {}

\* A is a part of the screen that the transaction leaves alone, and what it
\* inserts or moves hangs on A or on something that it inserts.
Attached(A, up, insert, move) ==
  /\ Root \in A
  /\ \A d \in A \ {Root} : up[d] = ParentOf[d] /\ ParentOf[d] \in A /\ d \notin move
  /\ \A c \in insert \cup move : ParentOf[c] \in A \cup insert

AttachedSomewhere ==
  \E A \in SUBSET Component : Attached(A, parent, todo.insert, todo.move)

\* Climbing from a component along the parents that React gives, h is the first
\* container or component that is still to be inserted.
Held(insert, h) ==
  \A d \in Child :
    h[d] = IF IsContainer(ParentOf[d]) \/ ParentOf[d] \in insert THEN ParentOf[d]
           ELSE h[ParentOf[d]]

Covers(h, living, up, able, lists, lost) ==
  \A c \in living \ ({Root} \cup lost) :
    up[c] # None /\ (c \in able \/ IsContainer(c)) => c \in ToSet(lists[h[c]])

ListsCover ==
  \E h \in [Component -> Component] :
    Held(todo.insert, h) /\ Covers(h, alive, parent, focusable, nav, missed)

\* Frames that fit and frames that are shown, in terms of sizes and a position.
FitsIn(r, sizes) ==
  \A a \in Axis :
    /\ 0 <= r.lo[a] /\ r.hi[a] <= sizes[1][a]
    /\ r.hi[a] - (IF a = (IF sizes[3] THEN "x" ELSE "y") THEN r.lo[a] ELSE 0) <= sizes[2][a]

ShownAt(r, pos, sizes) ==
  \A a \in Axis : pos[a] <= r.lo[a] /\ r.hi[a] <= pos[a] + sizes[2][a]

\* What the key in hand and its last look at the scroll view have to do with each
\* other: what it found visible, or decided to scroll to, is shown by the position
\* that it found.  Nothing that React does changes this.
LookShows ==
  /\ key.container = Scroller /\ key.candidate \in Item
  /\ key.pc = "take" \/ (key.pc = "set" /\ look.status = "scrollToFocus")
  /\ look.props.snaps = {} /\ ~look.props.paging
  /\ look.sizes[3] => look.sizes[1]["x"] > look.sizes[2]["x"]
  /\ FitsIn(FrameOf[key.candidate], look.sizes)
  => ShownAt(FrameOf[key.candidate], look.pos, look.sizes)

KeyLook ==
  /\ key.pc = "take" => key.candidate # None
  /\ key.pc = "set" => /\ key.container = Scroller
                       /\ look.status = "scrollToFocus" => key.candidate \notin {None, Scroller}
  /\ LookShows

NavInv == NavTypeOK /\ TreeOK /\ AttachedSomewhere /\ ListsCover /\ KeyLook

-----------------------------------------------------------------------------
(* Lists of components.                                                    *)

\* Two lists, one after the other.
LEMMA Joined ==
  ASSUME NEW S, NEW s \in Seq(S), NEW t \in Seq(S)
  PROVE  s \o t \in Seq(S) /\ ToSet(s \o t) = ToSet(s) \cup ToSet(t)
<1>1. /\ s \o t \in Seq(S) /\ Len(s \o t) = Len(s) + Len(t)
      /\ \A i \in 1..(Len(s) + Len(t)) :
           (s \o t)[i] = IF i <= Len(s) THEN s[i] ELSE t[i - Len(s)]
  BY ConcatProperties
<1>2. /\ Len(s) \in Nat /\ Len(t) \in Nat
      /\ DOMAIN s = 1..Len(s) /\ DOMAIN t = 1..Len(t) /\ DOMAIN (s \o t) = 1..(Len(s) + Len(t))
  BY <1>1, LenProperties
<1> DEFINE j == s \o t
<1> HIDE DEF j
<1>3. ASSUME NEW x \in ToSet(s) PROVE x \in ToSet(j)
  <2>1. PICK i \in 1..Len(s) : x = s[i]
    BY <1>2 DEF ToSet
  <2>2. i \in 1..(Len(s) + Len(t)) /\ i <= Len(s)
    BY <1>2
  <2> QED BY <1>1, <1>2, <2>1, <2>2 DEF ToSet, j
<1>4. ASSUME NEW x \in ToSet(t) PROVE x \in ToSet(j)
  <2>1. PICK i \in 1..Len(t) : x = t[i]
    BY <1>2 DEF ToSet
  <2>2. /\ Len(s) + i \in 1..(Len(s) + Len(t)) /\ ~(Len(s) + i <= Len(s))
        /\ (Len(s) + i) - Len(s) = i
    BY <1>2
  <2>3. j[Len(s) + i] = x
    BY <1>1, <2>1, <2>2 DEF j
  <2> QED BY <1>2, <2>2, <2>3 DEF ToSet, j
<1>5. ASSUME NEW x \in ToSet(j) PROVE x \in ToSet(s) \cup ToSet(t)
  <2>1. PICK i \in 1..(Len(s) + Len(t)) : x = j[i]
    BY <1>2 DEF ToSet, j
  <2>2. i <= Len(s) => i \in 1..Len(s)
    BY <1>2
  <2>3. ~(i <= Len(s)) => i - Len(s) \in 1..Len(t)
    BY <1>2
  <2> QED BY <1>1, <1>2, <2>1, <2>2, <2>3 DEF ToSet, j
<1> QED BY <1>1, <1>3, <1>4, <1>5 DEF j

\* Of a set of positions that is not empty, the least and the greatest.
LEMMA Extremes ==
  ASSUME NEW n \in Nat, NEW I \in SUBSET (1..n), I # {}
  PROVE  (\E i \in I : \A j \in I : i <= j) /\ (\E i \in I : \A j \in I : i >= j)
<1> DEFINE R == {p \in Nat \X Nat : p[1] < p[2]}
           K == {k \in Nat : \E i \in I : k = n - i}
<1>1. IsWellFoundedOn(R, Nat)
  BY NatLessThanWellFounded DEF OpToRel
<1>2. I \in SUBSET Nat /\ K \in SUBSET Nat /\ K # {}
  <2>1. PICK i \in I : TRUE
    OBVIOUS
  <2>2. n - i \in Nat /\ n - i \in K
    BY <2>1
  <2>3. 1..n \subseteq Nat
    OBVIOUS
  <2> QED BY <2>2, <2>3
<1>3. PICK i \in I : \A j \in I : ~(<<j, i>> \in R)
  BY <1>1, <1>2, WFMin
<1>4. \A j \in I : i <= j
  <2> SUFFICES ASSUME NEW j \in I, ~(i <= j) PROVE FALSE
    OBVIOUS
  <2>1. j \in Nat /\ i \in Nat /\ j < i
    BY <1>2
  <2>2. <<j, i>> \in R
    BY <2>1
  <2> QED BY <1>3, <2>2
<1>5. PICK k \in K : \A l \in K : ~(<<l, k>> \in R)
  <2> HIDE DEF K
  <2> QED BY <1>1, <1>2, WFMin
<1>6. PICK g \in I : k = n - g
  BY <1>5
<1>7. \A j \in I : g >= j
  <2> SUFFICES ASSUME NEW j \in I, ~(g >= j) PROVE FALSE
    OBVIOUS
  <2>1. n - j \in K /\ n - j < k /\ k \in Nat
    BY <1>2, <1>5, <1>6
  <2> QED BY <1>5, <2>1
<1> QED BY <1>4, <1>7

\* A list without the first occurrence of e keeps everything else.
LEMMA Removed ==
  ASSUME NEW S, NEW s \in Seq(S), NEW e
  PROVE  RemoveFirst(s, e) \in Seq(S) /\ ToSet(s) \ {e} \subseteq ToSet(RemoveFirst(s, e))
<1>1. CASE ~\E i \in 1..Len(s) : s[i] = e
  BY <1>1 DEF RemoveFirst
<1>2. CASE \E i \in 1..Len(s) : s[i] = e
  <2> DEFINE I == {i \in 1..Len(s) : s[i] = e}
             m == SelectInSeq(s, LAMBDA v : v = e)
             kept == SubSeq(s, 1, m - 1)
             back == SubSeq(s, m + 1, Len(s))
  <2>1. m = Min(I) /\ Len(s) \in Nat /\ I \in SUBSET (1..Len(s)) /\ I # {}
    BY <1>2, LenProperties DEF SelectInSeq
  <2>2. m \in I
    <3> HIDE DEF I, m
    <3>1. \E i \in I : \A j \in I : i <= j
      BY <2>1, Extremes
    <3> QED BY <2>1, <3>1 DEF Min
  <2>3. m \in 1..Len(s) /\ s[m] = e
    BY <2>2
  <2>4. RemoveFirst(s, e) = kept \o back
    BY <1>2 DEF RemoveFirst, RemoveAt
  <2> HIDE DEF I, m
  <2>5. /\ kept \in Seq(S) /\ back \in Seq(S)
        /\ Len(kept) = m - 1 /\ \A i \in 1..(m - 1) : kept[i] = s[i]
        /\ Len(back) = Len(s) - m /\ \A i \in 1..(Len(s) - m) : back[i] = s[m + i]
    <3>1. \A i \in 1..Len(s) : s[i] \in S
      BY ElementOfSeq
    <3>2. m \in Nat /\ Len(s) \in Nat /\ 1 <= m /\ m <= Len(s)
      BY <2>1, <2>3
    <3> QED BY <3>1, <3>2, SubSeqProperties
  <2> HIDE DEF kept, back
  <2>6. /\ kept \o back \in Seq(S)
        /\ ToSet(kept \o back) = ToSet(kept) \cup ToSet(back)
    BY <2>5, Joined
  <2>7. ASSUME NEW x \in ToSet(s), x # e PROVE x \in ToSet(kept) \cup ToSet(back)
    <3>1. PICK i \in 1..Len(s) : x = s[i]
      BY LenProperties DEF ToSet
    <3>2. DOMAIN kept = 1..(m - 1) /\ DOMAIN back = 1..(Len(s) - m)
      BY <2>5, LenProperties
    <3>3. CASE i < m
      <4>1. i \in 1..(m - 1)
        BY <2>1, <2>3, <3>3
      <4>2. kept[i] = x
        BY <2>5, <3>1, <4>1
      <4> QED BY <3>2, <4>1, <4>2 DEF ToSet
    <3>4. CASE i > m
      <4>1. i - m \in 1..(Len(s) - m) /\ m + (i - m) = i
        BY <2>1, <2>3, <3>4
      <4>2. back[i - m] = x
        BY <2>5, <3>1, <4>1
      <4> QED BY <3>2, <4>1, <4>2 DEF ToSet
    <3> QED BY <2>1, <2>3, <2>7, <3>1, <3>3, <3>4
  <2> QED BY <2>4, <2>6, <2>7
<1> QED BY <1>1, <1>2

-----------------------------------------------------------------------------
(* The container that the code climbs to, and the list that h names.       *)

\* The climb ends at a container, or at nothing.
LEMMA NearestIsContainer ==
  ASSUME NavTypeOK, TreeOK, NEW c \in Component
  PROVE  NearestAncestorContainer(c) \in {None, Root, Scroller}
<1> DEFINE N(d) == NearestAncestorContainer(d)
           S == {d \in Component : N(d) \notin {None, Root, Scroller}}
<1> SUFFICES ASSUME S # {} PROVE FALSE
  OBVIOUS
<1>1. PICK d \in S : ParentOf[d] \notin S
  BY TopOf
<1>2. parent \in [Component -> Component \cup {None}]
  BY DEF NavTypeOK
<1>3. N(d) = IF parent[d] = None \/ IsContainer(parent[d]) THEN parent[d] ELSE N(parent[d])
  BY <1>2, NearestUnfolds
<1>4. parent[d] \in {None, ParentOf[d]} /\ parent[d] \in Component \cup {None}
  BY <1>2 DEF TreeOK
<1>5. parent[d] # None /\ ~IsContainer(parent[d])
  BY <1>1, <1>3 DEF IsContainer
<1>6. N(parent[d]) \in {None, Root, Scroller}
  BY <1>1, <1>4, <1>5
<1> QED BY <1>1, <1>3, <1>5, <1>6

\* Where nothing is missing between a component and the root, it is the same.
LEMMA NearestIsHolder ==
  ASSUME NavTypeOK, NEW insert, NEW h, Held(insert, h), NEW Q \in SUBSET Child,
         \A d \in Q : parent[d] = ParentOf[d] /\ ParentOf[d] \in Q \cup {Root} /\ d \notin insert,
         NEW c \in Q
  PROVE  NearestAncestorContainer(c) = h[c] /\ h[c] # None
<1> DEFINE N(d) == NearestAncestorContainer(d)
           S == {d \in Q : ~(N(d) = h[d] /\ h[d] # None)}
<1> SUFFICES ASSUME S # {} PROVE FALSE
  OBVIOUS
<1>0. S \in SUBSET Component
  BY DEF Child
<1>1. PICK d \in S : ParentOf[d] \notin S
  <2> HIDE DEF S
  <2> QED BY <1>0, TopOf
<1>2. parent \in [Component -> Component \cup {None}] /\ d \in Child /\ d \in Component
  BY DEF NavTypeOK, Child
<1>3. N(d) = IF parent[d] = None \/ IsContainer(parent[d]) THEN parent[d] ELSE N(parent[d])
  BY <1>2, NearestUnfolds
<1>4. parent[d] = ParentOf[d] /\ ParentOf[d] \in Component /\ ParentOf[d] # None
  BY <1>2, SceneFacts DEF Child
<1>5. h[d] = IF IsContainer(ParentOf[d]) \/ ParentOf[d] \in insert THEN ParentOf[d]
             ELSE h[ParentOf[d]]
  BY <1>2 DEF Held
<1>6. CASE IsContainer(ParentOf[d])
  BY <1>1, <1>3, <1>4, <1>5, <1>6
<1>7. CASE ~IsContainer(ParentOf[d])
  <2>1. ParentOf[d] \in Q
    BY <1>7 DEF IsContainer
  <2>2. ParentOf[d] \notin insert /\ N(ParentOf[d]) = h[ParentOf[d]] /\ h[ParentOf[d]] # None
    BY <1>1, <2>1
  <2> QED BY <1>1, <1>3, <1>4, <1>5, <1>7, <2>2
<1> QED BY <1>6, <1>7

\* When nothing is to be inserted, h is the container in the tree of React.
LEMMA HolderExists == \E h \in [Component -> Component] : Held({}, h)
<1> DEFINE T == Subtree[Scroller] \ {Scroller}
           h == [d \in Component |-> IF d \in T THEN Scroller ELSE Root]
<1>1. /\ Subtree[Scroller] \subseteq Component \ {Root}
      /\ \A d \in Component : ParentOf[d] \in Subtree[Scroller] => d \in Subtree[Scroller]
      /\ \A d \in Subtree[Scroller] : d # Scroller => ParentOf[d] \in Subtree[Scroller]
      /\ Scroller \in Subtree[Scroller]
  BY SceneFacts, Subtrees
<1>2. ParentOf[Scroller] = Root
  BY SceneAssumption
<1>3. h \in [Component -> Component]
  BY SceneFacts
<1>4. ASSUME NEW d \in Child
      PROVE  h[d] = IF IsContainer(ParentOf[d]) \/ ParentOf[d] \in {} THEN ParentOf[d]
                    ELSE h[ParentOf[d]]
  <2>1. ParentOf[d] \in Component /\ d \in Component
    BY SceneFacts DEF Child
  <2>2. d \in T <=> ParentOf[d] \in Subtree[Scroller]
    BY <1>1, <1>2, <2>1
  <2>3. CASE ParentOf[d] = Root
    BY <1>1, <2>1, <2>2, <2>3 DEF IsContainer
  <2>4. CASE ParentOf[d] = Scroller
    BY <1>1, <2>1, <2>2, <2>4 DEF IsContainer
  <2>5. CASE ParentOf[d] \notin {Root, Scroller}
    BY <2>1, <2>2, <2>5 DEF IsContainer
  <2> QED BY <2>3, <2>4, <2>5
<1> QED BY <1>3, <1>4 DEF Held

\* The invariant implies that every focusable component on the screen is in the
\* list of its container.
LEMMA ListsCompleteFollows == NavInv => ListsComplete
<1> SUFFICES ASSUME NavInv, NEW c \in alive \ ({Root} \cup missed), Mounted(c), IsFocusable(c)
             PROVE  c \in ToSet(nav[NearestAncestorContainer(c)])
  BY DEF ListsComplete
<1> DEFINE Q == {d \in Child : Mounted(d)}
<1>1. PICK h \in [Component -> Component] :
        Held(todo.insert, h) /\ Covers(h, alive, parent, focusable, nav, missed)
  BY DEF NavInv, ListsCover
<1>2. parent \in [Component -> Component \cup {None}] /\ alive \subseteq Component
  BY DEF NavInv, NavTypeOK
<1>3. ASSUME NEW d \in Q
      PROVE  parent[d] = ParentOf[d] /\ ParentOf[d] \in Q \cup {Root} /\ d \notin todo.insert
  <2>1. d \in Component /\ d # Root /\ HasAncestor(d, Root)
    BY DEF Mounted, Child
  <2>2. parent[d] # None /\ (parent[d] = Root \/ HasAncestor(parent[d], Root))
    BY <1>2, <2>1, SceneFacts, AncestorUnfolds
  <2>3. parent[d] = ParentOf[d] /\ d \notin todo.insert
    BY <2>1, <2>2 DEF NavInv, TreeOK
  <2>4. ParentOf[d] \in Component
    BY <2>1, SceneFacts
  <2> QED BY <2>2, <2>3, <2>4 DEF Mounted, Child
<1>4. c \in Q /\ Q \in SUBSET Child
  BY <1>2 DEF Child
<1> HIDE DEF Q
<1>5. NearestAncestorContainer(c) = h[c]
  BY <1>1, <1>3, <1>4, NearestIsHolder DEF NavInv
<1>6. parent[c] # None
  BY <1>3, <1>4, SceneFacts DEF Child
<1> QED BY <1>1, <1>5, <1>6 DEF Covers, IsFocusable

\* The components that hang on the part that the transaction leaves alone: the
\* code climbs to the container of h.
LEMMA AttachedHolder ==
  ASSUME NavTypeOK, TreeOK, NEW A \in SUBSET Component,
         Attached(A, parent, todo.insert, todo.move),
         NEW h, Held(todo.insert, h), NEW c \in A \ {Root}
  PROVE  NearestAncestorContainer(c) = h[c] /\ h[c] # None
<1> DEFINE Q == A \ {Root}
<1>1. Q \in SUBSET Child /\ c \in Q
  BY DEF Child
<1>2. ASSUME NEW d \in Q
      PROVE  parent[d] = ParentOf[d] /\ ParentOf[d] \in Q \cup {Root} /\ d \notin todo.insert
  <2>1. parent[d] = ParentOf[d] /\ ParentOf[d] \in Q \cup {Root}
    BY DEF Attached
  <2>2. parent[d] # None
    BY <1>1, <2>1, SceneFacts DEF Child
  <2> QED BY <2>1, <2>2 DEF TreeOK
<1> HIDE DEF Q
<1> QED BY <1>1, <1>2, NearestIsHolder

-----------------------------------------------------------------------------
(* The mutations of a transaction.                                         *)

\* What mountChildComponent does to the lists, in terms of h: the component and
\* what it has collected go to the list that h names.
LEMMA Mounting ==
  ASSUME NavInv, NEW c \in Child, c \in Foremost(todo.insert) \cup todo.move,
         parent[c] = None, MountChildComponent(c),
         NEW h \in [Component -> Component], Held(todo.insert, h)
  PROVE  /\ parent' = [parent EXCEPT ![c] = ParentOf[c]]
         /\ nav' \in [Component -> Seq(Child)]
         /\ \A k \in Component : ToSet(nav[k]) \subseteq ToSet(nav'[k])
         /\ IsFocusable(c) => c \in ToSet(nav'[h[c]])
         /\ ~IsContainer(c) => ToSet(nav[c]) \subseteq ToSet(nav'[h[c]])
<1> DEFINE p == ParentOf[c]
           N == NearestAncestorContainer(p)
           k == IF IsContainer(p) \/ N = None THEN p ELSE N
           own == IF IsFocusable(c) THEN <<c>> ELSE <<>>
           rest == IF IsContainer(c) THEN <<>> ELSE nav[c]
<1>1. PICK A \in SUBSET Component : Attached(A, parent, todo.insert, todo.move)
  BY DEF NavInv, AttachedSomewhere
<1>2. /\ p \in Component /\ p \in A \cup todo.insert /\ c \in Component
      /\ parent \in [Component -> Component \cup {None}] /\ nav \in [Component -> Seq(Child)]
      /\ None \notin Component /\ NavTypeOK /\ TreeOK
  BY <1>1, SceneFacts DEF NavInv, NavTypeOK, Attached, Child, Foremost
<1>3. h[c] = IF IsContainer(p) \/ p \in todo.insert THEN p ELSE h[p]
  BY DEF Held
<1>4. k = h[c]
  <2>1. CASE IsContainer(p)
    BY <1>3, <2>1
  <2>2. CASE ~IsContainer(p) /\ p \in todo.insert
    <3>1. parent[p] = None
      BY <1>2, <2>2 DEF TreeOK
    <3>2. N = None
      BY <1>2, <3>1, NearestUnfolds
    <3> QED BY <1>3, <2>2, <3>2
  <2>3. CASE ~IsContainer(p) /\ p \notin todo.insert
    <3>1. p \in A \ {Root}
      BY <1>2, <2>3 DEF IsContainer
    <3>2. NearestAncestorContainer(p) = h[p] /\ h[p] # None
      <4> HIDE DEF p
      <4> QED BY <1>1, <1>2, <3>1, AttachedHolder
    <3> QED BY <1>3, <2>3, <3>2
  <2> QED BY <2>1, <2>2, <2>3
<1>5. parent' = [parent EXCEPT ![c] = p] /\ nav' = [nav EXCEPT ![k] = @ \o own \o rest]
  BY DEF MountChildComponent
<1>6. own \in Seq(Child) /\ rest \in Seq(Child) /\ k \in Component /\ nav[k] \in Seq(Child)
  BY <1>2, <1>4
<1>7. IsFocusable(c) => c \in ToSet(own)
  <2>1. c \in ToSet(<<c>>)
    BY DEF ToSet
  <2> QED BY <2>1
<1>8. ~IsContainer(c) => rest = nav[c]
  OBVIOUS
<1> HIDE DEF k, own, rest, p
<1>9. /\ (nav[k] \o own) \o rest \in Seq(Child)
      /\ ToSet((nav[k] \o own) \o rest) = ToSet(nav[k]) \cup ToSet(own) \cup ToSet(rest)
  <2>1. nav[k] \o own \in Seq(Child) /\ ToSet(nav[k] \o own) = ToSet(nav[k]) \cup ToSet(own)
    BY <1>6, Joined
  <2> DEFINE a == nav[k] \o own
  <2> HIDE DEF a
  <2>2. a \in Seq(Child) /\ ToSet(a) = ToSet(nav[k]) \cup ToSet(own)
    BY <2>1 DEF a
  <2>3. a \o rest \in Seq(Child) /\ ToSet(a \o rest) = ToSet(a) \cup ToSet(rest)
    BY <1>6, <2>2, Joined
  <2> QED BY <2>2, <2>3 DEF a
<1>10. nav' = [nav EXCEPT ![k] = (nav[k] \o own) \o rest]
  BY <1>5
<1>11. nav' \in [Component -> Seq(Child)] /\ nav'[k] = (nav[k] \o own) \o rest
       /\ \A j \in Component : j # k => nav'[j] = nav[j]
  BY <1>2, <1>6, <1>9, <1>10
<1> QED BY <1>4, <1>5, <1>7, <1>8, <1>9, <1>11 DEF p

\* A component is inserted: a whole subtree, whose members so far are in the
\* list of the component, hangs on what is above it.
LEMMA InsertKeeps ==
  ASSUME NavInv, NEW c \in Component, PerformInsert(c), UNCHANGED key
  PROVE  /\ TreeOK' /\ AttachedSomewhere' /\ ListsCover'
         /\ parent' \in [Component -> Component \cup {None}]
         /\ nav' \in [Component -> Seq(Child)]
         /\ todo' \in Transaction
         /\ UNCHANGED <<alive, focusVars>> /\ missed' = missed \ {c}
<1>1. /\ todo \in Transaction
      /\ parent \in [Component -> Component \cup {None}] /\ alive \subseteq Component
      /\ c \in Foremost(todo.insert) \cup todo.move /\ parent[c] = None
      /\ MountChildComponent(c) /\ NavTypeOK /\ TreeOK
  BY DEF NavInv, NavTypeOK, PerformInsert
<1>2. c \in Child /\ c \in todo.insert \cup todo.move
  BY <1>1 DEF Foremost, Transaction
<1>3. /\ todo' = [todo EXCEPT !.insert = todo.insert \ {c}, !.move = todo.move \ {c}]
      /\ UNCHANGED <<alive, focusable, focusVars>> /\ missed' = missed \ {c}
  BY <1>1 DEF PerformInsert, MountChildComponent
<1>4. /\ todo'.insert = todo.insert \ {c} /\ todo'.move = todo.move \ {c}
      /\ todo'.delete = todo.delete /\ todo'.update = todo.update
      /\ todo' \in Transaction
  BY <1>1, <1>3 DEF Transaction
<1>5. parent' = [parent EXCEPT ![c] = ParentOf[c]]
  BY <1>1 DEF MountChildComponent
<1>6. ParentOf[c] \in Component /\ ParentOf[c] # None /\ c \in Component
  BY <1>2, SceneFacts DEF Child
<1>7. /\ parent' \in [Component -> Component \cup {None}] /\ parent'[c] = ParentOf[c]
      /\ \A d \in Component : d # c => parent'[d] = parent[d]
  BY <1>1, <1>5, <1>6
<1>8. TreeOK'
  <2>1. /\ c \in alive /\ alive' = alive
        /\ todo.insert \cup todo.delete \cup todo.move \subseteq alive
    BY <1>1, <1>2, <1>3 DEF TreeOK
  <2>2. \A d \in Component : parent'[d] \in {None, ParentOf[d]}
    BY <1>1, <1>7 DEF TreeOK
  <2>3. \A d \in alive \ {Root} : ParentOf[d] \in alive
    BY <1>1 DEF TreeOK
  <2>4. \A d \in Component \ alive : parent'[d] = None
    BY <1>1, <1>7, <2>1 DEF TreeOK
  <2>5. \A d \in alive \ {Root} :
          parent'[d] = None => d \in todo'.insert \cup todo'.delete \cup todo'.move
    <3> SUFFICES ASSUME NEW d \in alive \ {Root}, parent'[d] = None
                 PROVE  d \in todo'.insert \cup todo'.delete \cup todo'.move
      OBVIOUS
    <3>1. d # c /\ d \in Component
      BY <1>1, <1>6, <1>7
    <3>2. d \in todo.insert \cup todo.delete \cup todo.move
      BY <1>1, <1>7, <3>1 DEF TreeOK
    <3> QED BY <1>4, <3>1, <3>2
  <2>6. \A d \in todo'.insert : parent'[d] = None
    <3> SUFFICES ASSUME NEW d \in todo'.insert PROVE parent'[d] = None
      OBVIOUS
    <3>1. d \in todo.insert /\ d # c /\ d \in Component
      BY <1>1, <1>4 DEF Child, Transaction
    <3> QED BY <1>1, <1>7, <3>1 DEF TreeOK
  <2>7. \A d \in alive : ParentOf[d] \in todo'.delete => d \in todo'.delete
    BY <1>1, <1>4 DEF TreeOK
  <2>8. /\ todo'.delete # {} => todo'.insert = {} /\ todo'.move = {}
        /\ todo'.move # {} => todo'.insert = {}
        /\ todo'.insert \cup todo'.delete \cup todo'.move \subseteq alive
        /\ todo'.update \subseteq alive \cap Item
        /\ todo'.update # {} => todo'.insert = {} /\ todo'.delete = {}
    BY <1>1, <1>4, <2>1 DEF TreeOK
  <2> QED BY <2>1, <2>2, <2>3, <2>4, <2>5, <2>6, <2>7, <2>8 DEF TreeOK
<1>9. AttachedSomewhere'
  <2>1. PICK A \in SUBSET Component : Attached(A, parent, todo.insert, todo.move)
    BY DEF NavInv, AttachedSomewhere
  <2>2. \A d \in A \ {Root} : d # c
    BY <1>1, <1>6, <2>1 DEF Attached, TreeOK
  <2>3. \A d \in A \ {Root} : parent'[d] = ParentOf[d] /\ ParentOf[d] \in A /\ d \notin todo'.move
    BY <1>4, <1>7, <2>1, <2>2 DEF Attached
  <2>4. \A d \in todo'.insert \cup todo'.move : ParentOf[d] \in A \cup todo'.insert
    <3> SUFFICES ASSUME NEW d \in todo'.insert \cup todo'.move
                 PROVE  ParentOf[d] \in A \cup todo'.insert
      OBVIOUS
    <3>1. d \in todo.insert \cup todo.move /\ d # c
      BY <1>4
    <3>2. ParentOf[d] \in A \cup todo.insert
      BY <2>1, <3>1 DEF Attached
    <3>3. CASE c \in todo.insert
      <4>1. c \in Foremost(todo.insert) /\ d \in todo.insert
        BY <1>1, <3>1, <3>3 DEF TreeOK
      <4>2. ParentOf[d] # c
        BY <4>1 DEF Foremost
      <4> QED BY <1>4, <3>2, <4>2
    <3>4. CASE c \notin todo.insert
      BY <1>4, <3>2, <3>4
    <3> QED BY <3>3, <3>4
  <2>5. Root \in A
    BY <2>1 DEF Attached
  <2>6. Attached(A, parent', todo'.insert, todo'.move)
    BY <2>3, <2>4, <2>5 DEF Attached
  <2> QED BY <2>6 DEF AttachedSomewhere
<1>10. PICK h \in [Component -> Component] :
         Held(todo.insert, h) /\ Covers(h, alive, parent, focusable, nav, missed)
  BY DEF NavInv, ListsCover
<1>11. /\ nav' \in [Component -> Seq(Child)]
       /\ \A k \in Component : ToSet(nav[k]) \subseteq ToSet(nav'[k])
       /\ IsFocusable(c) => c \in ToSet(nav'[h[c]])
       /\ ~IsContainer(c) => ToSet(nav[c]) \subseteq ToSet(nav'[h[c]])
  BY <1>1, <1>2, <1>10, Mounting
<1>12. ListsCover'
  <2>1. CASE c \in todo.insert
    <3> DEFINE g == [d \in Component |-> IF h[d] = c /\ ~IsContainer(c) THEN h[c] ELSE h[d]]
    <3>1. g \in [Component -> Component]
      BY <1>6
    <3>2. Held(todo'.insert, g)
      <4> SUFFICES ASSUME NEW d \in Child
                   PROVE  g[d] = IF IsContainer(ParentOf[d]) \/ ParentOf[d] \in todo'.insert
                                 THEN ParentOf[d] ELSE g[ParentOf[d]]
        BY DEF Held
      <4>1. ParentOf[d] \in Component /\ d \in Component
        BY SceneFacts DEF Child
      <4>2. h[d] = IF IsContainer(ParentOf[d]) \/ ParentOf[d] \in todo.insert THEN ParentOf[d]
                   ELSE h[ParentOf[d]]
        BY <1>10 DEF Held
      <4>3. CASE ParentOf[d] = c
        BY <1>4, <1>6, <2>1, <4>1, <4>2, <4>3
      <4>4. CASE ParentOf[d] # c
        BY <1>4, <4>1, <4>2, <4>4
      <4> QED BY <4>3, <4>4
    <3>3. Covers(g, alive', parent', focusable', nav', missed')
      <4> SUFFICES ASSUME NEW d \in alive \ ({Root} \cup missed'), parent'[d] # None,
                          d \in focusable \/ IsContainer(d)
                   PROVE  d \in ToSet(nav'[g[d]])
        BY <1>3 DEF Covers
      <4>1. d \in Component
        BY <1>1
      <4>2. CASE d = c
        BY <1>6, <1>11, <4>2 DEF IsFocusable
      <4>3. CASE d # c
        <5>1. d \in ToSet(nav[h[d]]) /\ h[d] \in Component
          BY <1>3, <1>7, <1>10, <4>1, <4>3 DEF Covers
        <5> QED BY <1>11, <4>1, <5>1
      <4> QED BY <4>2, <4>3
    <3> QED BY <3>1, <3>2, <3>3 DEF ListsCover
  <2>2. CASE c \notin todo.insert
    <3>1. Held(todo'.insert, h)
      BY <1>4, <1>10, <2>2 DEF Held
    <3>2. Covers(h, alive', parent', focusable', nav', missed')
      <4> SUFFICES ASSUME NEW d \in alive \ ({Root} \cup missed'), parent'[d] # None,
                          d \in focusable \/ IsContainer(d)
                   PROVE  d \in ToSet(nav'[h[d]])
        BY <1>3 DEF Covers
      <4>1. d \in Component
        BY <1>1
      <4>2. CASE d = c
        BY <1>11, <4>2 DEF IsFocusable
      <4>3. CASE d # c
        <5>1. d \in ToSet(nav[h[d]]) /\ h[d] \in Component
          BY <1>3, <1>7, <1>10, <4>1, <4>3 DEF Covers
        <5> QED BY <1>11, <5>1
      <4> QED BY <4>2, <4>3
    <3> QED BY <3>1, <3>2 DEF ListsCover
  <2> QED BY <2>1, <2>2
<1> QED BY <1>3, <1>4, <1>7, <1>8, <1>9, <1>11, <1>12

\* A component is removed, alone or on its way to be deleted or inserted again.
LEMMA RemoveKeeps ==
  ASSUME NavInv, NEW c \in Component, PerformRemove(c), UNCHANGED key
  PROVE  /\ TreeOK' /\ AttachedSomewhere' /\ ListsCover'
         /\ parent' \in [Component -> Component \cup {None}]
         /\ nav' \in [Component -> Seq(Child)]
         /\ UNCHANGED <<alive, todo, missed>> /\ currentFocus' \in {currentFocus, None}
         /\ UNCHANGED currentContainer
<1> DEFINE k == NearestAncestorContainer(c)
<1>1. /\ todo \in Transaction
      /\ parent \in [Component -> Component \cup {None}] /\ alive \subseteq Component
      /\ nav \in [Component -> Seq(Child)] /\ NavTypeOK /\ TreeOK
  BY DEF NavInv, NavTypeOK
<1>2. /\ c \in todo.delete \cup todo.move /\ c \in Child /\ parent[c] # None
      /\ UnmountChildComponent(c) /\ todo' = todo
  BY <1>1 DEF PerformRemove, Foremost, Transaction
<1>3. /\ parent' = [parent EXCEPT ![c] = None]
      /\ \/ nav' = nav
         \/ k # None /\ nav' = [nav EXCEPT ![k] = RemoveFirst(nav[k], c)]
      /\ UNCHANGED <<alive, focusable, missed, currentContainer>>
      /\ currentFocus' \in {currentFocus, None}
  BY <1>2 DEF UnmountChildComponent, BlurIfListed, focusVars
<1>4. /\ parent' \in [Component -> Component \cup {None}] /\ parent'[c] = None
      /\ \A d \in Component : d # c => parent'[d] = parent[d]
  BY <1>1, <1>3
<1>5. nav' \in [Component -> Seq(Child)]
      /\ \A j \in Component : ToSet(nav[j]) \ {c} \subseteq ToSet(nav'[j])
  <2>1. CASE nav' = nav
    BY <1>1, <2>1
  <2>2. CASE k # None /\ nav' = [nav EXCEPT ![k] = RemoveFirst(nav[k], c)]
    <3>1. k \in Component
      BY <1>1, <2>2, NearestIsContainer, SceneFacts
    <3> HIDE DEF k
    <3>2. /\ RemoveFirst(nav[k], c) \in Seq(Child)
          /\ ToSet(nav[k]) \ {c} \subseteq ToSet(RemoveFirst(nav[k], c))
      BY <1>1, <3>1, Removed
    <3> QED BY <1>1, <2>2, <3>1, <3>2
  <2> QED BY <1>3, <2>1, <2>2
<1>6. TreeOK'
  <2>1. \A d \in Component : parent'[d] \in {None, ParentOf[d]}
    BY <1>1, <1>4 DEF TreeOK
  <2>2. \A d \in Component \ alive : parent'[d] = None
    BY <1>1, <1>4 DEF TreeOK
  <2>3. \A d \in alive \ {Root} :
          parent'[d] = None => d \in todo.insert \cup todo.delete \cup todo.move
    <3> SUFFICES ASSUME NEW d \in alive \ {Root}, parent'[d] = None, d # c
                 PROVE  d \in todo.insert \cup todo.delete \cup todo.move
      BY <1>2
    <3> QED BY <1>1, <1>4 DEF TreeOK
  <2>4. \A d \in todo.insert : parent'[d] = None
    <3> SUFFICES ASSUME NEW d \in todo.insert PROVE parent'[d] = None
      OBVIOUS
    <3>1. d \in Component /\ parent[d] = None
      BY <1>1 DEF TreeOK, Child
    <3> QED BY <1>4, <3>1
  <2> QED BY <1>1, <1>2, <1>3, <2>1, <2>2, <2>3, <2>4 DEF TreeOK
<1>7. AttachedSomewhere'
  <2>1. CASE c \in todo.delete
    <3>1. todo.insert = {} /\ todo.move = {}
      BY <1>1, <2>1 DEF TreeOK
    <3>2. Attached({Root}, parent', todo'.insert, todo'.move)
      BY <1>2, <3>1 DEF Attached
    <3> QED BY <3>2, SceneFacts DEF AttachedSomewhere
  <2>2. CASE c \in todo.move
    <3>1. PICK A \in SUBSET Component : Attached(A, parent, todo.insert, todo.move)
      BY DEF NavInv, AttachedSomewhere
    <3>2. \A d \in A \ {Root} : d \in Component /\ d # c
      BY <2>2, <3>1 DEF Attached
    <3>3. Attached(A, parent', todo'.insert, todo'.move)
      BY <1>2, <1>4, <3>1, <3>2 DEF Attached
    <3> QED BY <3>3 DEF AttachedSomewhere
  <2> QED BY <1>2, <2>1, <2>2
<1>8. ListsCover'
  <2>1. PICK h \in [Component -> Component] :
          Held(todo.insert, h) /\ Covers(h, alive, parent, focusable, nav, missed)
    BY DEF NavInv, ListsCover
  <2>2. Covers(h, alive', parent', focusable', nav', missed')
    <3> SUFFICES ASSUME NEW d \in alive \ ({Root} \cup missed), parent'[d] # None,
                        d \in focusable \/ IsContainer(d)
                 PROVE  d \in ToSet(nav'[h[d]])
      BY <1>3 DEF Covers
    <3>1. d \in Component /\ d # c
      BY <1>1, <1>4
    <3>2. d \in ToSet(nav[h[d]]) /\ h[d] \in Component
      BY <1>4, <2>1, <3>1 DEF Covers
    <3> QED BY <1>5, <3>1, <3>2
  <2> QED BY <1>2, <2>1, <2>2 DEF ListsCover
<1> QED BY <1>2, <1>3, <1>4, <1>5, <1>6, <1>7, <1>8

\* A component without children is deleted, and its list with it: nothing else
\* was listed there.
LEMMA DeleteKeeps ==
  ASSUME NavInv, NEW c \in Component, PerformDelete(c), UNCHANGED key
  PROVE  /\ TreeOK' /\ AttachedSomewhere' /\ ListsCover'
         /\ alive' \subseteq Component /\ Root \in alive'
         /\ nav' \in [Component -> Seq(Child)]
         /\ todo' \in Transaction
         /\ UNCHANGED <<parent, missed, focusVars>>
<1>1. /\ todo \in Transaction
      /\ parent \in [Component -> Component \cup {None}] /\ alive \subseteq Component
      /\ nav \in [Component -> Seq(Child)] /\ NavTypeOK /\ TreeOK /\ Root \in alive
  BY DEF NavInv, NavTypeOK
<1>2. /\ c \in Foremost(todo.delete) /\ parent[c] = None
      /\ alive' = alive \ {c} /\ nav' = [nav EXCEPT ![c] = <<>>]
      /\ todo' = [todo EXCEPT !.delete = todo.delete \ {c}]
      /\ UNCHANGED <<parent, focusable, missed, focusVars>>
  BY DEF PerformDelete, Delete
<1>3. /\ todo'.delete = todo.delete \ {c} /\ todo'.insert = todo.insert /\ todo'.move = todo.move
      /\ todo'.update = todo.update
      /\ todo' \in Transaction
  BY <1>1, <1>2 DEF Transaction
<1>4. /\ c \in todo.delete /\ c \in Child /\ c # Root
      /\ todo.insert = {} /\ todo.move = {} /\ todo.update = {}
  BY <1>1, <1>2 DEF Foremost, TreeOK, Child, Transaction
<1>5. \A d \in alive : ParentOf[d] # c
  BY <1>1, <1>2, <1>4 DEF TreeOK, Foremost
<1>6. nav' \in [Component -> Seq(Child)] /\ \A k \in Component : k # c => nav'[k] = nav[k]
  <2>1. <<>> \in Seq(Child)
    OBVIOUS
  <2> QED BY <1>1, <1>2, <2>1
<1>7. TreeOK'
  <2>1. \A d \in alive' \ {Root} : ParentOf[d] \in alive'
    BY <1>1, <1>2, <1>5 DEF TreeOK
  <2>2. \A d \in Component \ alive' : parent'[d] = None
    BY <1>1, <1>2 DEF TreeOK
  <2>3. \A d \in alive' \ {Root} :
          parent'[d] = None => d \in todo'.insert \cup todo'.delete \cup todo'.move
    BY <1>1, <1>2, <1>3 DEF TreeOK
  <2>4. \A d \in alive' : ParentOf[d] \in todo'.delete => d \in todo'.delete
    BY <1>1, <1>2, <1>3 DEF TreeOK
  <2>5. todo'.insert \cup todo'.delete \cup todo'.move \subseteq alive'
    BY <1>1, <1>2, <1>3, <1>4 DEF TreeOK
  <2>6. \A d \in Component : parent'[d] \in {None, ParentOf[d]}
    BY <1>1, <1>2 DEF TreeOK
  <2> QED BY <1>3, <1>4, <2>1, <2>2, <2>3, <2>4, <2>5, <2>6 DEF TreeOK
<1>8. AttachedSomewhere'
  <2>1. Attached({Root}, parent', todo'.insert, todo'.move)
    BY <1>3, <1>4 DEF Attached
  <2> QED BY <2>1, SceneFacts DEF AttachedSomewhere
<1>9. ListsCover'
  <2>1. PICK h \in [Component -> Component] :
          Held(todo.insert, h) /\ Covers(h, alive, parent, focusable, nav, missed)
    BY DEF NavInv, ListsCover
  <2>2. ASSUME NEW e \in alive \ {Root}, h[e] = c PROVE FALSE
    <3> DEFINE S == {d \in alive \ {Root} : h[d] = c}
    <3>1. S \in SUBSET Component /\ S # {}
      BY <1>1, <2>2
    <3>2. PICK d \in S : ParentOf[d] \notin S
      <4> HIDE DEF S
      <4> QED BY <3>1, TopOf
    <3>3. d \in Child /\ ParentOf[d] \in alive /\ ParentOf[d] # c
      BY <1>1, <1>5 DEF TreeOK, Child
    <3>4. h[d] = IF IsContainer(ParentOf[d]) \/ ParentOf[d] \in todo.insert THEN ParentOf[d]
                 ELSE h[ParentOf[d]]
      BY <2>1, <3>3 DEF Held
    <3>5. ~IsContainer(ParentOf[d]) /\ h[ParentOf[d]] = c
      BY <3>2, <3>3, <3>4, <1>4
    <3> QED BY <3>2, <3>3, <3>5 DEF IsContainer
  <2>3. Covers(h, alive', parent', focusable', nav', missed')
    <3> SUFFICES ASSUME NEW d \in alive' \ ({Root} \cup missed), parent'[d] # None,
                        d \in focusable' \/ IsContainer(d)
                 PROVE  d \in ToSet(nav'[h[d]])
      BY <1>2 DEF Covers
    <3>1. d \in alive \ ({Root} \cup missed) /\ d \in Component
      BY <1>1, <1>2
    <3>2. d \in ToSet(nav[h[d]]) /\ h[d] \in Component
      BY <1>2, <2>1, <3>1 DEF Covers
    <3>3. h[d] # c
      BY <2>2, <3>1
    <3> QED BY <1>6, <3>2, <3>3
  <2> QED BY <1>3, <2>1, <2>3 DEF ListsCover
<1> QED BY <1>1, <1>2, <1>3, <1>4, <1>6, <1>7, <1>8, <1>9

-----------------------------------------------------------------------------
(* The transactions that React commits, when the last one is performed.    *)

\* Nothing is left to be done, so nothing is missing in the tree.
LEMMA WhenIdle ==
  ASSUME NavInv, MainIdle
  PROVE  /\ todo.insert = {} /\ todo.delete = {} /\ todo.move = {} /\ todo.update = {}
         /\ todo \in Transaction
         /\ \A c \in alive \ {Root} : parent[c] = ParentOf[c] /\ ParentOf[c] \in alive
         /\ Attached(alive, parent, todo.insert, todo.move)
<1>1. todo.insert = {} /\ todo.delete = {} /\ todo.move = {} /\ todo.update = {}
  BY DEF MainIdle, Performed
<1>2. alive \subseteq Component /\ Root \in alive
  BY DEF NavInv, NavTypeOK
<1>3. \A c \in alive \ {Root} : parent[c] = ParentOf[c] /\ ParentOf[c] \in alive
  BY <1>1, <1>2 DEF NavInv, TreeOK
<1> QED BY <1>1, <1>2, <1>3 DEF Attached, NavInv, NavTypeOK

\* New subtrees: none of them exists, and each member is held by its parent.
LEMMA CommitMountKeeps ==
  ASSUME NavInv, CommitMount
  PROVE  /\ TreeOK' /\ AttachedSomewhere' /\ ListsCover'
         /\ alive' \subseteq Component /\ Root \in alive'
         /\ todo' \in Transaction
         /\ UNCHANGED <<parent, nav, missed, focusVars, key, dangling>>
<1>1. MainIdle /\ UNCHANGED <<parent, nav, missed, focusVars, key, dangling>>
  BY DEF CommitMount, Commit
<1>2. /\ alive \subseteq Component /\ Root \in alive
      /\ nav \in [Component -> Seq(Child)] /\ NavTypeOK /\ TreeOK
  BY DEF NavInv, NavTypeOK
<1>3. /\ todo.insert = {} /\ todo.delete = {} /\ todo.move = {} /\ todo.update = {}
      /\ todo \in Transaction
      /\ \A d \in alive \ {Root} : parent[d] = ParentOf[d] /\ ParentOf[d] \in alive
      /\ Attached(alive, parent, todo.insert, todo.move)
  BY <1>1, WhenIdle
<1>4. PICK tops \in SUBSET {c \in Component \ alive : ParentOf[c] \in alive}, plain \in AtMostOne :
        LET new == UNION {Subtree[c] : c \in tops}
        IN  /\ plain \subseteq Item \cap new
            /\ alive' = alive \cup new
            /\ todo' = [todo EXCEPT !.insert = new]
            /\ focusable' = (focusable \cup (Item \cap new)) \ plain
  BY DEF CommitMount
<1> DEFINE T == UNION {Subtree[c] : c \in tops}
<1>5. ASSUME NEW c \in tops
      PROVE  /\ c \in Component \ {Root} /\ ParentOf[c] \in alive
             /\ Subtree[c] \subseteq Component \ {Root} /\ c \in Subtree[c]
             /\ \A d \in Component : ParentOf[d] \in Subtree[c] => d \in Subtree[c]
             /\ \A d \in Subtree[c] : d # c => ParentOf[d] \in Subtree[c]
  BY <1>2, Subtrees
<1>6. /\ T \subseteq Component \ {Root}
      /\ \A d \in Component : ParentOf[d] \in T => d \in T
      /\ \A d \in T : ParentOf[d] \in T \cup alive
  <2>1. ASSUME NEW d \in T PROVE ParentOf[d] \in T \cup alive
    <3>1. PICK c \in tops : d \in Subtree[c]
      OBVIOUS
    <3> QED BY <1>5, <3>1
  <2>2. ASSUME NEW d \in Component, ParentOf[d] \in T PROVE d \in T
    <3>1. PICK c \in tops : ParentOf[d] \in Subtree[c]
      BY <2>2
    <3> QED BY <1>5, <3>1
  <2> QED BY <1>5, <2>1, <2>2
<1>7. alive \cap T = {}
  <2> SUFFICES ASSUME NEW c \in tops, alive \cap Subtree[c] # {} PROVE FALSE
    OBVIOUS
  <2>1. alive \cap Subtree[c] \in SUBSET Component
    BY <1>2
  <2>2. PICK d \in alive \cap Subtree[c] : ParentOf[d] \notin alive \cap Subtree[c]
    BY <2>1, TopOf
  <2>3. c \notin alive /\ d # c /\ d \in Component \ {Root}
    BY <1>5, <2>2
  <2> QED BY <1>3, <1>5, <2>2, <2>3
<1>8. /\ alive' = alive \cup T /\ todo' = [todo EXCEPT !.insert = T]
      /\ \A d \in alive : d \in focusable' => d \in focusable
  BY <1>4, <1>7
<1> HIDE DEF T
<1>9. /\ todo'.insert = T /\ todo'.delete = {} /\ todo'.move = {} /\ todo'.update = {}
      /\ todo' \in Transaction
  BY <1>3, <1>6, <1>8 DEF Child, Transaction
<1>10. TreeOK'
  <2>1. \A d \in alive' \ {Root} : ParentOf[d] \in alive'
    BY <1>3, <1>6, <1>8
  <2>2. \A d \in Component \ alive' : parent'[d] = None
    BY <1>1, <1>2, <1>8 DEF TreeOK
  <2>3. \A d \in alive' \ {Root} :
          parent'[d] = None => d \in todo'.insert \cup todo'.delete \cup todo'.move
    BY <1>1, <1>2, <1>3, <1>8, <1>9 DEF TreeOK
  <2>4. \A d \in todo'.insert : parent'[d] = None
    BY <1>1, <1>2, <1>6, <1>7, <1>9 DEF TreeOK
  <2>5. \A d \in Component : parent'[d] \in {None, ParentOf[d]}
    BY <1>1, <1>2 DEF TreeOK
  <2> QED BY <1>8, <1>9, <2>1, <2>2, <2>3, <2>4, <2>5 DEF TreeOK
<1>11. AttachedSomewhere'
  <2>1. Attached(alive, parent', todo'.insert, todo'.move)
    BY <1>1, <1>3, <1>6, <1>9 DEF Attached
  <2> QED BY <1>2, <2>1 DEF AttachedSomewhere
<1>12. ListsCover'
  <2>1. PICK h \in [Component -> Component] :
          Held(todo.insert, h) /\ Covers(h, alive, parent, focusable, nav, missed)
    BY DEF NavInv, ListsCover
  <2> DEFINE g == [d \in Component |-> IF ParentOf[d] \in T THEN ParentOf[d] ELSE h[d]]
  <2>2. g \in [Component -> Component]
    BY <1>6, SceneFacts
  <2>3. Held(todo'.insert, g)
    <3> SUFFICES ASSUME NEW d \in Child
                 PROVE  g[d] = IF IsContainer(ParentOf[d]) \/ ParentOf[d] \in T
                               THEN ParentOf[d] ELSE g[ParentOf[d]]
      BY <1>9 DEF Held
    <3>1. ParentOf[d] \in Component /\ d \in Component
      BY SceneFacts DEF Child
    <3>2. h[d] = IF IsContainer(ParentOf[d]) \/ ParentOf[d] \in {} THEN ParentOf[d]
                 ELSE h[ParentOf[d]]
      BY <1>3, <2>1 DEF Held
    <3>3. CASE ParentOf[d] \in T
      BY <3>1, <3>3
    <3>4. CASE ParentOf[d] \notin T
      <4>1. ParentOf[ParentOf[d]] \notin T
        BY <1>6, <3>1, <3>4
      <4> QED BY <3>1, <3>2, <3>4, <4>1
    <3> QED BY <3>3, <3>4
  <2>4. Covers(g, alive', parent', focusable', nav', missed')
    <3> SUFFICES ASSUME NEW d \in alive' \ ({Root} \cup missed), parent[d] # None,
                        d \in focusable' \/ IsContainer(d)
                 PROVE  d \in ToSet(nav[g[d]])
      BY <1>1 DEF Covers
    <3>1. d \in Component
      BY <1>2, <1>6, <1>8
    <3>2. d \in alive /\ d \notin T /\ ParentOf[d] \notin T
      BY <1>2, <1>3, <1>6, <1>7, <3>1 DEF TreeOK
    <3>3. d \in focusable \/ IsContainer(d)
      BY <1>8, <3>2
    <3> QED BY <2>1, <3>1, <3>2, <3>3 DEF Covers
  <2> HIDE DEF g
  <2> QED BY <2>2, <2>3, <2>4 DEF ListsCover
<1> QED BY <1>1, <1>2, <1>6, <1>8, <1>9, <1>10, <1>11, <1>12

\* A subtree is to be deleted: all of it that exists.
LEMMA CommitUnmountKeeps ==
  ASSUME NavInv, NEW c \in Component, CommitUnmount(c)
  PROVE  /\ TreeOK' /\ AttachedSomewhere' /\ ListsCover'
         /\ todo' \in Transaction
         /\ UNCHANGED <<treeVars, focusVars, key, dangling>>
<1> DEFINE T == Subtree[c]
<1>1. /\ c \in alive \ {Root} /\ MainIdle
      /\ todo' = [todo EXCEPT !.delete = T \cap alive]
      /\ UNCHANGED <<treeVars, focusVars, key, dangling>>
  BY DEF CommitUnmount, Commit
<1>2. /\ alive \subseteq Component /\ c \in Component \ {Root} /\ NavTypeOK /\ TreeOK
      /\ UNCHANGED <<alive, parent, focusable, nav, missed>>
  BY <1>1 DEF NavInv, NavTypeOK, treeVars
<1>3. /\ T \subseteq Component \ {Root}
      /\ \A d \in Component : ParentOf[d] \in T => d \in T
  BY <1>2, Subtrees
<1>4. /\ todo.insert = {} /\ todo.delete = {} /\ todo.move = {} /\ todo.update = {}
      /\ todo \in Transaction
      /\ \A d \in alive \ {Root} : parent[d] = ParentOf[d] /\ ParentOf[d] \in alive
      /\ Attached(alive, parent, todo.insert, todo.move)
  BY <1>1, WhenIdle
<1> HIDE DEF T
<1>5. /\ todo'.insert = {} /\ todo'.delete = T \cap alive /\ todo'.move = {} /\ todo'.update = {}
      /\ todo' \in Transaction
  BY <1>1, <1>3, <1>4 DEF Child, Transaction
<1>6. TreeOK'
  <2>1. \A d \in alive : ParentOf[d] \in todo'.delete => d \in todo'.delete
    BY <1>2, <1>3, <1>5
  <2>2. \A d \in alive \ {Root} :
          parent[d] = None => d \in todo'.insert \cup todo'.delete \cup todo'.move
    BY <1>2, <1>4, SceneFacts
  <2> QED BY <1>2, <1>5, <2>1, <2>2 DEF TreeOK
<1>7. AttachedSomewhere'
  BY <1>2, <1>4, <1>5 DEF AttachedSomewhere
<1>8. ListsCover'
  BY <1>2, <1>4, <1>5 DEF NavInv, ListsCover
<1> QED BY <1>1, <1>5, <1>6, <1>7, <1>8

\* A component is to be moved, below which the transaction leaves nothing alone,
\* or new properties are to be handed over.
LEMMA CommitUpdateKeeps ==
  ASSUME NavInv, CommitUpdate
  PROVE  /\ TreeOK' /\ AttachedSomewhere' /\ ListsCover'
         /\ todo' \in Transaction
         /\ UNCHANGED <<treeVars, focusVars, key, dangling>>
<1>1. MainIdle /\ UNCHANGED <<treeVars, focusVars, key, dangling>>
  BY DEF CommitUpdate, Commit
<1>2. PICK moved, updated \in AtMostOne :
        /\ moved \subseteq alive \ {Root} /\ updated \subseteq Item \cap alive
        /\ todo' = [todo EXCEPT !.move = moved, !.update = updated]
  BY DEF CommitUpdate
<1>3. /\ alive \subseteq Component /\ NavTypeOK /\ TreeOK /\ Root \in alive
      /\ UNCHANGED <<alive, parent, focusable, nav, missed>>
  BY <1>1 DEF NavInv, NavTypeOK, treeVars
<1>4. /\ todo.insert = {} /\ todo.delete = {} /\ todo.move = {} /\ todo.update = {}
      /\ todo \in Transaction
      /\ \A d \in alive \ {Root} : parent[d] = ParentOf[d] /\ ParentOf[d] \in alive
      /\ Attached(alive, parent, todo.insert, todo.move)
  BY <1>1, WhenIdle
<1>5. /\ todo'.insert = {} /\ todo'.delete = {} /\ todo'.move = moved /\ todo'.update = updated
      /\ todo' \in Transaction
  BY <1>2, <1>3, <1>4, SceneAssumption DEF Child, Transaction
<1>6. TreeOK'
  <2>1. \A d \in alive \ {Root} :
          parent[d] = None => d \in todo'.insert \cup todo'.delete \cup todo'.move
    BY <1>3, <1>4, SceneFacts
  <2> QED BY <1>2, <1>3, <1>5, <2>1 DEF TreeOK
<1>7. AttachedSomewhere'
  <2>1. CASE moved = {}
    BY <1>3, <1>4, <1>5, <2>1 DEF AttachedSomewhere
  <2>2. ASSUME NEW c \in Component, moved = {c} PROVE AttachedSomewhere'
    <3> DEFINE T == Subtree[c]
               A == alive \ T
    <3>1. c \in alive \ {Root}
      BY <1>2, <2>2
    <3>2. /\ T \subseteq Component \ {Root} /\ c \in T
          /\ \A d \in Component : ParentOf[d] \in T => d \in T
          /\ ParentOf[c] \notin T
      BY <1>3, <3>1, Subtrees
    <3> HIDE DEF T
    <3>3. A \in SUBSET Component /\ Root \in A
      BY <1>3, <3>2
    <3>4. \A d \in A \ {Root} : parent[d] = ParentOf[d] /\ ParentOf[d] \in A /\ d # c
      BY <1>3, <1>4, <3>2
    <3>5. ParentOf[c] \in A
      BY <1>4, <3>1, <3>2
    <3> HIDE DEF A
    <3>6. Attached(A, parent', todo'.insert, todo'.move)
      BY <1>3, <1>5, <2>2, <3>3, <3>4, <3>5 DEF Attached
    <3> QED BY <3>3, <3>6 DEF AttachedSomewhere
  <2> QED BY <2>1, <2>2 DEF AtMostOne
<1>8. ListsCover'
  BY <1>3, <1>4, <1>5 DEF NavInv, ListsCover
<1> QED BY <1>1, <1>5, <1>6, <1>7, <1>8

\* Where the code finds a container, it is that of h.
LEMMA ClimbIsHolder ==
  ASSUME NavTypeOK, TreeOK, NEW h, Held({}, h), NEW c \in Child,
         NearestAncestorContainer(c) # None
  PROVE  NearestAncestorContainer(c) = h[c]
<1> DEFINE N(d) == NearestAncestorContainer(d)
           S == {d \in Child : N(d) # None /\ N(d) # h[d]}
<1> SUFFICES ASSUME S # {} PROVE FALSE
  OBVIOUS
<1>1. PICK d \in S : ParentOf[d] \notin S
  <2>1. S \in SUBSET Component
    BY DEF Child
  <2> HIDE DEF S
  <2> QED BY <2>1, TopOf
<1>2. parent \in [Component -> Component \cup {None}] /\ d \in Child /\ d \in Component
  BY DEF NavTypeOK, Child
<1>3. N(d) = IF parent[d] = None \/ IsContainer(parent[d]) THEN parent[d] ELSE N(parent[d])
  BY <1>2, NearestUnfolds
<1>4. parent[d] = ParentOf[d] /\ ParentOf[d] \in Component
  BY <1>1, <1>2, <1>3, SceneFacts DEF TreeOK, Child
<1>5. h[d] = IF IsContainer(ParentOf[d]) THEN ParentOf[d] ELSE h[ParentOf[d]]
  BY <1>2 DEF Held
<1>6. CASE IsContainer(ParentOf[d])
  BY <1>1, <1>2, <1>3, <1>4, <1>5, <1>6, SceneFacts
<1>7. CASE ~IsContainer(ParentOf[d])
  <2>1. N(d) = N(ParentOf[d]) /\ ParentOf[d] \in Child
    BY <1>2, <1>3, <1>4, <1>7, SceneFacts DEF IsContainer, Child
  <2> QED BY <1>1, <1>5, <1>7, <2>1
<1> QED BY <1>6, <1>7

\* A component becomes focusable, or stops to be: it is listed if it is and a
\* container is found.
LEMMA UpdateKeeps ==
  ASSUME NavInv, NEW c \in Component, PerformUpdate(c), UNCHANGED key
  PROVE  /\ TreeOK' /\ AttachedSomewhere' /\ ListsCover'
         /\ nav' \in [Component -> Seq(Child)] /\ missed' \subseteq Component
         /\ todo' \in Transaction
         /\ currentFocus' \in {currentFocus, None} /\ UNCHANGED currentContainer
         /\ UNCHANGED <<alive, parent>>
<1> DEFINE k == NearestAncestorContainer(c)
           new == IF c \in ToSet(nav[k]) /\ c \notin focusable' THEN RemoveFirst(nav[k], c)
                  ELSE IF c \notin ToSet(nav[k]) /\ c \in focusable' THEN Append(nav[k], c)
                  ELSE nav[k]
<1>1. /\ c \in todo.update /\ todo' = [todo EXCEPT !.update = todo.update \ {c}]
      /\ focusable' = IF c \in focusable THEN focusable \ {c} ELSE focusable \cup {c}
      /\ UNCHANGED <<alive, parent>>
      /\ \/ nav' = nav /\ missed' = missed \cup {c}
         \/ k # None /\ nav' = [nav EXCEPT ![k] = new] /\ missed' = missed \ {c}
  BY DEF PerformUpdate, UpdateFocusable
<1>2. currentFocus' \in {currentFocus, None} /\ UNCHANGED currentContainer
  BY DEF PerformUpdate, UpdateFocusable, BlurIfListed, focusVars
<1>3. /\ alive \subseteq Component /\ nav \in [Component -> Seq(Child)] /\ NavTypeOK /\ TreeOK
      /\ c \in Child /\ ~IsContainer(c) /\ missed \subseteq Component
      /\ todo \in Transaction /\ todo.insert = {} /\ todo.delete = {}
  BY <1>1, SceneAssumption DEF NavInv, NavTypeOK, TreeOK, Child, IsContainer
<1>4. PICK h \in [Component -> Component] :
        Held(todo.insert, h) /\ Covers(h, alive, parent, focusable, nav, missed)
  BY DEF NavInv, ListsCover
<1>5. k # None => k = h[c] /\ k \in Component
  BY <1>3, <1>4, ClimbIsHolder
<1> HIDE DEF k
<1>6. ASSUME k # None
      PROVE  /\ new \in Seq(Child) /\ ToSet(nav[k]) \ {c} \subseteq ToSet(new)
             /\ c \in focusable' => c \in ToSet(new)
  <2>1. nav[k] \in Seq(Child)
    BY <1>3, <1>5, <1>6
  <2>2. CASE new = RemoveFirst(nav[k], c) /\ c \notin focusable'
    BY <2>1, <2>2, Removed
  <2>3. CASE new = Append(nav[k], c)
    <3>1. Append(nav[k], c) = nav[k] \o <<c>> /\ <<c>> \in Seq(Child)
      BY <1>3, <2>1, AppendIsConcat
    <3>2. c \in ToSet(<<c>>)
      BY DEF ToSet
    <3>3. nav[k] \o <<c>> \in Seq(Child) /\ ToSet(nav[k] \o <<c>>) = ToSet(nav[k]) \cup ToSet(<<c>>)
      BY <2>1, <3>1, Joined
    <3> QED BY <2>3, <3>1, <3>2, <3>3
  <2>4. CASE new = nav[k] /\ (c \in focusable' => c \in ToSet(nav[k]))
    BY <2>1, <2>4
  <2> QED BY <2>2, <2>3, <2>4
<1> HIDE DEF new
<1>7. nav' \in [Component -> Seq(Child)] /\ missed' \subseteq Component
  <2>1. c \in Component
    BY <1>3 DEF Child
  <2>2. CASE nav' = nav /\ missed' = missed \cup {c}
    BY <1>3, <2>1, <2>2
  <2>3. CASE k # None /\ nav' = [nav EXCEPT ![k] = new] /\ missed' = missed \ {c}
    BY <1>3, <1>5, <1>6, <2>3
  <2> QED BY <1>1, <2>2, <2>3
<1>8. Covers(h, alive', parent', focusable', nav', missed')
  <2> SUFFICES ASSUME NEW d \in alive \ ({Root} \cup missed'), parent[d] # None,
                      d \in focusable' \/ IsContainer(d)
               PROVE  d \in ToSet(nav'[h[d]])
    BY <1>1 DEF Covers
  <2>1. CASE d = c
    BY <1>1, <1>3, <1>5, <1>6, <2>1
  <2>2. CASE d # c
    <3>1. d \in ToSet(nav[h[d]]) /\ h[d] \in Component
      BY <1>1, <1>3, <1>4, <2>2 DEF Covers
    <3>2. CASE nav' = nav
      BY <3>1, <3>2
    <3>3. CASE k # None /\ nav' = [nav EXCEPT ![k] = new]
      BY <1>3, <1>5, <1>6, <2>2, <3>1, <3>3
    <3> QED BY <1>1, <3>2, <3>3
  <2> QED BY <2>1, <2>2
<1>9. /\ todo'.insert = {} /\ todo'.delete = {} /\ todo'.move = todo.move
      /\ todo'.update = todo.update \ {c} /\ todo' \in Transaction
  BY <1>1, <1>3 DEF Transaction
<1>10. ListsCover'
  BY <1>3, <1>4, <1>8, <1>9 DEF ListsCover
<1>11. TreeOK' /\ AttachedSomewhere'
  BY <1>1, <1>3, <1>9 DEF NavInv, TreeOK, AttachedSomewhere
<1> QED BY <1>1, <1>2, <1>7, <1>9, <1>10, <1>11

-----------------------------------------------------------------------------
(* The comparator orders the components of a list, so a search has a first. *)

\* A set of members of a list has a first one in any strict order of them.
LEMMA FirstInList ==
  ASSUME NEW S, NEW s \in Seq(S), NEW R,
         \A c, o \in S : c # o => <<c, o>> \in R \/ <<o, c>> \in R,
         \A c, o, q \in S : <<c, o>> \in R /\ <<o, q>> \in R => <<c, q>> \in R,
         NEW T \in SUBSET ToSet(s), T # {}
  PROVE  \E c \in T : \A o \in T \ {c} : <<c, o>> \in R
<1> DEFINE Upto(n) == {c \in T : \E i \in 1..n : s[i] = c}
           Best(U, c) == \A o \in U \ {c} : <<c, o>> \in R
           P == {n \in Nat : n <= Len(s) => Upto(n) = {} \/ \E c \in Upto(n) : Best(Upto(n), c)}
<1>1. Len(s) \in Nat /\ DOMAIN s = 1..Len(s) /\ \A i \in 1..Len(s) : s[i] \in S
  BY LenProperties, ElementOfSeq
<1>2. 0 \in P
  OBVIOUS
<1>3. ASSUME NEW n \in Nat, n \in P PROVE n + 1 \in P
  <2> SUFFICES ASSUME n + 1 <= Len(s)
               PROVE  Upto(n + 1) = {} \/ \E c \in Upto(n + 1) : Best(Upto(n + 1), c)
    OBVIOUS
  <2> DEFINE e == s[n + 1]
  <2>1. e \in S /\ Upto(n + 1) \subseteq S /\ Upto(n) \subseteq S
    <3>1. T \subseteq S
      BY <1>1 DEF ToSet
    <3> QED BY <1>1, <3>1
  <2>2. Upto(n + 1) = IF e \in T THEN Upto(n) \cup {e} ELSE Upto(n)
    <3>1. \A i \in 1..(n + 1) : i \in 1..n \/ i = n + 1
      OBVIOUS
    <3>2. \A i \in 1..n : i \in 1..(n + 1)
      OBVIOUS
    <3>3. n + 1 \in 1..(n + 1)
      OBVIOUS
    <3> QED BY <3>1, <3>2, <3>3
  <2>3. Upto(n) = {} \/ \E c \in Upto(n) : Best(Upto(n), c)
    BY <1>3
  <2> HIDE DEF Upto, e
  <2>4. CASE e \notin T
    BY <2>2, <2>3, <2>4
  <2>5. CASE e \in T /\ Upto(n) = {}
    BY <2>2, <2>5
  <2>6. CASE e \in T /\ \E c \in Upto(n) : Best(Upto(n), c)
    <3>1. PICK c \in Upto(n) : Best(Upto(n), c)
      BY <2>6
    <3>2. CASE c = e \/ <<c, e>> \in R
      BY <2>2, <2>6, <3>1, <3>2
    <3>3. CASE c # e /\ <<c, e>> \notin R
      <4>1. <<e, c>> \in R
        BY <2>1, <3>1, <3>3
      <4>2. \A o \in Upto(n) \ {c} : <<e, o>> \in R
        BY <2>1, <3>1, <4>1
      <4>3. Best(Upto(n) \cup {e}, e)
        BY <4>1, <4>2
      <4> QED BY <2>2, <2>6, <4>3
    <3> QED BY <3>2, <3>3
  <2> QED BY <2>3, <2>4, <2>5, <2>6
<1>4. Len(s) \in P
  <2> HIDE DEF P
  <2> QED BY <1>1, <1>2, <1>3, Induction
<1>5. Upto(Len(s)) = T
  BY <1>1 DEF ToSet
<1> QED BY <1>1, <1>4, <1>5

Rectangle == [lo : [Axis -> Int], hi : [Axis -> Int]]

\* The frames of components are frames.
LEMMA FramesTyped ==
  ASSUME ScrollTypeOK, NEW c \in Component
  PROVE  AbsoluteFrame(c) \in Rectangle /\ ScreenFrame(c) \in Rectangle
<1>1. FrameOf \in [Component -> Rectangle] /\ Scroller \in Component
  BY SceneAssumption DEF Rectangle
<1>2. frameSize \in [Axis -> Nat] /\ scrollPos \in [Axis -> Int]
  BY ScrollAssumption DEF ScrollTypeOK
<1>3. ASSUME NEW e \in Component PROVE AbsoluteFrame(e) \in Rectangle
  <2>1. FrameOf[e] \in Rectangle /\ FrameOf[e].lo \in [Axis -> Int]
    BY <1>1 DEF Rectangle
  <2>2. [a \in Axis |-> FrameOf[e].lo[a] + frameSize[a]] \in [Axis -> Int]
    BY <1>2, <2>1
  <2> QED BY <2>1, <2>2 DEF AbsoluteFrame, Rectangle
<1> DEFINE origin == AbsoluteFrame(Scroller).lo
           Shift(p) == [a \in Axis |-> p[a] - scrollPos[a] + origin[a]]
<1>4. origin \in [Axis -> Int]
  BY <1>1, <1>3 DEF Rectangle
<1>5. \A p \in [Axis -> Int] : Shift(p) \in [Axis -> Int]
  <2> HIDE DEF origin
  <2> QED BY <1>2, <1>4
<1>6. AbsoluteFrame(c) \in Rectangle
  BY <1>3
<1>7. \/ ScreenFrame(c) = AbsoluteFrame(c)
      \/ ScreenFrame(c) = [lo |-> Shift(AbsoluteFrame(c).lo), hi |-> Shift(AbsoluteFrame(c).hi)]
  BY DEF ScreenFrame
<1> HIDE DEF Shift
<1> QED BY <1>5, <1>6, <1>7 DEF Rectangle

\* The four numbers by which the comparator ranks a frame.
Along(d, r) == Distance(d, r)
Start(d, r) == r.lo[Across(d)]
Extent(r, a) == r.hi[a] - r.lo[a]

\* They are numbers, and they determine the frame.
LEMMA Ranks ==
  ASSUME NEW d \in Direction, NEW r \in Rectangle, NEW q \in Rectangle
  PROVE  /\ Along(d, r) \in Int /\ Start(d, r) \in Int
         /\ Extent(r, AxisOf(d)) \in Int /\ Extent(r, Across(d)) \in Int
         /\ /\ Along(d, r) = Along(d, q) /\ Start(d, r) = Start(d, q)
            /\ Extent(r, AxisOf(d)) = Extent(q, AxisOf(d))
            /\ Extent(r, Across(d)) = Extent(q, Across(d))
            => r = q
<1>1. /\ r.lo \in [Axis -> Int] /\ r.hi \in [Axis -> Int] /\ q.lo \in [Axis -> Int]
      /\ q.hi \in [Axis -> Int] /\ r = [lo |-> r.lo, hi |-> r.hi] /\ q = [lo |-> q.lo, hi |-> q.hi]
  BY DEF Rectangle
<1>2. /\ AxisOf(d) \in Axis /\ Across(d) \in Axis
      /\ \A a \in Axis : a = AxisOf(d) \/ a = Across(d)
  BY DEF AxisOf, Across, Axis
<1> DEFINE a == AxisOf(d)
           b == Across(d)
<1>3. /\ r.lo[a] \in Int /\ r.lo[b] \in Int /\ r.hi[a] \in Int /\ r.hi[b] \in Int
      /\ q.lo[a] \in Int /\ q.lo[b] \in Int /\ q.hi[a] \in Int /\ q.hi[b] \in Int
  BY <1>1, <1>2
<1>4. /\ Along(d, r) = IF Forward(d) THEN r.lo[a] ELSE 0 - r.hi[a]
      /\ Along(d, q) = IF Forward(d) THEN q.lo[a] ELSE 0 - q.hi[a]
      /\ Start(d, r) = r.lo[b] /\ Start(d, q) = q.lo[b]
      /\ Extent(r, a) = r.hi[a] - r.lo[a] /\ Extent(q, a) = q.hi[a] - q.lo[a]
      /\ Extent(r, b) = r.hi[b] - r.lo[b] /\ Extent(q, b) = q.hi[b] - q.lo[b]
  BY DEF Along, Start, Extent, Distance
<1> HIDE DEF a, b
<1>5. /\ Along(d, r) \in Int /\ Start(d, r) \in Int /\ Extent(r, a) \in Int /\ Extent(r, b) \in Int
  BY <1>3, <1>4
<1>6. ASSUME Along(d, r) = Along(d, q), Start(d, r) = Start(d, q),
             Extent(r, a) = Extent(q, a), Extent(r, b) = Extent(q, b)
      PROVE  r = q
  <2>1. r.lo[a] = q.lo[a] /\ r.hi[a] = q.hi[a]
    <3> HIDE DEF Along, Start, Extent
    <3>1. r.hi[a] - r.lo[a] = q.hi[a] - q.lo[a]
      BY <1>4, <1>6
    <3>2. CASE Forward(d)
      <4>1. r.lo[a] = q.lo[a]
        BY <1>4, <1>6, <3>2
      <4> QED BY <1>3, <3>1, <4>1
    <3>3. CASE ~Forward(d)
      <4>1. 0 - r.hi[a] = 0 - q.hi[a]
        BY <1>4, <1>6, <3>3
      <4> QED BY <1>3, <3>1, <4>1
    <3> QED BY <3>2, <3>3
  <2>0. r.lo[b] = q.lo[b] /\ r.hi[b] = q.hi[b]
    <3>1. r.hi[b] - r.lo[b] = q.hi[b] - q.lo[b] /\ r.lo[b] = q.lo[b]
      BY <1>4, <1>6
    <3> QED BY <1>3, <3>1
  <2>2. \A x \in Axis : r.lo[x] = q.lo[x] /\ r.hi[x] = q.hi[x]
    BY <1>2, <2>0, <2>1 DEF a, b
  <2>3. r.lo = q.lo /\ r.hi = q.hi
    BY <1>1, <2>2
  <2> QED BY <1>1, <2>3
<1> QED BY <1>5, <1>6 DEF a, b

\* A tuple of four numbers comes before another one in the dictionary.
LEMMA Dictionary ==
  ASSUME NEW s, NEW t, Len(s) = 4
  PROVE  Lexicographic(s, t) <=>
           \/ s[1] < t[1]
           \/ s[1] = t[1] /\ s[2] < t[2]
           \/ s[1] = t[1] /\ s[2] = t[2] /\ s[3] < t[3]
           \/ s[1] = t[1] /\ s[2] = t[2] /\ s[3] = t[3] /\ s[4] < t[4]
<1>1. Lexicographic(s, t) <=> \E i \in 1..4 : s[i] < t[i] /\ \A j \in 1..(i - 1) : s[j] = t[j]
  BY DEF Lexicographic
<1>2. \A i \in 1..4 : i = 1 \/ i = 2 \/ i = 3 \/ i = 4
  OBVIOUS
<1>3. Lexicographic(s, t) <=>
        \/ s[1] < t[1] /\ \A j \in 1..0 : s[j] = t[j]
        \/ s[2] < t[2] /\ \A j \in 1..1 : s[j] = t[j]
        \/ s[3] < t[3] /\ \A j \in 1..2 : s[j] = t[j]
        \/ s[4] < t[4] /\ \A j \in 1..3 : s[j] = t[j]
  BY <1>1, <1>2
<1>4. /\ (\A j \in 1..0 : s[j] = t[j])
      /\ (\A j \in 1..1 : s[j] = t[j]) <=> s[1] = t[1]
      /\ (\A j \in 1..2 : s[j] = t[j]) <=> s[1] = t[1] /\ s[2] = t[2]
      /\ (\A j \in 1..3 : s[j] = t[j]) <=> s[1] = t[1] /\ s[2] = t[2] /\ s[3] = t[3]
  <2>1. /\ \A j \in 1..1 : j = 1
        /\ \A j \in 1..2 : j = 1 \/ j = 2
        /\ \A j \in 1..3 : j = 1 \/ j = 2 \/ j = 3
    OBVIOUS
  <2> QED BY <2>1
<1> QED BY <1>3, <1>4

\* What the comparator says, in numbers.
LEMMA ComparatorForm ==
  ASSUME ScrollTypeOK, NEW d \in Direction, NEW c \in Component, NEW o \in Component
  PROVE  LET r == ScreenFrame(c)
             q == ScreenFrame(o)
         IN  SortDirectionComparator(d, c, o) <=>
               \/ Along(d, r) < Along(d, q)
               \/ /\ Along(d, r) = Along(d, q)
                  /\ \/ Start(d, r) < Start(d, q)
                     \/ /\ Start(d, r) = Start(d, q)
                        /\ \/ Extent(r, AxisOf(d)) < Extent(q, AxisOf(d))
                           \/ /\ Extent(r, AxisOf(d)) = Extent(q, AxisOf(d))
                              /\ \/ Extent(r, Across(d)) < Extent(q, Across(d))
                                 \/ /\ Extent(r, Across(d)) = Extent(q, Across(d))
                                    /\ Tag[c] > Tag[o]
<1> DEFINE r == ScreenFrame(c)
           q == ScreenFrame(o)
<1>1. r \in Rectangle /\ q \in Rectangle
  BY FramesTyped
<1> DEFINE Rank(x) == <<Along(d, x), Start(d, x), Extent(x, AxisOf(d)), Extent(x, Across(d))>>
<1>2. SortDirectionComparator(d, c, o) <=>
        IF r = q THEN Tag[c] > Tag[o] ELSE Lexicographic(Rank(r), Rank(q))
  BY DEF SortDirectionComparator, Along, Start, Extent
<1> HIDE DEF r, q
<1>3. Lexicographic(Rank(r), Rank(q)) <=>
        \/ Along(d, r) < Along(d, q)
        \/ Along(d, r) = Along(d, q) /\ Start(d, r) < Start(d, q)
        \/ /\ Along(d, r) = Along(d, q) /\ Start(d, r) = Start(d, q)
           /\ Extent(r, AxisOf(d)) < Extent(q, AxisOf(d))
        \/ /\ Along(d, r) = Along(d, q) /\ Start(d, r) = Start(d, q)
           /\ Extent(r, AxisOf(d)) = Extent(q, AxisOf(d))
           /\ Extent(r, Across(d)) < Extent(q, Across(d))
  <2> DEFINE m == Rank(r)
             n == Rank(q)
  <2>1. /\ Len(m) = 4 /\ m[1] = Along(d, r) /\ m[2] = Start(d, r)
        /\ m[3] = Extent(r, AxisOf(d)) /\ m[4] = Extent(r, Across(d))
        /\ n[1] = Along(d, q) /\ n[2] = Start(d, q)
        /\ n[3] = Extent(q, AxisOf(d)) /\ n[4] = Extent(q, Across(d))
    OBVIOUS
  <2> HIDE DEF m, n
  <2>2. Lexicographic(m, n) <=>
           \/ m[1] < n[1]
           \/ m[1] = n[1] /\ m[2] < n[2]
           \/ m[1] = n[1] /\ m[2] = n[2] /\ m[3] < n[3]
           \/ m[1] = n[1] /\ m[2] = n[2] /\ m[3] = n[3] /\ m[4] < n[4]
    BY <2>1, Dictionary
  <2> QED BY <2>1, <2>2 DEF m, n
<1> HIDE DEF Rank
<1>4. CASE r = q
  <2>1. /\ Along(d, r) \in Int /\ Start(d, r) \in Int
        /\ Extent(r, AxisOf(d)) \in Int /\ Extent(r, Across(d)) \in Int
    BY <1>1, Ranks
  <2> QED BY <1>2, <1>4, <2>1 DEF r, q
<1>5. CASE r # q
  <2>1. ~(/\ Along(d, r) = Along(d, q) /\ Start(d, r) = Start(d, q)
          /\ Extent(r, AxisOf(d)) = Extent(q, AxisOf(d))
          /\ Extent(r, Across(d)) = Extent(q, Across(d)))
    BY <1>1, <1>5, Ranks
  <2> QED BY <1>2, <1>3, <1>5, <2>1 DEF r, q
<1> QED BY <1>4, <1>5

\* It is a strict order of the components.
LEMMA ComparatorOrders ==
  ASSUME ScrollTypeOK, NEW d \in Direction
  PROVE  /\ \A c, o \in Component :
              c # o => SortDirectionComparator(d, c, o) \/ SortDirectionComparator(d, o, c)
         /\ \A c, o, q \in Component :
              SortDirectionComparator(d, c, o) /\ SortDirectionComparator(d, o, q)
                => SortDirectionComparator(d, c, q)
<1>1. ASSUME NEW c \in Component
      PROVE  /\ Along(d, ScreenFrame(c)) \in Int /\ Start(d, ScreenFrame(c)) \in Int
             /\ Extent(ScreenFrame(c), AxisOf(d)) \in Int
             /\ Extent(ScreenFrame(c), Across(d)) \in Int
             /\ Tag[c] \in Int
  BY FramesTyped, Ranks, SceneAssumption
<1>2. ASSUME NEW c \in Component, NEW o \in Component, c # o
      PROVE  SortDirectionComparator(d, c, o) \/ SortDirectionComparator(d, o, c)
  <2>1. Tag[c] # Tag[o]
    BY <1>2, SceneAssumption DEF IsInjective
  <2> QED BY <1>1, <2>1, ComparatorForm
<1>3. ASSUME NEW c \in Component, NEW o \in Component, NEW q \in Component,
             SortDirectionComparator(d, c, o), SortDirectionComparator(d, o, q)
      PROVE  SortDirectionComparator(d, c, q)
  BY <1>1, <1>3, ComparatorForm
<1> QED BY <1>2, <1>3

\* begin() of a sorted set of candidates.
LEMMA FirstIsFirst ==
  ASSUME ScrollTypeOK, NavTypeOK, NEW d \in Direction, NEW k \in Component,
         NEW T \in SUBSET ToSet(nav[k])
  PROVE  IF T = {} THEN First(d, T) = None
         ELSE /\ First(d, T) \in T
              /\ \A o \in T : Distance(d, ScreenFrame(First(d, T))) <= Distance(d, ScreenFrame(o))
<1>1. CASE T = {}
  BY <1>1 DEF First
<1>2. CASE T # {}
  <2> DEFINE R == {p \in Component \X Component : SortDirectionComparator(d, p[1], p[2])}
  <2>1. \A c, o \in Component : <<c, o>> \in R <=> SortDirectionComparator(d, c, o)
    OBVIOUS
  <2>2. nav[k] \in Seq(Child) /\ Child \subseteq Component
    BY DEF NavTypeOK, Child
  <2>3. T \subseteq Component /\ T \subseteq Child
    <3>1. \A i \in DOMAIN nav[k] : nav[k][i] \in Child
      BY <2>2, LenProperties, ElementOfSeq
    <3> QED BY <2>2, <3>1 DEF ToSet
  <2>4. /\ \A c, o \in Child : c # o => <<c, o>> \in R \/ <<o, c>> \in R
        /\ \A c, o, q \in Child : <<c, o>> \in R /\ <<o, q>> \in R => <<c, q>> \in R
    BY <2>1, <2>2, ComparatorOrders
  <2> HIDE DEF R
  <2>5. \E c \in T : \A o \in T \ {c} : <<c, o>> \in R
    <3> DEFINE s == nav[k]
    <3>1. s \in Seq(Child) /\ T \in SUBSET ToSet(s) /\ T # {}
      BY <1>2, <2>2
    <3> HIDE DEF s
    <3> QED BY ONLY <2>4, <3>1, FirstInList
  <2>6. \E c \in T : \A o \in T \ {c} : SortDirectionComparator(d, c, o)
    BY <2>1, <2>3, <2>5
  <2> DEFINE f == First(d, T)
  <2>7. f \in T /\ \A o \in T \ {f} : SortDirectionComparator(d, f, o)
    BY <1>2, <2>6 DEF First
  <2> HIDE DEF f
  <2>8. ASSUME NEW o \in T PROVE Distance(d, ScreenFrame(f)) <= Distance(d, ScreenFrame(o))
    <3>1. f \in Component /\ o \in Component
      BY <2>3, <2>7
    <3>2. Along(d, ScreenFrame(f)) \in Int /\ Along(d, ScreenFrame(o)) \in Int
      BY <3>1, FramesTyped, Ranks
    <3>3. Along(d, ScreenFrame(f)) <= Along(d, ScreenFrame(o))
      <4>1. CASE f = o
        BY <3>2, <4>1
      <4>2. CASE f # o
        <5>1. SortDirectionComparator(d, f, o)
          BY <2>7, <4>2
        <5> QED BY <3>1, <3>2, <5>1, ComparatorForm
      <4> QED BY <4>1, <4>2
    <3> QED BY <3>3 DEF Along
  <2> QED BY <1>2, <2>7, <2>8 DEF f
<1> QED BY <1>1, <1>2


-----------------------------------------------------------------------------
(* What the search finds, and what the input thread leaves behind.          *)

\* preferredFocusInContainer returns a component of a list, or nothing.
LEMMA LastPreferredTyped ==
  ASSUME NavTypeOK, NEW k \in Component, NEW inner \in Child \cup {None}
  PROVE  LastPreferred(k, inner) \in Child \cup {None}
<1> DEFINE Resolve(i) == LET c == nav[k][i]
                         IN  IF IsContainer(c) THEN inner ELSE IF c \in Preferred THEN c ELSE None
           found == {i \in 1..Len(nav[k]) : Resolve(i) # None}
<1>1. nav[k] \in Seq(Child) /\ Len(nav[k]) \in Nat /\ \A i \in 1..Len(nav[k]) : nav[k][i] \in Child
  BY LenProperties, ElementOfSeq DEF NavTypeOK
<1>2. \A i \in 1..Len(nav[k]) : Resolve(i) \in Child \cup {None}
  BY <1>1
<1>3. LastPreferred(k, inner) = IF found = {} THEN None ELSE Resolve(Greatest(found))
  BY DEF LastPreferred
<1> HIDE DEF Resolve
<1>4. CASE found # {}
  <2>1. found \in SUBSET (1..Len(nav[k]))
    OBVIOUS
  <2> HIDE DEF found
  <2>2. \E i \in found : \A j \in found : i >= j
    BY <1>1, <1>4, <2>1, Extremes
  <2>3. Greatest(found) \in found
    BY <2>2 DEF Greatest
  <2> QED BY <1>2, <1>3, <1>4, <2>1, <2>3
<1>5. CASE found = {}
  BY <1>3, <1>5
<1> QED BY <1>4, <1>5

\* So does firstInContainer.
LEMMA FirstOfTyped ==
  ASSUME NavTypeOK, NEW k \in Component, NEW inner \in Child \cup {None}
  PROVE  FirstOf(k, inner) \in Child \cup {None}
<1>1. nav[k] \in Seq(Child)
  BY DEF NavTypeOK
<1>2. nav[k] # <<>> => Head(nav[k]) \in Child
  BY <1>1
<1> QED BY <1>2 DEF FirstOf

\* The candidate of a search is a component other than the root, or nothing.
LEMMA CandidateTyped ==
  ASSUME ScrollTypeOK, NavTypeOK, NEW k \in Component, NEW d \in Direction, NEW v \in BOOLEAN
  PROVE  FindFocusCandidateInContainer(k, d, v) \in Child \cup {None}
<1> DEFINE current == ScreenFrame(currentFocus)
           over == {c \in Admitted(k, d, v) : Overlaps(d, current, ScreenFrame(c))}
           past == {c \in Admitted(k, d, v) \ over : Beyond(d, current, ScreenFrame(c))}
<1>1. Scroller \in Component /\ None \in Child \cup {None}
  BY SceneAssumption
<1>2. FindDefaultFocusInContainer(k) \in Child \cup {None}
  <2>1. LastPreferred(Scroller, None) \in Child \cup {None}
    BY <1>1, LastPreferredTyped
  <2>2. PreferredFocusInContainer(k) \in Child \cup {None}
    BY <2>1, LastPreferredTyped DEF PreferredFocusInContainer
  <2>3. FirstOf(Scroller, None) \in Child \cup {None}
    BY <1>1, FirstOfTyped
  <2>4. FirstInContainer(k) \in Child \cup {None}
    BY <2>3, FirstOfTyped DEF FirstInContainer
  <2> QED BY <2>2, <2>4 DEF FindDefaultFocusInContainer
<1>3. /\ over \in SUBSET ToSet(nav[k]) /\ past \in SUBSET ToSet(nav[k])
      /\ ToSet(nav[k]) \subseteq Child
  <2>1. nav[k] \in Seq(Child) /\ \A i \in DOMAIN nav[k] : nav[k][i] \in Child
    BY LenProperties, ElementOfSeq DEF NavTypeOK
  <2> QED BY <2>1 DEF Admitted, ToSet
<1>4. FindFocusCandidateInContainer(k, d, v)
        = IF currentFocus = None THEN FindDefaultFocusInContainer(k)
          ELSE PickCandidateInDirection(d, over, past)
  BY DEF FindFocusCandidateInContainer
<1> HIDE DEF over, past
<1>5. First(d, over) \in Child \cup {None} /\ First(d, past) \in Child \cup {None}
  BY <1>3, FirstIsFirst
<1>6. PickCandidateInDirection(d, over, past) \in {First(d, over), First(d, past)}
  BY DEF PickCandidateInDirection
<1> QED BY <1>2, <1>4, <1>5, <1>6

\* currentContainer_ is a container or nothing.
LEMMA SetFocusTyped ==
  ASSUME NavTypeOK, TreeOK, NEW c \in Child, SetFocus(c)
  PROVE  /\ currentFocus' \in Child \cup {None} /\ currentContainer' \in Component \cup {None}
         /\ currentFocus' \in {c, currentFocus}
<1>1. c \in Component /\ NearestAncestorContainer(c) \in Component \cup {None}
  BY NearestIsContainer, SceneFacts DEF Child
<1>2. currentFocus \in Child \cup {None} /\ currentContainer \in Component \cup {None}
  BY DEF NavTypeOK
<1> QED BY <1>1, <1>2 DEF SetFocus, focusVars

\* What a step of a key leaves behind.
KeyKept ==
  /\ key' \in KeyType /\ (key'.pc # "idle" => key'.container # None)
  /\ currentFocus' \in Child \cup {None} /\ currentContainer' \in Component \cup {None}
  /\ KeyLook'

\* No look is in use before a candidate has been tested, nor after the key.
LEMMA NoLookInUse ==
  ASSUME key'.pc \notin {"set", "take"}
  PROVE  KeyLook'
BY DEF KeyLook, LookShows

LEMMA PressKeeps ==
  ASSUME NavTypeOK, NEW d \in Direction, Press(d)
  PROVE  KeyKept
<1>1. Root \in Component /\ None \notin Component
  BY SceneAssumption
<1>2. currentContainer' \in Component /\ currentFocus' \in Child \cup {None}
  BY <1>1 DEF Press, NavTypeOK
<1>3. key' = [pc |-> "search", dir |-> d, container |-> currentContainer', candidate |-> None,
              ancestor |-> FALSE, visibleOnly |-> FALSE, entered |-> None]
  BY DEF Press, NoPress
<1>4. key'.pc = "search"
  BY <1>3
<1> QED BY <1>1, <1>2, <1>3, <1>4, NoLookInUse DEF KeyType, KeyKept

\* The deleted component ends the program.
LEMMA UseDeletedKeeps ==
  ASSUME NavInv, UseDeleted
  PROVE  KeyKept
<1>1. UNCHANGED <<key, focusVars, scrollVars>>
  BY DEF UseDeleted
<1>2. UNCHANGED look
  BY <1>1 DEF scrollVars
<1>3. KeyLook'
  BY <1>1, <1>2 DEF NavInv, KeyLook, LookShows, FitsIn, ShownAt
<1> QED BY <1>1, <1>3 DEF KeyKept, NavInv, NavTypeOK, focusVars

LEMMA SearchKeeps ==
  ASSUME ScrollTypeOK, NavInv, Search
  PROVE  KeyKept
<1>1. key \in KeyType /\ (key.pc # "idle" => key.container # None) /\ NavTypeOK
  BY DEF NavInv, NavTypeOK
<1>2. CASE UseDeleted
  BY <1>2, UseDeletedKeeps
<1>3. CASE ~UseDeleted
  <2> DEFINE anc == /\ currentFocus # None
                    /\ key.container = currentFocus \/ HasAncestor(currentFocus, key.container)
             vis == /\ currentFocus # None
                    /\ ~(anc /\ key.container = Scroller /\ CanScrollInDirection(key.dir))
             found == FindFocusCandidateInContainer(key.container, key.dir, vis)
  <2>1. /\ key.pc = "search" /\ UNCHANGED focusVars
        /\ key' = [key EXCEPT !.pc = "test", !.ancestor = anc, !.visibleOnly = vis,
                     !.candidate = found]
    BY <1>3 DEF Search
  <2>2. key.container \in Component /\ key.dir \in Direction
    BY <1>1, <2>1 DEF KeyType
  <2>3. anc \in BOOLEAN /\ vis \in BOOLEAN
    OBVIOUS
  <2> HIDE DEF anc, vis
  <2>4. found \in Child \cup {None}
    BY <1>1, <2>2, <2>3, CandidateTyped
  <2> HIDE DEF found
  <2>5. key' \in KeyType /\ key'.container # None /\ key'.pc = "test"
    BY <1>1, <2>1, <2>2, <2>3, <2>4 DEF KeyType
  <2> QED BY <1>1, <2>1, <2>5, NoLookInUse DEF KeyKept, NavTypeOK, focusVars
<1> QED BY <1>2, <1>3

\* What scrollInDirection answers; it scrolls to the candidate only if there is
\* one, and it is not the scroll view itself.
LEMMA ScrollAnswers ==
  ASSUME NEW k, NEW c, NEW d
  PROVE  LET result == ScrollContainer(k, c, d)
         IN  /\ result.status \in {"noScroll", "scrollOnly", "scrollToFocus"}
             /\ result.status = "scrollToFocus" => k = Scroller /\ c \notin {None, Scroller}
             /\ result.status = "scrollOnly" => k = Scroller
<1>1. ASSUME NEW r
      PROVE  /\ ScrollInDirection(r, d).status \in {"noScroll", "scrollOnly", "scrollToFocus"}
             /\ r = NoFrame => ScrollInDirection(r, d).status # "scrollToFocus"
  <2>1. ASSUME NEW p PROVE HandleScroll(p).status \in {"noScroll", "scrollOnly"}
    BY DEF HandleScroll
  <2>2. /\ HandleSnapToOffsetScroll(d, r).status \in {"noScroll", "scrollOnly", "scrollToFocus"}
        /\ r = NoFrame => HandleSnapToOffsetScroll(d, r).status # "scrollToFocus"
    BY DEF HandleSnapToOffsetScroll
  <2>3. ScrollToFrame(d, r).status = "scrollToFocus"
    BY DEF ScrollToFrame
  <2> QED BY <2>1, <2>2, <2>3 DEF ScrollInDirection
<1> QED BY <1>1 DEF ScrollContainer

\* The search of another container.
LEMMA SearchTyped ==
  ASSUME NEW k \in Component, NEW e \in {None, Scroller}, key.dir \in Direction
  PROVE  /\ SearchIn(k, e) \in KeyType
         /\ SearchIn(k, e).container = k /\ SearchIn(k, e).pc = "search"
BY DEF SearchIn, NoPress, KeyType

\* A call that returned false ends the key or goes on with the next container.
LEMMA NotConsumedKeeps ==
  ASSUME NavInv, key.pc # "idle", NotConsumed
  PROVE  KeyKept
<1>1. key \in KeyType /\ key.container \in Component /\ NavTypeOK /\ TreeOK
  BY DEF NavInv, NavTypeOK, KeyType
<1>2. currentFocus \in Child \cup {None} /\ currentContainer \in Component \cup {None}
  BY <1>1 DEF NavTypeOK
<1>3. Scroller \in Child /\ None \notin Component /\ Root \in Component /\ Child \subseteq Component
  BY SceneFacts, SceneAssumption DEF Child
<1>4. NoPress \in KeyType /\ NoPress.pc = "idle"
  BY DEF NoPress, KeyType, Direction
<1>5. CASE key.entered # None
  <2>1. key.entered = Scroller /\ key' = NoPress /\ SetFocus(Scroller)
    BY <1>1, <1>5 DEF NotConsumed, KeyType
  <2>2. currentFocus' \in Child \cup {None} /\ currentContainer' \in Component \cup {None}
    BY <1>1, <1>3, <2>1, SetFocusTyped
  <2> QED BY <1>4, <2>1, <2>2, NoLookInUse DEF KeyKept
<1>6. CASE key.entered = None
  <2> DEFINE n == NearestAncestorContainer(key.container)
  <2>1. UNCHANGED focusVars /\ (key' = NoPress \/ (n # None /\ key' = SearchIn(n, None)))
    BY <1>6 DEF NotConsumed
  <2>2. n \in Component \cup {None}
    BY <1>1, <1>3, NearestIsContainer
  <2> HIDE DEF n
  <2>3. CASE key' = NoPress
    BY <1>2, <1>4, <2>1, <2>3, NoLookInUse DEF KeyKept, focusVars
  <2>4. CASE n # None /\ key' = SearchIn(n, None)
    <3>1. n \in Component /\ n # None /\ key.dir \in Direction
      BY <1>1, <2>2, <2>4 DEF KeyType
    <3>2. /\ SearchIn(n, None) \in KeyType
          /\ SearchIn(n, None).container = n /\ SearchIn(n, None).pc = "search"
      BY <1>4, <3>1, SearchTyped
    <3> QED BY <1>2, <2>1, <2>4, <3>1, <3>2, NoLookInUse DEF KeyKept, focusVars
  <2> QED BY <2>1, <2>3, <2>4
<1> QED BY <1>5, <1>6

\* A candidate that is visible is looked at.
LEMMA TestKeeps ==
  ASSUME ScrollTypeOK, NavInv, Test
  PROVE  KeyKept
<1> DEFINE c == key.candidate
<1>1. key \in KeyType /\ key.pc = "test" /\ key.container # None
      /\ currentFocus \in Child \cup {None} /\ currentContainer \in Component \cup {None}
  BY DEF NavInv, NavTypeOK, Test, KeyAt
<1>2. \/ UseDeleted
      \/ NotConsumed
      \/ /\ c # None /\ VisibleIn(key.container, c) /\ UNCHANGED focusVars
         /\ key' = [key EXCEPT !.pc = "take"] /\ (key.container = Scroller => See)
      \/ key' = [key EXCEPT !.pc = "scroll"] /\ UNCHANGED focusVars
  BY DEF Test
<1>3. CASE UseDeleted
  BY <1>3, UseDeletedKeeps
<1>4. CASE NotConsumed
  BY <1>1, <1>4, NotConsumedKeeps
<1>5. CASE /\ c # None /\ VisibleIn(key.container, c) /\ UNCHANGED focusVars
           /\ key' = [key EXCEPT !.pc = "take"] /\ (key.container = Scroller => See)
  <2>1. /\ key' \in KeyType /\ key'.pc = "take" /\ key'.candidate = c
        /\ key'.container = key.container
    BY <1>1, <1>5 DEF KeyType
  <2>2. LookShows'
    <3> SUFFICES ASSUME key.container = Scroller, c \in Item
                 PROVE  ShownAt(FrameOf[c], look'.pos, look'.sizes)
      BY <2>1 DEF LookShows, FitsIn, ShownAt
    <3>1. look'.pos = scrollPos /\ look'.sizes = Sizes
      BY <1>5 DEF See, Look
    <3>2. IsVisible(FrameOf[c])
      BY <1>5, SceneAssumption DEF VisibleIn, AbsoluteFrame
    <3>3. Sizes[2] = frameSize
      BY DEF Sizes
    <3> QED BY <3>1, <3>2, <3>3 DEF IsVisible, Encloses, VisibleRect, ShownAt
  <2> QED BY <1>1, <1>5, <2>1, <2>2 DEF KeyKept, KeyLook, focusVars
<1>6. CASE key' = [key EXCEPT !.pc = "scroll"] /\ UNCHANGED focusVars
  <2>1. key' \in KeyType /\ key'.pc = "scroll" /\ key'.container = key.container
    BY <1>1, <1>6 DEF KeyType
  <2> QED BY <1>1, <1>6, <2>1, NoLookInUse DEF KeyKept, focusVars
<1> QED BY <1>2, <1>3, <1>4, <1>5, <1>6

\* handleScroll(direction, candidateFrame) brings a frame that fits into view.
LEMMA ToFrameShows ==
  ASSUME ScrollTypeOK, horizontal => contentSize["x"] > frameSize["x"],
         NEW d \in Direction, AxisOf(d) = ScrollAxis, NEW r \in Rectangle, FitsIn(r, Sizes)
  PROVE  ShownAt(r, ScrollToFrame(d, r).pos, Sizes)
<1> DEFINE a == ScrollAxis
           p == [scrollPos EXCEPT ![a] = IF Forward(d) THEN r.hi[a] - frameSize[a] ELSE r.lo[a]]
           pos == ScrollToFrame(d, r).pos
<1>1. /\ scrollPos \in [Axis -> Int] /\ contentSize \in [Axis -> Nat]
      /\ frameSize \in [Axis -> Nat] /\ horizontal \in BOOLEAN
  BY SizesAreNat DEF ScrollTypeOK
<1>2. horizontal => contentSize["x"] > frameSize["x"]
  OBVIOUS
<1>3. /\ r.lo["x"] \in Int /\ r.lo["y"] \in Int /\ r.hi["x"] \in Int /\ r.hi["y"] \in Int
  BY DEF Rectangle, Axis
<1>4. \A b \in Axis : /\ 0 <= r.lo[b] /\ r.hi[b] <= contentSize[b]
                      /\ r.hi[b] - (IF b = a THEN r.lo[b] ELSE 0) <= frameSize[b]
  BY DEF FitsIn, Sizes, ScrollAxis
<1>5. pos = Clamped(p, contentSize, frameSize, horizontal)
  BY DEF ScrollToFrame
<1>6. p[a] = IF Forward(d) THEN r.hi[a] - frameSize[a] ELSE r.lo[a]
  BY <1>1 DEF ScrollAxis, Axis
<1> HIDE DEF p, pos
<1>7. CASE horizontal
  <2>1. a = "x"
    BY <1>7 DEF ScrollAxis
  <2>2. pos["x"] = Clamp(p["x"], contentSize["x"] - frameSize["x"]) /\ pos["y"] = 0
    BY <1>5, <1>7 DEF Clamped, Axis
  <2>3. pos["x"] <= r.lo["x"] /\ r.hi["x"] <= pos["x"] + frameSize["x"]
    <3>1. /\ contentSize["x"] \in Nat /\ frameSize["x"] \in Nat
          /\ 0 <= r.lo["x"] /\ r.hi["x"] <= contentSize["x"]
          /\ r.hi["x"] - r.lo["x"] <= frameSize["x"]
      BY <1>1, <1>4, <2>1 DEF Axis
    <3>2. p["x"] = IF Forward(d) THEN r.hi["x"] - frameSize["x"] ELSE r.lo["x"]
      BY <1>6, <2>1
    <3> QED BY <1>2, <1>3, <1>7, <2>2, <3>1, <3>2 DEF Clamp
  <2>4. pos["y"] <= r.lo["y"] /\ r.hi["y"] <= pos["y"] + frameSize["y"]
    BY <1>1, <1>3, <1>4, <2>1, <2>2 DEF Axis
  <2> QED BY <2>3, <2>4 DEF ShownAt, Sizes, Axis, pos
<1>8. CASE ~horizontal
  <2>1. a = "y"
    BY <1>8 DEF ScrollAxis
  <2>2. /\ pos["y"] = IF contentSize["y"] <= frameSize["y"] THEN 0
                      ELSE Clamp(p["y"], contentSize["y"] - frameSize["y"])
        /\ pos["x"] = 0
    BY <1>5, <1>8 DEF Clamped, Axis
  <2>3. pos["y"] <= r.lo["y"] /\ r.hi["y"] <= pos["y"] + frameSize["y"]
    <3>1. /\ contentSize["y"] \in Nat /\ frameSize["y"] \in Nat
          /\ 0 <= r.lo["y"] /\ r.hi["y"] <= contentSize["y"]
          /\ r.hi["y"] - r.lo["y"] <= frameSize["y"]
      BY <1>1, <1>4, <2>1 DEF Axis
    <3>2. p["y"] = IF Forward(d) THEN r.hi["y"] - frameSize["y"] ELSE r.lo["y"]
      BY <1>6, <2>1
    <3> QED BY <1>3, <2>2, <3>1, <3>2 DEF Clamp
  <2>4. pos["x"] <= r.lo["x"] /\ r.hi["x"] <= pos["x"] + frameSize["x"]
    BY <1>1, <1>3, <1>4, <2>1, <2>2 DEF Axis
  <2> QED BY <2>3, <2>4 DEF ShownAt, Sizes, Axis, pos
<1> QED BY <1>1, <1>7, <1>8

\* Without snapping and paging, scrollInDirection scrolls to a candidate by
\* bringing it to the edge of the frame, along the axis of the view.
LEMMA PlainScroll ==
  ASSUME NEW d, NEW r \in Rectangle, r # NoFrame, props.snaps = {}, ~props.paging,
         ScrollInDirection(r, d).status = "scrollToFocus"
  PROVE  AxisOf(d) = ScrollAxis /\ ScrollInDirection(r, d) = ScrollToFrame(d, r)
<1>1. \A p : HandleScroll(p).status # "scrollToFocus"
  BY DEF HandleScroll
<1>2. CanScrollInDirection(d)
  BY DEF ScrollInDirection
<1>3. AxisOf(d) = ScrollAxis
  BY <1>2 DEF CanScrollInDirection
<1>4. ScrollInDirection(r, d) = ScrollToFrame(d, r)
  BY <1>1 DEF ScrollInDirection
<1> QED BY <1>3, <1>4

\* A position for the scroll view is decided.
LEMMA ScrollKeeps ==
  ASSUME ScrollTypeOK, NavInv, Scroll
  PROVE  KeyKept
<1> DEFINE c == key.candidate
           k == key.container
           result == ScrollContainer(k, c, key.dir)
<1>1. key \in KeyType /\ key.pc = "scroll" /\ key.container # None
      /\ currentFocus \in Child \cup {None} /\ currentContainer \in Component \cup {None}
  BY DEF NavInv, NavTypeOK, Scroll, KeyAt
<1>2. \/ UseDeleted
      \/ NotConsumed
      \/ /\ result.status # "noScroll" /\ Decide(result, key.dir)
         /\ key' = [key EXCEPT !.pc = "set"] /\ UNCHANGED focusVars
  BY DEF Scroll
<1>3. CASE UseDeleted
  BY <1>3, UseDeletedKeeps
<1>4. CASE NotConsumed
  BY <1>1, <1>4, NotConsumedKeeps
<1>5. CASE /\ result.status # "noScroll" /\ Decide(result, key.dir)
           /\ key' = [key EXCEPT !.pc = "set"] /\ UNCHANGED focusVars
  <2>1. /\ k = Scroller
        /\ result.status = "scrollToFocus" => c \notin {None, Scroller}
    BY <1>5, ScrollAnswers
  <2>2. /\ key' \in KeyType /\ key'.pc = "set" /\ key'.candidate = c /\ key'.container = k
    BY <1>1, <1>5 DEF KeyType
  <2>3. /\ look'.status = result.status /\ look'.pos = result.pos
        /\ look'.sizes = Sizes /\ look'.props = props
    BY <1>5 DEF Decide, Look
  <2>4. LookShows'
    <3> SUFFICES ASSUME c \in Item, result.status = "scrollToFocus",
                        props.snaps = {}, ~props.paging,
                        Sizes[3] => Sizes[1]["x"] > Sizes[2]["x"], FitsIn(FrameOf[c], Sizes)
                 PROVE  ShownAt(FrameOf[c], result.pos, Sizes)
      BY <2>2, <2>3 DEF LookShows, FitsIn, ShownAt
    <3>1. c \in Component \ {Root, Scroller} /\ c \notin {None, Scroller}
      BY SceneAssumption
    <3>2. FrameOf[c] \in Rectangle /\ FrameOf[c] # NoFrame
      BY <3>1, SceneAssumption, ScrollAssumption DEF Rectangle
    <3>3. result = ScrollInDirection(FrameOf[c], key.dir)
      BY <2>1, <3>1 DEF ScrollContainer, AbsoluteFrame
    <3>4. AxisOf(key.dir) = ScrollAxis /\ result = ScrollToFrame(key.dir, FrameOf[c])
      BY <3>2, <3>3, PlainScroll
    <3>5. horizontal => contentSize["x"] > frameSize["x"]
      BY DEF Sizes
    <3>6. key.dir \in Direction
      BY <1>1 DEF KeyType
    <3> HIDE DEF result, c
    <3> QED BY <3>2, <3>4, <3>5, <3>6, ToFrameShows
  <2> HIDE DEF result, c, k
  <2> QED BY <1>1, <1>5, <2>1, <2>2, <2>3, <2>4 DEF KeyKept, KeyLook, focusVars
<1> QED BY <1>2, <1>3, <1>4, <1>5

\* The scroll view is in place: the candidate that it was scrolled to is taken.
LEMMA SetKeeps ==
  ASSUME NavInv, Set
  PROVE  KeyKept
<1>1. key \in KeyType /\ key.pc = "set" /\ key.container # None /\ KeyLook
      /\ currentFocus \in Child \cup {None} /\ currentContainer \in Component \cup {None}
  BY DEF NavInv, NavTypeOK, Set, KeyAt
<1>2. \/ UseDeleted
      \/ NotConsumed
      \/ key' = NoPress /\ UNCHANGED focusVars
      \/ /\ look.status = "scrollToFocus" /\ key' = [key EXCEPT !.pc = "take"]
         /\ UNCHANGED <<look, focusVars>>
  BY DEF Set
<1>3. CASE UseDeleted
  BY <1>3, UseDeletedKeeps
<1>4. CASE NotConsumed
  BY <1>1, <1>4, NotConsumedKeeps
<1>5. CASE key' = NoPress /\ UNCHANGED focusVars
  <2>1. NoPress \in KeyType /\ NoPress.pc = "idle"
    BY DEF NoPress, KeyType, Direction
  <2> QED BY <1>1, <1>5, <2>1, NoLookInUse DEF KeyKept, focusVars
<1>6. CASE /\ look.status = "scrollToFocus" /\ key' = [key EXCEPT !.pc = "take"]
           /\ UNCHANGED <<look, focusVars>>
  <2>1. /\ key' \in KeyType /\ key'.pc = "take" /\ key'.candidate = key.candidate
        /\ key'.container = key.container
    BY <1>1, <1>6 DEF KeyType
  <2>2. key.candidate # None /\ LookShows
    BY <1>1, <1>6 DEF KeyLook
  <2>3. LookShows'
    BY <1>1, <1>6, <2>1, <2>2 DEF LookShows, FitsIn, ShownAt
  <2> QED BY <1>1, <1>6, <2>1, <2>2, <2>3 DEF KeyKept, KeyLook, focusVars
<1> QED BY <1>2, <1>3, <1>4, <1>5, <1>6

\* The candidate is searched if it is a container, or takes the focus.
LEMMA TakeKeeps ==
  ASSUME NavInv, Take
  PROVE  KeyKept
<1> DEFINE c == key.candidate
<1>1. key \in KeyType /\ key.pc = "take" /\ KeyLook /\ NavTypeOK /\ TreeOK
      /\ currentFocus \in Child \cup {None} /\ currentContainer \in Component \cup {None}
  BY DEF NavInv, NavTypeOK, Take, KeyAt
<1>2. c \in Child /\ key.dir \in Direction
  BY <1>1 DEF KeyType, KeyLook
<1>3. \/ UseDeleted
      \/ IsContainer(c) /\ key' = SearchIn(c, c) /\ UNCHANGED focusVars
      \/ key' = NoPress /\ SetFocus(c)
  BY DEF Take
<1>4. NoPress \in KeyType /\ NoPress.pc = "idle"
  BY DEF NoPress, KeyType, Direction
<1>5. CASE UseDeleted
  BY <1>5, UseDeletedKeeps
<1>6. CASE IsContainer(c) /\ key' = SearchIn(c, c) /\ UNCHANGED focusVars
  <2>1. c = Scroller /\ Scroller \in Component /\ Scroller # None
    BY <1>2, <1>6, SceneAssumption DEF IsContainer, Child
  <2>2. key' = [pc |-> "search", dir |-> key.dir, container |-> Scroller, candidate |-> None,
                ancestor |-> FALSE, visibleOnly |-> FALSE, entered |-> Scroller]
    BY <1>6, <2>1 DEF SearchIn, NoPress
  <2>3. key' \in KeyType /\ key'.pc = "search" /\ key'.container # None
    BY <1>2, <2>1, <2>2 DEF KeyType
  <2> QED BY <1>1, <1>6, <2>3, NoLookInUse DEF KeyKept, focusVars
<1>7. CASE key' = NoPress /\ SetFocus(c)
  <2>1. currentFocus' \in Child \cup {None} /\ currentContainer' \in Component \cup {None}
    BY <1>1, <1>2, <1>7, SetFocusTyped
  <2> QED BY <1>4, <1>7, <2>1, NoLookInUse DEF KeyKept
<1> QED BY <1>3, <1>5, <1>6, <1>7

-----------------------------------------------------------------------------
(* The scroll view as the navigator uses it is the scroll view of           *)
(* ScrollView: whatever spatial navigation does to it is a step of its own. *)

LEMMA NavScrolls ==
  ASSUME NavTypeOK, [NavNext]_navVars
  PROVE  [ScrollNext]_scrollVars
<1>1. CASE CommitMount
  BY <1>1 DEF CommitMount, ScrollNext
<1>2. CASE CommitUpdate
  BY <1>2 DEF CommitUpdate
<1>3. CASE CommitScroll
  BY <1>3 DEF CommitScroll, ScrollNext
<1>4. ASSUME NEW c \in Component, CommitUnmount(c) \/ Perform(c)
      PROVE  UNCHANGED scrollVars
  BY <1>4 DEF CommitUnmount, Perform
<1>5. ASSUME NEW c \in Component, NeedFocusUpdate(c)
      PROVE  NavigatorScrolls \/ UNCHANGED scrollVars
  <2>1. c \in Preferred
    BY <1>5 DEF NeedFocusUpdate
  <2>2. AbsoluteFrame(c) \in CandidateFrame
    BY <2>1, SceneAssumption DEF AbsoluteFrame
  <2>3. MoveTo(ScrollTo(AbsoluteFrame(c))) \/ UNCHANGED scrollVars
    BY <1>5 DEF NeedFocusUpdate
  <2> QED BY <2>2, <2>3 DEF NavigatorScrolls
<1>6. ASSUME NEW d \in Direction, Press(d) PROVE UNCHANGED scrollVars
  BY <1>6 DEF Press
<1>7. CASE Search
  BY <1>7 DEF Search, UseDeleted
<1>8. CASE Test
  <2>1. See \/ UNCHANGED scrollVars
    BY <1>8 DEF Test, UseDeleted
  <2> QED BY <2>1 DEF NavigatorScrolls, ScrollNext
<1>9. CASE Scroll
  <2> DEFINE c == key.candidate
             k == key.container
             d == key.dir
             r == IF c \in {None, Scroller} THEN NoFrame ELSE AbsoluteFrame(c)
             result == ScrollContainer(k, c, d)
  <2>1. c \in Child \cup {None} /\ d \in Direction
    BY DEF NavTypeOK, KeyType
  <2>2. r \in CandidateFrame \cup {NoFrame}
    BY <2>1, SceneAssumption DEF AbsoluteFrame, Child
  <2>3. UNCHANGED scrollVars \/ (result.status # "noScroll" /\ Decide(result, d))
    BY <1>9 DEF Scroll, UseDeleted
  <2>4. result.status # "noScroll" => k = Scroller
    BY ScrollAnswers
  <2>5. k = Scroller => result = ScrollInDirection(r, d)
    BY DEF ScrollContainer
  <2> HIDE DEF result, r, d, c, k
  <2> QED BY <2>1, <2>2, <2>3, <2>4, <2>5 DEF NavigatorScrolls, ScrollNext
<1>10. CASE Set
  <2>1. UNCHANGED scrollVars \/ (SetPosition /\ look' \in {look, NoLook})
    BY <1>10 DEF Set, UseDeleted
  <2> QED BY <2>1 DEF NavigatorScrolls, ScrollNext
<1>11. CASE Take
  <2>1. UNCHANGED scrollVars \/ Forget
    BY <1>11 DEF Take, UseDeleted
  <2> QED BY <2>1 DEF NavigatorScrolls, ScrollNext
<1>12. CASE UNCHANGED navVars
  BY <1>12 DEF navVars
<1> QED BY <1>1, <1>2, <1>3, <1>4, <1>5, <1>6, <1>7, <1>8, <1>9, <1>10, <1>11, <1>12
        DEF NavNext, Main, Input, ScrollNext

\* What the main thread does concerns neither the key in hand nor its last look.
LEMMA MainKeepsLook ==
  ASSUME Main
  PROVE  UNCHANGED <<key, look>>
<1>1. CASE CommitMount
  BY <1>1 DEF CommitMount, CreateScroller, scrollVars
<1>2. CASE CommitUpdate
  BY <1>2 DEF CommitUpdate, scrollVars
<1>3. CASE CommitScroll
  BY <1>3 DEF CommitScroll, ReactScrolls, UpdateComponentProps, UpdateComponentState, UpdateLayout,
              ScrollToEnd, ScrollToOffset
<1>4. ASSUME NEW c \in Component, CommitUnmount(c) PROVE UNCHANGED <<key, look>>
  BY <1>4 DEF CommitUnmount, scrollVars
<1>5. ASSUME NEW c \in Component, NeedFocusUpdate(c) PROVE UNCHANGED <<key, look>>
  BY <1>5 DEF NeedFocusUpdate, MoveTo, scrollVars
<1>6. ASSUME NEW c \in Component, Perform(c) PROVE UNCHANGED <<key, look>>
  BY <1>6 DEF Perform, scrollVars
<1> QED BY <1>1, <1>2, <1>3, <1>4, <1>5, <1>6 DEF Main

LEMMA LookUntouched ==
  ASSUME KeyLook, UNCHANGED <<key, look>>
  PROVE  KeyLook'
BY DEF KeyLook, LookShows, FitsIn, ShownAt

LEMMA NavStart == NavInit => NavInv
<1> SUFFICES ASSUME NavInit PROVE NavInv
  OBVIOUS
<1>1. /\ alive = {Root} /\ parent = [c \in Component |-> None] /\ nav = [c \in Component |-> <<>>]
      /\ missed = {} /\ currentFocus = None /\ currentContainer = None
      /\ todo = Performed /\ key = NoPress /\ dangling = FALSE
  BY DEF NavInit
<1>2. Root \in Component /\ None \notin Component /\ Scroller \in Component
  BY SceneAssumption
<1>3. Performed \in Transaction
  BY DEF Performed, Transaction
<1>4. NoPress \in KeyType /\ NoPress.pc = "idle"
  BY DEF NoPress, KeyType, Direction
<1>5. NavTypeOK
  <2>1. nav \in [Component -> Seq(Child)] /\ parent \in [Component -> Component \cup {None}]
    BY <1>1
  <2> QED BY <1>1, <1>2, <1>3, <1>4, <2>1 DEF NavTypeOK
<1>6. TreeOK
  BY <1>1, <1>2 DEF TreeOK, Performed
<1>7. AttachedSomewhere
  <2>1. Attached({Root}, parent, todo.insert, todo.move)
    BY <1>1 DEF Attached, Performed
  <2> QED BY <1>2, <2>1 DEF AttachedSomewhere
<1>8. ListsCover
  <2>1. todo.insert = {}
    BY <1>1 DEF Performed
  <2>2. \A h : Covers(h, alive, parent, focusable, nav, missed)
    BY <1>1 DEF Covers
  <2> QED BY <2>1, <2>2, HolderExists DEF ListsCover
<1>9. KeyLook
  BY <1>1, <1>4 DEF KeyLook, LookShows
<1> QED BY <1>5, <1>6, <1>7, <1>8, <1>9 DEF NavInv

\* What leaves the tree, the lists and the transaction alone.
LEMMA TreeUntouched ==
  ASSUME NavInv, UNCHANGED <<treeVars, todo>>
  PROVE  TreeOK' /\ AttachedSomewhere' /\ ListsCover'
<1>1. UNCHANGED <<alive, parent, focusable, nav, missed, todo>>
  BY DEF treeVars
<1>2. TreeOK'
  BY <1>1 DEF NavInv, TreeOK
<1>3. AttachedSomewhere'
  BY <1>1 DEF NavInv, AttachedSomewhere
<1>4. ListsCover'
  BY <1>1 DEF NavInv, ListsCover
<1> QED BY <1>2, <1>3, <1>4

\* NavInv is kept by every step: a step of the main thread leaves the key in hand
\* and its look alone, a step of the input thread the tree and the lists.
THEOREM NavStep == NavInv /\ ScrollTypeOK /\ [NavNext]_navVars => NavInv'
<1> SUFFICES ASSUME NavInv, ScrollTypeOK, [NavNext]_navVars PROVE NavInv'
  OBVIOUS
<1>0. /\ NavTypeOK /\ TreeOK /\ KeyLook
      /\ alive \subseteq Component /\ Root \in alive
      /\ parent \in [Component -> Component \cup {None}]
      /\ nav \in [Component -> Seq(Child)] /\ missed \subseteq Component
      /\ currentFocus \in Child \cup {None} /\ currentContainer \in Component \cup {None}
      /\ todo \in Transaction
      /\ key \in KeyType /\ (key.pc # "idle" => key.container # None) /\ dangling \in BOOLEAN
  BY DEF NavInv, NavTypeOK
<1>t. NavTypeOK' <=>
        /\ alive' \subseteq Component /\ Root \in alive'
        /\ parent' \in [Component -> Component \cup {None}]
        /\ nav' \in [Component -> Seq(Child)] /\ missed' \subseteq Component
        /\ currentFocus' \in Child \cup {None} /\ currentContainer' \in Component \cup {None}
        /\ todo' \in Transaction
        /\ key' \in KeyType /\ (key'.pc # "idle" => key'.container # None) /\ dangling' \in BOOLEAN
  BY DEF NavTypeOK
<1>i. NavInv' <=> NavTypeOK' /\ TreeOK' /\ AttachedSomewhere' /\ ListsCover' /\ KeyLook'
  BY DEF NavInv
<1>m. Main => KeyLook'
  BY <1>0, MainKeepsLook, LookUntouched
<1>1. CASE CommitMount
  <2>1. KeyLook'
    BY <1>1, <1>m DEF Main
  <2> QED BY <1>0, <1>t, <1>i, <1>1, <2>1, CommitMountKeeps DEF focusVars
<1>2. ASSUME NEW c \in Component, CommitUnmount(c) PROVE NavInv'
  <2>1. KeyLook'
    BY <1>2, <1>m DEF Main
  <2> QED BY <1>0, <1>t, <1>i, <1>2, <2>1, CommitUnmountKeeps DEF treeVars, focusVars
<1>3. CASE CommitUpdate
  <2>1. KeyLook'
    BY <1>3, <1>m DEF Main
  <2> QED BY <1>0, <1>t, <1>i, <1>3, <2>1, CommitUpdateKeeps DEF treeVars, focusVars
<1>4. ASSUME NEW c \in Component, Perform(c) PROVE NavInv'
  <2>1. UNCHANGED <<key, dangling>>
        /\ (PerformInsert(c) \/ PerformRemove(c) \/ PerformDelete(c) \/ PerformUpdate(c))
    BY <1>4 DEF Perform
  <2>k. KeyLook'
    BY <1>4, <1>m DEF Main
  <2>2. CASE PerformInsert(c)
    BY <1>0, <1>t, <1>i, <2>1, <2>k, <2>2, InsertKeeps DEF focusVars
  <2>3. CASE PerformRemove(c)
    BY <1>0, <1>t, <1>i, <2>1, <2>k, <2>3, RemoveKeeps
  <2>4. CASE PerformDelete(c)
    BY <1>0, <1>t, <1>i, <2>1, <2>k, <2>4, DeleteKeeps DEF focusVars
  <2>5. CASE PerformUpdate(c)
    BY <1>0, <1>t, <1>i, <2>1, <2>k, <2>5, UpdateKeeps
  <2> QED BY <2>1, <2>2, <2>3, <2>4, <2>5
<1>5. ASSUME UNCHANGED <<treeVars, todo>>, KeyLook',
             currentFocus' \in Child \cup {None}, currentContainer' \in Component \cup {None},
             key' \in KeyType, key'.pc # "idle" => key'.container # None, dangling' \in BOOLEAN
      PROVE  NavInv'
  BY <1>0, <1>t, <1>i, <1>5, TreeUntouched DEF treeVars
<1>6. ASSUME NEW c \in Component, NeedFocusUpdate(c) PROVE NavInv'
  <2>1. UNCHANGED <<treeVars, todo, key, dangling>> /\ SetFocus(c) /\ c \in Child
    BY <1>6, SceneAssumption DEF NeedFocusUpdate, Child
  <2>2. KeyLook'
    BY <1>6, <1>m DEF Main
  <2> QED BY <1>0, <1>5, <2>1, <2>2, SetFocusTyped
<1>7. CASE CommitScroll
  <2>1. KeyLook'
    BY <1>7, <1>m DEF Main
  <2> QED BY <1>0, <1>5, <1>7, <2>1 DEF CommitScroll, focusVars
<1>8. ASSUME KeyKept, UNCHANGED <<treeVars, todo>>, dangling' \in BOOLEAN
      PROVE  NavInv'
  BY <1>5, <1>8 DEF KeyKept
<1>9. ASSUME NEW d \in Direction, Press(d) PROVE NavInv'
  BY <1>0, <1>8, <1>9, PressKeeps DEF Press
<1>10. CASE Search
  <2>1. UNCHANGED <<treeVars, todo>> /\ dangling' \in BOOLEAN
    BY <1>0, <1>10 DEF Search, UseDeleted
  <2> QED BY <1>8, <1>10, <2>1, SearchKeeps
<1>11. ASSUME OnlyKey \/ UseDeleted
       PROVE  UNCHANGED <<treeVars, todo>> /\ dangling' \in BOOLEAN
  BY <1>0, <1>11 DEF OnlyKey, UseDeleted
<1>12. CASE Test
  BY <1>8, <1>11, <1>12, TestKeeps DEF Test
<1>13. CASE Scroll
  BY <1>8, <1>11, <1>13, ScrollKeeps DEF Scroll
<1>14. CASE Set
  BY <1>8, <1>11, <1>14, SetKeeps DEF Set
<1>15. CASE Take
  BY <1>8, <1>11, <1>15, TakeKeeps DEF Take
<1>16. CASE UNCHANGED navVars
  <2>1. UNCHANGED <<treeVars, todo, key, dangling, focusVars, scrollVars>>
    BY <1>16 DEF navVars
  <2>2. KeyLook'
    BY <1>0, <2>1, LookUntouched DEF scrollVars
  <2> QED BY <1>0, <1>5, <2>1, <2>2 DEF focusVars
<1> QED BY <1>1, <1>2, <1>3, <1>4, <1>6, <1>7, <1>9, <1>10, <1>12, <1>13, <1>14, <1>15, <1>16
        DEF NavNext, Main, Input

\* Whatever a transaction mounts, unmounts, moves and changes, the lists cover
\* what is on the screen (the mutations of RSkComponent and
\* RSkSpatialNavigatorContainer), and whatever the scroll view does meanwhile, a
\* key keeps what it has seen of it (advanceFocusInDirection).
THEOREM NavAlways == NavSpec => [](NavInv /\ ScrollInv)
<1>1. NavInit => NavInv /\ ScrollInv
  <2>1. NavInit => ScrollInit
    BY DEF NavInit
  <2> QED BY <2>1, NavStart, ScrollStart
<1>2. (NavInv /\ ScrollInv) /\ [NavNext]_navVars => (NavInv /\ ScrollInv)'
  <2> SUFFICES ASSUME NavInv, ScrollInv, [NavNext]_navVars PROVE NavInv' /\ ScrollInv'
    OBVIOUS
  <2>1. NavTypeOK /\ ScrollTypeOK
    BY DEF NavInv, ScrollInv
  <2>2. [ScrollNext]_scrollVars
    BY <2>1, NavScrolls
  <2> QED BY <2>1, <2>2, NavStep, ScrollStep
<1> QED BY <1>1, <1>2, PTL DEF NavSpec

\* Every focusable component on the screen is in the list of its container, for
\* any tree and any order of transactions, also of updates between the removal
\* and the insertion of a component above; only what is updated just then may be
\* missing (updateComponentData with nearestAncestorContainer).
THEOREM ListsCompleteHolds == NavSpec => []ListsComplete
BY NavAlways, ListsCompleteFollows, PTL

\* Spatial navigation uses the scroll view as ScrollView describes it: what the
\* navigator, the mutations and React do to it are steps of ScrollView.
THEOREM NavImplementsScroll == NavSpec => ScrollSpec
<1>1. NavInit => ScrollInit
  BY DEF NavInit
<1>2. NavInv /\ [NavNext]_navVars => [ScrollNext]_scrollVars
  BY NavScrolls DEF NavInv
<1> QED BY <1>1, <1>2, NavAlways, PTL DEF NavSpec, ScrollSpec

\* The position stays inside the range (OffsetInRange) when React scrolls and
\* resizes the view while the input thread searches, decides and scrolls.
THEOREM NavOffsetInRange == NavSpec => []OffsetInRange
BY NavImplementsScroll, ScrollSafety

-----------------------------------------------------------------------------
(* The candidate that a search chooses.                                     *)

\* Rules 1 and 2 in numbers.
LEMMA ValidForm ==
  ASSUME NEW d \in Direction, NEW current \in Rectangle, NEW r \in Rectangle
  PROVE  IsValidCandidate(d, current, r) <=> Distance(d, r) > Distance(d, current)
<1>1. /\ r.lo["x"] \in Int /\ r.lo["y"] \in Int /\ r.hi["x"] \in Int /\ r.hi["y"] \in Int
      /\ current.lo["x"] \in Int /\ current.lo["y"] \in Int
      /\ current.hi["x"] \in Int /\ current.hi["y"] \in Int
  BY DEF Rectangle, Axis
<1>2. CASE d = "right"
  BY <1>1, <1>2 DEF IsValidCandidate, Distance, Forward, AxisOf
<1>3. CASE d = "left"
  BY <1>1, <1>3 DEF IsValidCandidate, Distance, Forward, AxisOf
<1>4. CASE d = "up"
  BY <1>1, <1>4 DEF IsValidCandidate, Distance, Forward, AxisOf
<1>5. CASE d = "down"
  BY <1>1, <1>5 DEF IsValidCandidate, Distance, Forward, AxisOf
<1> QED BY <1>2, <1>3, <1>4, <1>5 DEF Direction

\* The search finds a nearest one of those that are there.
LEMMA FindsNearest ==
  ASSUME ScrollTypeOK, NavTypeOK, NEW k \in Component, NEW d \in Direction, NEW v \in BOOLEAN,
         currentFocus # None
  PROVE  IsNearest(FindFocusCandidateInContainer(k, d, v), d, There(k, d, v))
<1> DEFINE current == ScreenFrame(currentFocus)
           admitted == Admitted(k, d, v)
           over == {c \in admitted : Overlaps(d, current, ScreenFrame(c))}
           past == {c \in admitted \ over : Beyond(d, current, ScreenFrame(c))}
           near == First(d, over)
           other == First(d, past)
           D(c) == Distance(d, ScreenFrame(c))
           found == FindFocusCandidateInContainer(k, d, v)
           there == There(k, d, v)
<1>1. found = PickCandidateInDirection(d, over, past)
  BY DEF FindFocusCandidateInContainer
<1>2. currentFocus \in Component /\ Child \subseteq Component /\ None \notin Component
  BY SceneAssumption DEF NavTypeOK, Child
<1>3. ToSet(nav[k]) \subseteq Child
  <2>1. nav[k] \in Seq(Child) /\ \A i \in DOMAIN nav[k] : nav[k][i] \in Child
    BY LenProperties, ElementOfSeq DEF NavTypeOK
  <2> QED BY <2>1 DEF ToSet
<1>4. \A c \in Component : ScreenFrame(c) \in Rectangle /\ D(c) \in Int
  BY FramesTyped, Ranks DEF Along
<1>5. \A c \in Component :
        IsValidCandidate(d, current, ScreenFrame(c)) <=> D(c) > Distance(d, current)
  BY <1>2, <1>4, ValidForm
<1>6. there = over \cup past
  <2>1. admitted = {c \in ToSet(nav[k]) \ {currentFocus} :
                      (v => VisibleIn(k, c)) /\ D(c) > Distance(d, current)}
    BY <1>2, <1>3, <1>5 DEF Admitted
  <2>2. there = {c \in ToSet(nav[k]) \ {currentFocus} :
                   /\ D(c) > Distance(d, current)
                   /\ Overlaps(d, current, ScreenFrame(c)) \/ Beyond(d, current, ScreenFrame(c))
                   /\ v => VisibleIn(k, c)}
    BY DEF There
  <2> HIDE DEF admitted, there, current, D
  <2> QED BY <2>1, <2>2
<1>7. over \in SUBSET ToSet(nav[k]) /\ past \in SUBSET ToSet(nav[k])
  BY DEF Admitted
<1>8. AxisOf(d) = "x" => past = {}
  BY DEF Beyond, AxisOf
<1>9. found = IF \/ AxisOf(d) = "x" \/ other = None
                 \/ near # None /\ D(near) <= D(other)
              THEN near ELSE other
  BY <1>1 DEF PickCandidateInDirection
<1> HIDE DEF over, past, found, there
<1>10. /\ over = {} => near = None
       /\ over # {} => near \in over /\ \A o \in over : D(near) <= D(o)
       /\ past = {} => other = None
       /\ past # {} => other \in past /\ \A o \in past : D(other) <= D(o)
  BY <1>7, FirstIsFirst
<1>11. /\ \A c \in over \cup past : c # None /\ D(c) \in Int
  BY <1>2, <1>3, <1>4, <1>7
<1> HIDE DEF near, other, D
<1>12. IF found = None THEN there = {}
       ELSE found \in there /\ \A o \in there : D(found) <= D(o)
  <2>1. CASE over = {} /\ past = {}
    BY <1>6, <1>9, <1>10, <2>1
  <2>2. CASE over # {} /\ past = {}
    BY <1>6, <1>9, <1>10, <1>11, <2>2
  <2>3. CASE over = {} /\ past # {}
    BY <1>6, <1>8, <1>9, <1>10, <1>11, <2>3
  <2>4. CASE over # {} /\ past # {}
    <3>1. /\ near \in over /\ other \in past /\ near # None /\ other # None
          /\ D(near) \in Int /\ D(other) \in Int /\ AxisOf(d) # "x"
      BY <1>8, <1>10, <1>11, <2>4
    <3>2. CASE D(near) <= D(other)
      BY <1>6, <1>9, <1>10, <1>11, <2>4, <3>1, <3>2
    <3>3. CASE ~(D(near) <= D(other))
      BY <1>6, <1>9, <1>10, <1>11, <2>4, <3>1, <3>3
    <3> QED BY <3>2, <3>3
  <2> QED BY <2>1, <2>2, <2>3, <2>4
<1> QED BY <1>12 DEF IsNearest, found, there, D

\* Of the steps that a key takes, Search alone turns a search into a candidate,
\* and Take alone ends the handling of a candidate that is taken.
LEMMA KeySteps ==
  ASSUME [NavNext]_navVars
  PROVE  /\ key.pc = "search" /\ key'.pc = "test" => Search /\ ~UNCHANGED key
         /\ key.pc = "take" /\ key'.pc = "idle" => Take /\ ~UNCHANGED key
<1>1. Main => UNCHANGED key
  BY MainKeepsLook
<1>2. ASSUME NEW d \in Direction, Press(d) PROVE key.pc = "idle"
  BY <1>2 DEF Press
<1>3. /\ Search => key.pc = "search"
      /\ Test => key.pc = "test"
      /\ Scroll => key.pc = "scroll"
      /\ Set => key.pc = "set"
      /\ Take => key.pc = "take"
  BY DEF Search, Test, Scroll, Set, Take, KeyAt
<1>4. UNCHANGED navVars => UNCHANGED key
  BY DEF navVars
<1> QED BY <1>1, <1>2, <1>3, <1>4 DEF NavNext, Input

\* The candidate that a key chooses is nearest (findFocusCandidateInContainer
\* and the rules that isValidCandidate and sortDirectionComparator apply).
THEOREM PicksNearestHolds == NavSpec => PicksNearest
<1>1. NavInv /\ ScrollInv /\ [NavNext]_navVars =>
        [key.pc = "search" /\ key'.pc = "test" /\ currentFocus # None =>
           IsNearest(key'.candidate, key.dir,
                     There(key.container, key.dir, key'.visibleOnly))]_navVars
  <2> SUFFICES ASSUME NavInv, ScrollInv, [NavNext]_navVars,
                      key.pc = "search", key'.pc = "test", currentFocus # None
               PROVE  IsNearest(key'.candidate, key.dir,
                                There(key.container, key.dir, key'.visibleOnly))
    OBVIOUS
  <2>1. NavTypeOK /\ ScrollTypeOK /\ key \in KeyType /\ key.container # None
    BY DEF NavInv, NavTypeOK, ScrollInv, KeyType
  <2>2. key.container \in Component /\ key.dir \in Direction
    BY <2>1 DEF KeyType
  <2>3. Search /\ ~UNCHANGED key
    BY KeySteps
  <2> DEFINE anc == /\ currentFocus # None
                    /\ key.container = currentFocus \/ HasAncestor(currentFocus, key.container)
             vis == /\ currentFocus # None
                    /\ ~(anc /\ key.container = Scroller /\ CanScrollInDirection(key.dir))
             found == FindFocusCandidateInContainer(key.container, key.dir, vis)
  <2>4. key' = [key EXCEPT !.pc = "test", !.ancestor = anc, !.visibleOnly = vis,
                  !.candidate = found]
    BY <2>3 DEF Search, UseDeleted
  <2>5. vis \in BOOLEAN
    OBVIOUS
  <2> HIDE DEF anc, vis
  <2>6. IsNearest(found, key.dir, There(key.container, key.dir, vis))
    BY <2>1, <2>2, <2>5, FindsNearest
  <2> HIDE DEF found
  <2>7. key'.candidate = found /\ key'.visibleOnly = vis
    BY <2>1, <2>4 DEF KeyType
  <2> QED BY <2>6, <2>7
<1> QED BY <1>1, NavAlways, PTL DEF NavSpec, PicksNearest

-----------------------------------------------------------------------------
(* The focus in view.                                                       *)

\* A key that moves the focus to a component in the scroll view leaves that
\* component in view, whatever React does between the steps of the key, if the
\* view at the end is as the key saw it (advanceFocusInDirection with isVisible
\* and scrollInDirection of RSkComponentScrollView).
THEOREM FocusShownHolds == NavSpec => FocusShown
<1>1. NavInv /\ ScrollInv /\ [NavNext]_navVars =>
        [FocusMoves /\ AsSeen /\ props.snaps = {} /\ ~props.paging => FocusInView']_navVars
  <2> SUFFICES ASSUME NavInv, ScrollInv, [NavNext]_navVars,
                      FocusMoves, AsSeen, props.snaps = {}, ~props.paging
               PROVE  FocusInView'
    OBVIOUS
  <2>1. Take /\ ~UNCHANGED key
    BY KeySteps DEF FocusMoves
  <2>2. Forget /\ currentFocus' = key.candidate
    <3>1. Forget /\ ~UNCHANGED focusVars
      BY <2>1 DEF Take, UseDeleted, FocusMoves, focusVars
    <3> QED BY <2>1, <3>1 DEF Take, UseDeleted, SetFocus, focusVars
  <2>3. UNCHANGED <<scrollPos, contentSize, frameSize, horizontal, stale>>
    BY <2>2 DEF Forget, viewVars
  <2> DEFINE f == key.candidate
             r == FrameOf[f]
  <2>4. SUFFICES ASSUME f \in Item, ~stale, Fits(r)
                 PROVE  IsVisible(r)
    BY <2>2, <2>3 DEF FocusInView, Fits, IsVisible, VisibleRect, Encloses, ScrollAxis
  <2>5. FitsIn(r, Sizes)
    BY <2>4 DEF Fits, FitsIn, Sizes, ScrollAxis
  <2>6. Sizes[3] => Sizes[1]["x"] > Sizes[2]["x"]
    BY <2>4 DEF ScrollInv, AxisFollowsSizes, Sizes
  <2>7. ShownAt(r, scrollPos, Sizes)
    BY <2>4, <2>5, <2>6 DEF NavInv, KeyLook, LookShows, FocusMoves, AsSeen
  <2> QED BY <2>7 DEF ShownAt, IsVisible, VisibleRect, Encloses, Sizes
<1> QED BY <1>1, NavAlways, PTL DEF NavSpec, FocusShown

=============================================================================
