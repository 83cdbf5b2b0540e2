--------------------------- MODULE LayerTreeProofs --------------------------
(***************************************************************************)
(* Proofs about LayerTree, for any views, surface and bounds: the links    *)
(* between the layers agree, from prePaint on the layers that paint can    *)
(* reach are those of the mounted views, and the screen shows after every  *)
(* frame what a repainting of the whole tree would.                        *)
(***************************************************************************)
EXTENDS LayerTree, SequenceTheorems, WellFoundedInduction, TLAPS

\* v is in a list of views that React has mounted.
Placed(v) == \E p \in Layer : v \in ToSet(mounted[p])

\* The layers whose lists a transaction may still change.
Known == {p \in Layer : p = Root \/ Placed(p) \/ \E q \in Layer : <<p, q>> \in removed}

TreeTypeOK ==
  /\ mounted \in [Layer -> Seq(View)]
  /\ children \in [Layer -> Seq(View)]
  /\ parent \in [Layer -> Layer \cup {NoLayer}]
  /\ mask \in [Layer -> SUBSET {"paint", "layout", "remove"}]
  /\ phase \in {"idle", "mutate", "paint"}
  /\ removed \subseteq View \X Layer
  /\ moved \subseteq View

\* A view is mounted in one place.
MountedOnce ==
  /\ \A p \in Layer : IsInjective(mounted[p])
  /\ \A p, q \in Layer, c \in View :
       c \in ToSet(mounted[p]) /\ c \in ToSet(mounted[q]) => p = q

\* The layer of a mounted view is in the list of the layer above it, unless the view
\* was removed and inserted again and prePaint has taken the layer out.
MountedLinked ==
  \A p \in Layer, c \in View :
    c \in ToSet(mounted[p]) => \/ parent[c] = p
                               \/ parent[c] = NoLayer /\ c \in moved

\* A layer that is still in the list of a view that lost it is marked.
LeftMarked ==
  \A p \in Layer, c \in View :
    parent[c] = p /\ c \notin ToSet(mounted[p]) => "remove" \in mask[c]

\* The mark is on every view that was removed or moved, and on no other that is mounted.
MarksOfMoved ==
  /\ \A c \in moved : "remove" \in mask[c]
  /\ \A r \in removed : "remove" \in mask[r[1]]
  /\ \A c \in View : Placed(c) /\ "remove" \in mask[c] => c \in moved

\* A view that may be created has a new layer.
NewUnmarked ==
  phase # "paint" =>
    \A v \in View :
      ~Placed(v) /\ (\A q \in Layer : <<v, q>> \notin removed) /\ parent[v] = NoLayer
        /\ children[v] = <<>> => v \notin moved /\ "remove" \notin mask[v]

\* A removed view leaves the list of a view that the transaction knows.
RemovedKnown == \A r \in removed : parent[r[1]] = NoLayer \/ parent[r[1]] \in Known

\* Outside a transaction a view that is not mounted has no views below it.
UnmountedEmpty ==
  phase # "mutate" => \A v \in View : v \notin Mounted => mounted[v] = <<>>

\* LayersShown, from the start on.
Shown == phase # "mutate" => Reached = Mounted \ UNION {Below(v) : v \in moved}

TreeInv ==
  /\ TreeTypeOK /\ LinksConsistent /\ MountedOnce /\ MountedLinked /\ LeftMarked
  /\ MarksOfMoved /\ NewUnmarked /\ RemovedKnown /\ UnmountedEmpty /\ Shown


-----------------------------------------------------------------------------
(* Induction over the natural numbers and recursion, for the lists.        *)

\* A set that holds 0 and the successor of each of its numbers holds them all.
LEMMA Induction ==
  ASSUME NEW P, 0 \in P, \A n \in Nat : n \in P => n + 1 \in P
  PROVE  Nat \subseteq P
<1> DEFINE R == {p \in Nat \X Nat : p[1] < p[2]}
<1> SUFFICES ASSUME Nat \ P # {} PROVE FALSE
  OBVIOUS
<1>1. IsWellFoundedOn(R, Nat)
  BY NatLessThanWellFounded DEF OpToRel
<1>2. PICK x \in Nat \ P : \A y \in Nat \ P : <<y, x>> \notin R
  <2>1. Nat \ P \subseteq Nat
    OBVIOUS
  <2> QED BY <1>1, <2>1, WFMin
<1>3. x # 0 /\ x \in Nat
  BY <1>2
<1>4. x - 1 \in Nat /\ x - 1 < x /\ (x - 1) + 1 = x
  BY <1>3
<1>5. x - 1 \in P
  BY <1>2, <1>4
<1> QED BY <1>2, <1>4, <1>5

\* f is the recursion that starts with s and whose n-th step is F[<<n, _>>].
IsRecursion(f, m, S, s, F) ==
  f \in [0..m -> S] /\ f[0] = s /\ \A n \in 1..m : f[n] = F[<<n, f[n - 1]>>]

\* A recursion over 0..m has a solution.
LEMMA Recursion ==
  ASSUME NEW m \in Nat, NEW S, NEW s \in S, NEW F \in [(1..m) \X S -> S]
  PROVE  \E f : IsRecursion(f, m, S, s, F)
<1> DEFINE Solves(f, k) == f[0] = s /\ \A n \in 1..k : f[n] = F[<<n, f[n - 1]>>]
           P == {k \in Nat : k <= m => \E f \in [0..k -> S] : Solves(f, k)}
<1>1. 0 \in P
  <2>1. [i \in 0..0 |-> s] \in [0..0 -> S] /\ Solves([i \in 0..0 |-> s], 0)
    OBVIOUS
  <2> QED BY <2>1
<1>2. ASSUME NEW k \in Nat, k \in P PROVE k + 1 \in P
  <2> SUFFICES ASSUME k + 1 <= m PROVE \E g \in [0..(k + 1) -> S] : Solves(g, k + 1)
    OBVIOUS
  <2>1. PICK f \in [0..k -> S] : Solves(f, k)
    BY <1>2
  <2> DEFINE g == [i \in 0..(k + 1) |-> IF i = k + 1 THEN F[<<k + 1, f[k]>>] ELSE f[i]]
  <2>2. f[k] \in S /\ k + 1 \in 1..m
    BY <2>1
  <2>3. F[<<k + 1, f[k]>>] \in S
    BY <2>2
  <2>4. g \in [0..(k + 1) -> S]
    BY <2>1, <2>3
  <2>5. Solves(g, k + 1)
    <3>1. g[0] = s
      BY <2>1
    <3>2. ASSUME NEW n \in 1..(k + 1) PROVE g[n] = F[<<n, g[n - 1]>>]
      <4>1. CASE n = k + 1
        <5>1. n - 1 = k /\ k \in 0..(k + 1) /\ k # k + 1 /\ k + 1 \in 0..(k + 1)
          BY <4>1
        <5>2. g[k] = f[k] /\ g[k + 1] = F[<<k + 1, f[k]>>]
          BY <5>1
        <5> QED BY <4>1, <5>1, <5>2
      <4>2. CASE n # k + 1
        <5>1. n \in 1..k /\ n - 1 \in 0..k
          BY <4>2
        <5>2. g[n] = f[n] /\ g[n - 1] = f[n - 1]
          BY <4>2, <5>1
        <5> QED BY <2>1, <5>1, <5>2
      <4> QED BY <4>1, <4>2
    <3> QED BY <3>1, <3>2
  <2> QED BY <2>4, <2>5
<1> HIDE DEF P
<1>3. m \in P
  BY <1>1, <1>2, Induction
<1> QED BY <1>3 DEF P, IsRecursion

-----------------------------------------------------------------------------
(* Lists of views.                                                         *)

\* A list with one view more.
LEMMA Inserted ==
  ASSUME NEW s \in Seq(View), NEW v \in View, NEW i \in 0..Len(s)
  PROVE  /\ InsertAt(s, i + 1, v) \in Seq(View)
         /\ ToSet(InsertAt(s, i + 1, v)) = ToSet(s) \cup {v}
         /\ IsInjective(s) /\ v \notin ToSet(s) => IsInjective(InsertAt(s, i + 1, v))
         /\ \A x, y : x # v /\ y # v => (InOrder(InsertAt(s, i + 1, v), x, y) <=> InOrder(s, x, y))
<1> DEFINE a == SubSeq(s, 1, (i + 1) - 1)
           b == <<v>>
           c == SubSeq(s, i + 1, Len(s))
           t == (a \o b) \o c
           m == Len(s)
<1>1. m \in Nat /\ i \in Nat /\ i <= m /\ (i + 1) - 1 = i /\ DOMAIN s = 1..m
  BY LenProperties
<1>2. a \in Seq(View) /\ Len(a) = i /\ \A j \in 1..i : a[j] = s[j]
  BY <1>1, SubSeqProperties
<1>3. c \in Seq(View) /\ Len(c) = m - i /\ \A j \in 1..(m - i) : c[j] = s[i + j]
  <2>1. /\ c \in Seq(View) /\ Len(c) = IF i + 1 <= m THEN m - (i + 1) + 1 ELSE 0
        /\ \A j \in 1..(m - (i + 1) + 1) : c[j] = s[(i + 1) + j - 1]
    BY <1>1, SubSeqProperties
  <2> HIDE DEF c, m
  <2>2. \A j \in 1..(m - i) : j \in 1..(m - (i + 1) + 1) /\ (i + 1) + j - 1 = i + j
    BY <1>1
  <2> QED BY <1>1, <2>1, <2>2
<1>4. b \in Seq(View) /\ Len(b) = 1 /\ b[1] = v
  OBVIOUS
<1> HIDE DEF a, b, c
<1>5. /\ a \o b \in Seq(View) /\ Len(a \o b) = i + 1
      /\ \A j \in 1..(i + 1) : (a \o b)[j] = IF j <= i THEN s[j] ELSE v
  <2>1. /\ a \o b \in Seq(View) /\ Len(a \o b) = Len(a) + Len(b)
        /\ \A j \in 1..(Len(a) + Len(b)) :
             (a \o b)[j] = IF j <= Len(a) THEN a[j] ELSE b[j - Len(a)]
    BY <1>2, <1>4, ConcatProperties
  <2>2. ASSUME NEW j \in 1..(i + 1) PROVE (a \o b)[j] = IF j <= i THEN s[j] ELSE v
    <3>1. (a \o b)[j] = IF j <= i THEN a[j] ELSE b[j - i]
      BY <1>2, <1>4, <2>1, <2>2
    <3>2. CASE j <= i
      <4>1. j \in 1..i
        BY <1>1, <3>2
      <4> QED BY <1>2, <3>1, <3>2, <4>1
    <3>3. CASE ~(j <= i)
      <4>1. j - i = 1
        BY <1>1, <3>3
      <4> QED BY <1>4, <3>1, <3>3, <4>1
    <3> QED BY <3>2, <3>3
  <2> QED BY <1>1, <1>2, <1>4, <2>1, <2>2
<1> DEFINE ab == a \o b
<1> HIDE DEF ab, m
<1>6. /\ t \in Seq(View) /\ Len(t) = m + 1
      /\ \A j \in 1..(m + 1) :
           t[j] = IF j <= i THEN s[j] ELSE IF j = i + 1 THEN v ELSE s[j - 1]
  <2>0. /\ ab \in Seq(View) /\ Len(ab) = i + 1
        /\ \A j \in 1..(i + 1) : ab[j] = IF j <= i THEN s[j] ELSE v
    BY <1>5 DEF ab
  <2>1. /\ ab \o c \in Seq(View) /\ Len(ab \o c) = Len(ab) + Len(c)
        /\ \A j \in 1..(Len(ab) + Len(c)) :
             (ab \o c)[j] = IF j <= Len(ab) THEN ab[j] ELSE c[j - Len(ab)]
    BY <1>3, <2>0, ConcatProperties
  <2>2. t = ab \o c
    BY DEF ab
  <2> HIDE DEF t
  <2>3. Len(t) = m + 1
    <3>1. Len(t) = Len(ab) + Len(c)
      BY <2>1, <2>2, Zenon
    <3>2. Len(ab) = i + 1 /\ Len(c) = m - i
      BY <1>3, <2>0, Zenon
    <3>3. (i + 1) + (m - i) = m + 1
      BY <1>1
    <3> QED BY <3>1, <3>2, <3>3, Zenon
  <2>4. ASSUME NEW j \in 1..(m + 1)
        PROVE  t[j] = IF j <= i THEN s[j] ELSE IF j = i + 1 THEN v ELSE s[j - 1]
    <3>1. t[j] = IF j <= i + 1 THEN ab[j] ELSE c[j - (i + 1)]
      BY <1>1, <1>3, <2>0, <2>1, <2>2, <2>4
    <3>2. CASE j <= i + 1
      <4>1. j \in 1..(i + 1)
        BY <1>1, <3>2
      <4>2. ab[j] = IF j <= i THEN s[j] ELSE v
        BY <2>0, <4>1
      <4> QED BY <1>1, <3>1, <3>2, <4>2
    <3>3. CASE ~(j <= i + 1)
      <4>1. j - (i + 1) \in 1..(m - i) /\ i + (j - (i + 1)) = j - 1 /\ ~(j <= i) /\ j # i + 1
        BY <1>1, <3>3
      <4> QED BY <1>3, <3>1, <3>3, <4>1
    <3> QED BY <3>2, <3>3
  <2> QED BY <2>1, <2>2, <2>3, <2>4
<1>7. InsertAt(s, i + 1, v) = t
  BY DEF InsertAt, a, b, c, m
<1> HIDE DEF t
<1>8. DOMAIN t = 1..(m + 1)
  BY <1>6, LenProperties
<1>9. ToSet(t) = ToSet(s) \cup {v}
  <2>1. ASSUME NEW j \in DOMAIN t PROVE t[j] \in ToSet(s) \cup {v}
    <3>1. CASE j <= i
      BY <1>1, <1>6, <1>8, <3>1 DEF ToSet
    <3>2. CASE j = i + 1
      BY <1>1, <1>6, <1>8, <3>2
    <3>3. CASE ~(j <= i) /\ j # i + 1
      <4>1. j - 1 \in DOMAIN s /\ t[j] = s[j - 1]
        BY <1>1, <1>6, <1>8, <3>3
      <4> QED BY <4>1 DEF ToSet
    <3> QED BY <3>1, <3>2, <3>3
  <2>2. v \in ToSet(t)
    <3>1. i + 1 \in DOMAIN t /\ t[i + 1] = v
      BY <1>1, <1>6, <1>8
    <3> QED BY <3>1 DEF ToSet
  <2>3. ASSUME NEW j \in DOMAIN s PROVE s[j] \in ToSet(t)
    <3>1. CASE j <= i
      <4>1. j \in DOMAIN t /\ t[j] = s[j]
        BY <1>1, <1>6, <1>8, <3>1
      <4> QED BY <4>1 DEF ToSet
    <3>2. CASE ~(j <= i)
      <4>1. j + 1 \in 1..(m + 1) /\ ~(j + 1 <= i) /\ j + 1 # i + 1 /\ (j + 1) - 1 = j
        BY <1>1, <3>2
      <4>2. j + 1 \in DOMAIN t /\ t[j + 1] = s[j]
        BY <1>6, <1>8, <4>1
      <4> QED BY <4>2 DEF ToSet
    <3> QED BY <3>1, <3>2
  <2> QED BY <2>1, <2>2, <2>3 DEF ToSet
<1>10. ASSUME IsInjective(s), v \notin ToSet(s) PROVE IsInjective(t)
  <2>0. \A j \in DOMAIN s : s[j] # v
    BY <1>10 DEF ToSet
  <2> DEFINE old(j) == IF j <= i THEN j ELSE j - 1
  <2>1. ASSUME NEW j \in DOMAIN t, j # i + 1
        PROVE  old(j) \in DOMAIN s /\ t[j] = s[old(j)]
    BY <1>1, <1>6, <1>8, <2>1
  <2>2. t[i + 1] = v
    BY <1>1, <1>6
  <2>3. ASSUME NEW j \in DOMAIN t, NEW k \in DOMAIN t, t[j] = t[k] PROVE j = k
    <3>1. CASE j = i + 1
      BY <2>0, <2>1, <2>2, <2>3, <3>1, Zenon
    <3>2. CASE k = i + 1
      BY <2>0, <2>1, <2>2, <2>3, <3>2, Zenon
    <3>3. CASE j # i + 1 /\ k # i + 1
      <4>1. old(j) = old(k)
        <5> HIDE DEF old
        <5> QED BY <1>10, <2>1, <2>3, <3>3 DEF IsInjective
      <4> QED BY <1>1, <1>8, <3>3, <4>1
    <3> QED BY <3>1, <3>2, <3>3
  <2> QED BY <2>3 DEF IsInjective
<1>11. ASSUME NEW x, NEW y, x # v, y # v PROVE InOrder(t, x, y) <=> InOrder(s, x, y)
  <2>1. ASSUME NEW j \in DOMAIN t, NEW k \in DOMAIN t, j < k, t[j] = x, t[k] = y
        PROVE  InOrder(s, x, y)
    <3> DEFINE e == IF j <= i THEN j ELSE j - 1
               f == IF k <= i THEN k ELSE k - 1
    <3>1. j # i + 1 /\ k # i + 1
      <4>1. t[i + 1] = v
        BY <1>1, <1>6
      <4> QED BY <1>11, <2>1, <4>1
    <3>2. e \in DOMAIN s /\ f \in DOMAIN s /\ t[j] = s[e] /\ t[k] = s[f]
      BY <1>1, <1>6, <1>8, <3>1
    <3>3. e < f
      BY <1>1, <1>8, <2>1, <3>1
    <3> HIDE DEF e, f
    <3> QED BY <2>1, <3>2, <3>3 DEF InOrder
  <2>2. ASSUME NEW j \in DOMAIN s, NEW k \in DOMAIN s, j < k, s[j] = x, s[k] = y
        PROVE  InOrder(t, x, y)
    <3> DEFINE e == IF j <= i THEN j ELSE j + 1
               f == IF k <= i THEN k ELSE k + 1
    <3>1. /\ e \in 1..(m + 1) /\ f \in 1..(m + 1) /\ e < f
          /\ (e <= i /\ e = j) \/ (~(e <= i) /\ e # i + 1 /\ e - 1 = j)
          /\ (f <= i /\ f = k) \/ (~(f <= i) /\ f # i + 1 /\ f - 1 = k)
      BY <1>1, <2>2
    <3> HIDE DEF e, f
    <3>2. t[e] = s[j] /\ t[f] = s[k]
      BY <1>6, <3>1
    <3> QED BY <1>8, <2>2, <3>1, <3>2 DEF InOrder
  <2> QED BY <2>1, <2>2 DEF InOrder
<1> QED BY <1>6, <1>7, <1>9, <1>10, <1>11

\* A list without the views of a set.
LEMMA WithoutViews ==
  ASSUME NEW list \in Seq(View), NEW dropped
  PROVE  /\ Without(list, dropped) \in Seq(View)
         /\ ToSet(Without(list, dropped)) = ToSet(list) \ dropped
         /\ IsInjective(list) => IsInjective(Without(list, dropped))
         /\ \A x, y : x \notin dropped /\ y \notin dropped =>
                     (InOrder(Without(list, dropped), x, y) <=> InOrder(list, x, y))
<1> DEFINE m == Len(list)
           Turn(k, n) == IF list[n] \in dropped THEN k ELSE Append(k, list[n])
           F == [p \in (1..m) \X Seq(View) |-> Turn(p[2], p[1])]
           kept[n \in 0..m] ==
             IF n = 0 THEN <<>>
             ELSE IF list[n] \in dropped THEN kept[n - 1] ELSE Append(kept[n - 1], list[n])
<1>1. m \in Nat /\ DOMAIN list = 1..m /\ \A n \in 1..m : list[n] \in View
  BY LenProperties
<1>2. Without(list, dropped) = kept[m]
  BY DEF Without
<1>3. \E f \in [0..m -> Seq(View)] : f = [n \in 0..m |->
             IF n = 0 THEN <<>>
             ELSE IF list[n] \in dropped THEN f[n - 1] ELSE Append(f[n - 1], list[n])]
  <2> HIDE DEF kept, m
  <2>1. F \in [(1..m) \X Seq(View) -> Seq(View)]
    <3>1. ASSUME NEW n \in 1..m, NEW k \in Seq(View) PROVE Turn(k, n) \in Seq(View)
      BY <1>1, AppendProperties
    <3> QED BY <3>1
  <2>2. <<>> \in Seq(View)
    BY EmptySeq
  <2>3. PICK f : IsRecursion(f, m, Seq(View), <<>>, F)
    <3> HIDE DEF F
    <3> QED BY <1>1, <2>1, <2>2, Recursion
  <2>4. ASSUME NEW n \in 1..m PROVE f[n] = Turn(f[n - 1], n)
    <3>1. n - 1 \in 0..m
      BY <1>1
    <3>2. f[n - 1] \in Seq(View)
      BY <2>3, <3>1 DEF IsRecursion
    <3>3. F[<<n, f[n - 1]>>] = Turn(f[n - 1], n)
      BY <3>2
    <3> QED BY <2>3, <3>3 DEF IsRecursion
  <2> HIDE DEF F
  <2>5. f \in [0..m -> Seq(View)] /\ f = [n \in 0..m |-> f[n]]
    BY <2>3 DEF IsRecursion
  <2>6. ASSUME NEW n \in 0..m
        PROVE  f[n] = IF n = 0 THEN <<>>
                      ELSE IF list[n] \in dropped THEN f[n - 1] ELSE Append(f[n - 1], list[n])
    <3>1. CASE n = 0
      BY <2>3, <3>1 DEF IsRecursion
    <3>2. CASE n # 0
      <4>1. n \in 1..m
        BY <1>1, <3>2
      <4> QED BY <2>4, <3>2, <4>1
    <3> QED BY <3>1, <3>2
  <2> QED BY <2>5, <2>6, Zenon
<1>4. kept = [n \in 0..m |->
             IF n = 0 THEN <<>>
             ELSE IF list[n] \in dropped THEN kept[n - 1] ELSE Append(kept[n - 1], list[n])]
  BY <1>3, Zenon DEF kept
<1> HIDE DEF kept
<1>5. kept[0] = <<>> /\ \A n \in 1..m : kept[n] = Turn(kept[n - 1], n)
  <2> HIDE DEF m
  <2>1. 0 \in 0..m /\ \A n \in 1..m : n \in 0..m /\ n # 0
    BY <1>1
  <2> QED BY <1>4, <2>1, Zenon
<1> DEFINE First(n) == {list[j] : j \in 1..n}
           Ordered(n, x, y) == \E i, j \in 1..n : i < j /\ list[i] = x /\ list[j] = y
           Correct(k, n) ==
             /\ k \in Seq(View) /\ ToSet(k) = First(n) \ dropped
             /\ IsInjective(list) => IsInjective(k)
             /\ \A x, y : x \notin dropped /\ y \notin dropped =>
                         (InOrder(k, x, y) <=> Ordered(n, x, y))
<1>6. Correct(<<>>, 0)
  <2>1. <<>> \in Seq(View) /\ DOMAIN <<>> = {}
    BY EmptySeq
  <2>2. 1..0 = {}
    OBVIOUS
  <2> QED BY <2>1, <2>2 DEF ToSet, IsInjective, InOrder
<1>7. ASSUME NEW n \in 1..m, NEW k, Correct(k, n - 1)
      PROVE  Correct(Turn(k, n), n)
  <2>0. ASSUME NEW x, NEW y
        PROVE  Ordered(n, x, y) <=> Ordered(n - 1, x, y) \/ (list[n] = y /\ x \in First(n - 1))
    <3> HIDE DEF m
    <3>1. \A i, j \in 1..n : i < j => i \in 1..(n - 1) /\ (j \in 1..(n - 1) \/ j = n)
      BY <1>1
    <3>2. n \in 1..n /\ \A i \in 1..(n - 1) : i \in 1..n /\ i < n
      BY <1>1
    <3> QED BY <3>1, <3>2
  <2>1. First(n) = First(n - 1) \cup {list[n]}
    <3>1. 1..n = (1..(n - 1)) \cup {n}
      BY <1>1
    <3> QED BY <3>1
  <2>2. CASE list[n] \in dropped
    <3>1. First(n) \ dropped = First(n - 1) \ dropped
      BY <2>1, <2>2
    <3>2. \A x, y : y \notin dropped => (Ordered(n, x, y) <=> Ordered(n - 1, x, y))
      BY <2>0, <2>2
    <3> HIDE DEF Ordered, First
    <3> QED BY <1>7, <2>2, <3>1, <3>2
  <2>3. CASE list[n] \notin dropped
    <3> DEFINE a == Append(k, list[n])
               l == Len(k) + 1
    <3>1. /\ a \in Seq(View) /\ DOMAIN a = DOMAIN k \cup {l}
          /\ l \notin DOMAIN k /\ a[l] = list[n]
          /\ \A i \in DOMAIN k : a[i] = k[i]
      <4>1. k \in Seq(View) /\ list[n] \in View
        BY <1>1, <1>7
      <4>2. Len(k) \in Nat /\ DOMAIN k = 1..Len(k)
        BY <4>1, LenProperties
      <4>3. /\ a \in Seq(View) /\ Len(a) = Len(k) + 1 /\ a[Len(k) + 1] = list[n]
            /\ \A i \in 1..Len(k) : a[i] = k[i]
        BY <4>1, AppendProperties
      <4>4. DOMAIN a = 1..(Len(k) + 1)
        BY <4>3, LenProperties
      <4> HIDE DEF a
      <4> QED BY <4>2, <4>3, <4>4
    <3>2. Turn(k, n) = a
      BY <2>3
    <3> HIDE DEF a, l, First
    <3>3. ToSet(a) = ToSet(k) \cup {list[n]}
      <4>1. ASSUME NEW i \in DOMAIN a PROVE a[i] \in ToSet(k) \cup {list[n]}
        BY <3>1 DEF ToSet
      <4>2. \A i \in DOMAIN k : k[i] \in ToSet(a)
        <5>1. \A i \in DOMAIN k : i \in DOMAIN a /\ a[i] = k[i]
          BY <3>1
        <5> QED BY <5>1 DEF ToSet
      <4>3. list[n] \in ToSet(a)
        <5>1. l \in DOMAIN a /\ a[l] = list[n]
          BY <3>1
        <5> QED BY <5>1, Zenon DEF ToSet
      <4> QED BY <4>1, <4>2, <4>3 DEF ToSet
    <3>4. ToSet(a) = First(n) \ dropped
      BY <1>7, <2>1, <2>3, <3>3
    <3>5. ASSUME IsInjective(list) PROVE IsInjective(a)
      <4>1. list[n] \notin ToSet(k)
        <5>1. \A j \in 1..(n - 1) : j \in 1..m /\ j # n
          BY <1>1
        <5>2. list[n] \notin First(n - 1)
          BY <1>1, <3>5, <5>1 DEF First, IsInjective
        <5> QED BY <1>7, <5>2
      <4>2. \A i \in DOMAIN k : k[i] # list[n]
        BY <4>1 DEF ToSet
      <4>3. IsInjective(k)
        BY <1>7, <3>5
      <4>4. ASSUME NEW i \in DOMAIN a, NEW j \in DOMAIN a, a[i] = a[j] PROVE i = j
        <5>1. (i = l \/ i \in DOMAIN k) /\ (j = l \/ j \in DOMAIN k)
          BY <3>1
        <5> QED BY <3>1, <4>2, <4>3, <4>4, <5>1 DEF IsInjective
      <4> QED BY <4>4 DEF IsInjective
    <3>6. ASSUME NEW x, NEW y, x \notin dropped, y \notin dropped
          PROVE  InOrder(a, x, y) <=> Ordered(n, x, y)
      <4>1. InOrder(a, x, y) <=> InOrder(k, x, y) \/ (list[n] = y /\ x \in ToSet(k))
        <5>1. \A i, j \in DOMAIN a :
                i < j => i \in DOMAIN k /\ (j \in DOMAIN k \/ j = l)
          BY <1>7, <3>1, LenProperties DEF l
        <5>2. \A i \in DOMAIN k : i \in DOMAIN a /\ i < l
          BY <1>7, <3>1, LenProperties DEF l
        <5> QED BY <3>1, <5>1, <5>2 DEF InOrder, ToSet
      <4>2. x \in ToSet(k) <=> x \in First(n - 1)
        BY <1>7, <3>6
      <4>3. InOrder(k, x, y) <=> Ordered(n - 1, x, y)
        BY <1>7, <3>6
      <4> HIDE DEF Ordered
      <4> QED BY <2>0, <4>1, <4>2, <4>3
    <3> HIDE DEF Ordered
    <3> QED BY <3>1, <3>2, <3>4, <3>5, <3>6
  <2> QED BY <2>2, <2>3
<1> HIDE DEF Correct, Turn
<1>8. \A n \in 0..m : Correct(kept[n], n)
  <2> DEFINE P == {n \in Nat : n <= m => Correct(kept[n], n)}
  <2> HIDE DEF m
  <2>1. 0 \in P
    BY <1>5, <1>6
  <2>2. ASSUME NEW n \in Nat, n \in P PROVE n + 1 \in P
    <3> SUFFICES ASSUME n + 1 <= m PROVE Correct(kept[n + 1], n + 1)
      OBVIOUS
    <3>1. n + 1 \in 1..m /\ (n + 1) - 1 = n /\ n <= m
      BY <1>1
    <3>2. Correct(kept[n], n)
      BY <2>2, <3>1
    <3>3. kept[n + 1] = Turn(kept[n], n + 1)
      BY <1>5, <3>1
    <3> QED BY <1>7, <3>1, <3>2, <3>3
  <2> HIDE DEF P
  <2>3. Nat \subseteq P
    BY <2>1, <2>2, Induction
  <2> QED BY <1>1, <2>3 DEF P
<1>9. Correct(kept[m], m)
  <2> HIDE DEF m
  <2> QED BY <1>1, <1>8
<1>10. First(m) = ToSet(list) /\ \A x, y : Ordered(m, x, y) <=> InOrder(list, x, y)
  BY <1>1 DEF ToSet, InOrder
<1> HIDE DEF First, Ordered
<1> QED BY <1>2, <1>9, <1>10, Zenon DEF Correct

-----------------------------------------------------------------------------
(* What is below a layer.                                                  *)

\* Subtree is what it says: the smallest set that holds v and, with every
\* layer, the layers in its list.
LEMMA SubtreeIsLeast ==
  ASSUME NEW kids \in [Layer -> Seq(View)], NEW v \in Layer
  PROVE  /\ Subtree(kids, v) \in SUBSET Layer
         /\ Holds(kids, v, Subtree(kids, v))
         /\ \A T \in SUBSET Layer : Holds(kids, v, T) => Subtree(kids, v) \subseteq T
<1> DEFINE least == {l \in Layer : \A T \in SUBSET Layer : Holds(kids, v, T) => l \in T}
<1>1. \A p \in Layer : ToSet(kids[p]) \subseteq Layer
  <2> SUFFICES ASSUME NEW p \in Layer PROVE ToSet(kids[p]) \subseteq Layer
    OBVIOUS
  <2>1. \A i \in DOMAIN kids[p] : kids[p][i] \in View
    BY LenProperties, ElementOfSeq
  <2> QED BY <2>1 DEF ToSet, Layer
<1>2. Holds(kids, v, least)
  <2>1. v \in least
    BY DEF Holds
  <2>2. ASSUME NEW p \in least, NEW c \in ToSet(kids[p]) PROVE c \in least
    <3>1. c \in Layer
      BY <1>1, <2>2
    <3>2. ASSUME NEW T \in SUBSET Layer, Holds(kids, v, T) PROVE c \in T
      BY <2>2, <3>2 DEF Holds
    <3> QED BY <3>1, <3>2
  <2> QED BY <2>1, <2>2 DEF Holds
<1>3. least \in SUBSET Layer /\ \A T \in SUBSET Layer : Holds(kids, v, T) => least \subseteq T
  OBVIOUS
<1> HIDE DEF least
<1>4. \E S \in SUBSET Layer :
        Holds(kids, v, S) /\ \A T \in SUBSET Layer : Holds(kids, v, T) => S \subseteq T
  BY <1>2, <1>3
<1> QED BY <1>4, Zenon DEF Subtree

\* A layer that is not where the walk starts is reached from a list it is in.
LEMMA ReachedFromList ==
  ASSUME NEW kids \in [Layer -> Seq(View)], NEW v \in Layer,
         NEW c \in Subtree(kids, v), c # v
  PROVE  \E p \in Subtree(kids, v) : c \in ToSet(kids[p])
<1> DEFINE rest == Subtree(kids, v) \ {c}
<1>1. Holds(kids, v, Subtree(kids, v)) /\ Subtree(kids, v) \in SUBSET Layer
  BY SubtreeIsLeast
<1>2. rest \in SUBSET Layer /\ ~(Subtree(kids, v) \subseteq rest)
  BY <1>1
<1>3. ~Holds(kids, v, rest)
  BY <1>2, SubtreeIsLeast
<1> QED BY <1>1, <1>3 DEF Holds

\* The layers of a list are views.
LEMMA ListsOfViews ==
  ASSUME NEW kids \in [Layer -> Seq(View)], NEW p \in Layer
  PROVE  kids[p] \in Seq(View) /\ ToSet(kids[p]) \subseteq View
<1>1. \A i \in DOMAIN kids[p] : kids[p][i] \in View
  BY LenProperties, ElementOfSeq
<1> QED BY <1>1 DEF ToSet

\* The root is below no view.
LEMMA RootBelowNone ==
  ASSUME NEW kids \in [Layer -> Seq(View)], NEW v \in View
  PROVE  Root \notin Subtree(kids, v)
<1>1. View \in SUBSET Layer /\ v \in Layer /\ Root \notin View
  BY LayerTreeAssumption DEF Layer
<1>2. Holds(kids, v, View)
  BY <1>1, ListsOfViews DEF Holds
<1> QED BY <1>1, <1>2, SubtreeIsLeast

-----------------------------------------------------------------------------
(* Where the mounted views are.                                            *)

\* A mounted view is in a list, and that list is one of a mounted view.
LEMMA MountedInList ==
  ASSUME TreeTypeOK, MountedOnce, NEW v \in Mounted, v # Root
  PROVE  /\ v \in View /\ Placed(v)
         /\ \A p \in Layer : v \in ToSet(mounted[p]) => p \in Mounted
<1>1. mounted \in [Layer -> Seq(View)] /\ Root \in Layer
  BY DEF TreeTypeOK, Layer
<1>2. Mounted \in SUBSET Layer
  BY <1>1, SubtreeIsLeast DEF Mounted, Below
<1>3. PICK p \in Mounted : v \in ToSet(mounted[p])
  BY <1>1, ReachedFromList DEF Mounted, Below
<1>4. v \in View /\ Placed(v)
  BY <1>1, <1>2, <1>3, ListsOfViews DEF Placed
<1>5. ASSUME NEW q \in Layer, v \in ToSet(mounted[q]) PROVE q \in Mounted
  BY <1>2, <1>3, <1>4, <1>5 DEF MountedOnce
<1> QED BY <1>4, <1>5

\* Mounted is the smallest set with the root and with what is below its members.
LEMMA MountedIsLeast ==
  ASSUME TreeTypeOK
  PROVE  /\ Mounted \in SUBSET Layer /\ Root \in Mounted
         /\ \A p \in Mounted : ToSet(mounted[p]) \subseteq Mounted
         /\ \A v \in View : /\ Below(v) \in SUBSET Layer
                            /\ v \in Below(v) /\ Root \notin Below(v)
                            /\ \A p \in Below(v) : ToSet(mounted[p]) \subseteq Below(v)
<1>1. mounted \in [Layer -> Seq(View)] /\ Root \in Layer /\ View \subseteq Layer
  BY DEF TreeTypeOK, Layer
<1>2. ASSUME NEW v \in Layer
      PROVE  /\ Below(v) \in SUBSET Layer /\ v \in Below(v)
             /\ \A p \in Below(v) : ToSet(mounted[p]) \subseteq Below(v)
  BY <1>1, SubtreeIsLeast DEF Below, Holds
<1>3. ASSUME NEW v \in View PROVE Root \notin Below(v)
  BY <1>1, RootBelowNone DEF Below
<1> QED BY <1>1, <1>2, <1>3 DEF Mounted

-----------------------------------------------------------------------------
(* The mutations of a transaction keep the invariant.                      *)

\* The mark of every view stays what it is.
MarksKept == \A c \in View : "remove" \in mask'[c] <=> "remove" \in mask[c]

\* insertChild of a view that no list has, with its place in the lists of React.
LEMMA InsertLinks ==
  ASSUME TreeInv, NEW v \in View, NEW p \in Mounted, NEW i \in 0..Len(mounted[p]),
         ~Placed(v), PlaceFor(v, p, i), InsertChild(p, v, i)
  PROVE  /\ p \in Layer /\ p # v /\ (p = Root \/ Placed(p))
         /\ mounted' \in [Layer -> Seq(View)] /\ children' \in [Layer -> Seq(View)]
         /\ \A q \in Layer : ToSet(mounted'[q]) = ToSet(mounted[q]) \cup
                                                   (IF q = p THEN {v} ELSE {})
         /\ parent' = [parent EXCEPT ![v] = p]
         /\ \A w \in Layer : children'[w] = <<>> => children[w] = <<>> \/ w = parent[v]
         /\ MountedOnce' /\ LinksConsistent'
<1>0. /\ TreeTypeOK /\ LinksConsistent /\ MountedOnce
      /\ mounted \in [Layer -> Seq(View)] /\ children \in [Layer -> Seq(View)]
      /\ parent \in [Layer -> Layer \cup {NoLayer}]
  BY DEF TreeInv, TreeTypeOK
<1>1. p \in Layer /\ v \in Layer /\ NoLayer \notin Layer
  BY <1>0, MountedIsLeast, LayerTreeAssumption DEF Layer
<1>2. (p = Root \/ Placed(p)) /\ p # v
  <2>1. v # Root
    BY LayerTreeAssumption
  <2> QED BY <1>0, <2>1, MountedInList
<1>3. /\ mounted' \in [Layer -> Seq(View)]
      /\ \A q \in Layer : ToSet(mounted'[q]) = ToSet(mounted[q]) \cup
                                                (IF q = p THEN {v} ELSE {})
      /\ \A q \in Layer : IsInjective(mounted'[q])
  <2> DEFINE list == InsertAt(mounted[p], i + 1, v)
  <2>1. mounted[p] \in Seq(View) /\ IsInjective(mounted[p]) /\ v \notin ToSet(mounted[p])
    BY <1>0, <1>1, ListsOfViews DEF MountedOnce, Placed
  <2>2. list \in Seq(View) /\ ToSet(list) = ToSet(mounted[p]) \cup {v} /\ IsInjective(list)
    BY <2>1, Inserted
  <2>3. mounted' = [mounted EXCEPT ![p] = list]
    BY DEF PlaceFor
  <2> HIDE DEF list
  <2>4. \A q \in Layer : mounted'[q] = IF q = p THEN list ELSE mounted[q]
    BY <1>0, <1>1, <2>3
  <2>5. mounted' \in [Layer -> Seq(View)]
    BY <1>0, <1>1, <2>2, <2>3
  <2>6. ASSUME NEW q \in Layer
        PROVE  /\ ToSet(mounted'[q]) = ToSet(mounted[q]) \cup (IF q = p THEN {v} ELSE {})
               /\ IsInjective(mounted'[q])
    <3>1. CASE q = p
      BY <2>2, <2>4, <3>1
    <3>2. CASE q # p
      <4>1. mounted'[q] = mounted[q] /\ IsInjective(mounted[q])
        BY <1>0, <2>4, <3>2 DEF MountedOnce
      <4> QED BY <3>2, <4>1
    <3> QED BY <3>1, <3>2
  <2> QED BY <2>5, <2>6
<1>4. MountedOnce'
  <2>1. ASSUME NEW q \in Layer, NEW r \in Layer, NEW c \in View,
               c \in ToSet(mounted'[q]), c \in ToSet(mounted'[r])
        PROVE  q = r
    <3>1. CASE c = v
      BY <1>3, <2>1, <3>1 DEF Placed
    <3>2. CASE c # v
      <4>1. c \in ToSet(mounted[q]) /\ c \in ToSet(mounted[r])
        BY <1>3, <2>1, <3>2
      <4> QED BY <1>0, <4>1 DEF MountedOnce
    <3> QED BY <3>1, <3>2
  <2> QED BY <1>3, <2>1 DEF MountedOnce
<1> DEFINE rest == IF parent[v] = NoLayer THEN children
                   ELSE [children EXCEPT ![parent[v]] = Without(@, {v})]
           at == IF i < Len(rest[p]) THEN i ELSE Len(rest[p])
           list == InsertAt(rest[p], at + 1, v)
<1>5. /\ rest \in [Layer -> Seq(View)]
      /\ \A l \in Layer : /\ IsInjective(rest[l]) /\ ToSet(rest[l]) = ToSet(children[l]) \ {v}
                          /\ rest[l] = <<>> => children[l] = <<>> \/ l = parent[v]
  <2>0. \A l \in Layer : /\ children[l] \in Seq(View) /\ IsInjective(children[l])
                         /\ v \in ToSet(children[l]) <=> parent[v] = l
    BY <1>0, <1>1, ListsOfViews DEF LinksConsistent, Children
  <2>1. CASE parent[v] = NoLayer
    BY <1>0, <1>1, <2>0, <2>1
  <2>2. CASE parent[v] # NoLayer
    <3> DEFINE q == parent[v]
               short == Without(children[q], {v})
    <3>1. q \in Layer
      BY <1>0, <1>1, <2>2
    <3>2. /\ short \in Seq(View) /\ ToSet(short) = ToSet(children[q]) \ {v}
          /\ IsInjective(short)
      <4> HIDE DEF q
      <4> QED BY <2>0, <3>1, WithoutViews
    <3>3. rest = [children EXCEPT ![q] = short]
      BY <2>2
    <3> HIDE DEF rest, short
    <3>4. rest \in [Layer -> Seq(View)]
      BY <1>0, <3>1, <3>2, <3>3
    <3>5. \A l \in Layer : rest[l] = IF l = q THEN short ELSE children[l]
      BY <1>0, <3>1, <3>3
    <3>6. ASSUME NEW l \in Layer
          PROVE  /\ IsInjective(rest[l]) /\ ToSet(rest[l]) = ToSet(children[l]) \ {v}
                 /\ rest[l] = <<>> => children[l] = <<>> \/ l = parent[v]
      <4>1. CASE l = q
        BY <3>2, <3>5, <4>1
      <4>2. CASE l # q
        <5>1. rest[l] = children[l] /\ v \notin ToSet(children[l]) /\ IsInjective(children[l])
          BY <2>0, <3>5, <4>2
        <5> QED BY <5>1
      <4> QED BY <4>1, <4>2
    <3> QED BY <3>4, <3>6
  <2> QED BY <2>1, <2>2
<1>6. children' = [rest EXCEPT ![p] = list] /\ parent' = [parent EXCEPT ![v] = p]
  BY DEF InsertChild
<1> HIDE DEF rest
<1>7. at \in 0..Len(rest[p]) /\ rest[p] \in Seq(View)
  <2>1. rest[p] \in Seq(View)
    BY <1>1, <1>5
  <2>2. Len(rest[p]) \in Nat /\ i \in Nat
    BY <1>0, <1>1, <2>1, LenProperties
  <2> QED BY <2>1, <2>2
<1> HIDE DEF at
<1>8. list \in Seq(View) /\ ToSet(list) = ToSet(rest[p]) \cup {v} /\ IsInjective(list)
  <2>1. v \notin ToSet(rest[p]) /\ IsInjective(rest[p])
    BY <1>1, <1>5
  <2> QED BY <1>7, <2>1, Inserted
<1> HIDE DEF list
<1>9. /\ children' \in [Layer -> Seq(View)]
      /\ \A l \in Layer : children'[l] = IF l = p THEN list ELSE rest[l]
  BY <1>1, <1>5, <1>6, <1>8
<1>10. \A w \in Layer : children'[w] = <<>> => children[w] = <<>> \/ w = parent[v]
  <2> SUFFICES ASSUME NEW w \in Layer, children'[w] = <<>>
               PROVE  children[w] = <<>> \/ w = parent[v]
    OBVIOUS
  <2>1. CASE w = p
    <3>1. list = <<>>
      BY <1>9, <2>1
    <3>2. ToSet(<<>>) = {}
      BY DEF ToSet
    <3> QED BY <1>8, <3>1, <3>2
  <2>2. CASE w # p
    BY <1>5, <1>9, <2>2
  <2> QED BY <2>1, <2>2
<1>11. LinksConsistent'
  <2>1. ASSUME NEW l \in Layer PROVE IsInjective(children'[l])
    BY <1>5, <1>8, <1>9
  <2>2. ASSUME NEW l \in Layer, NEW c \in Layer
        PROVE  c \in ToSet(children'[l]) <=> parent'[c] = l
    <3>1. c \in ToSet(children[l]) <=> parent[c] = l
      BY <1>0 DEF LinksConsistent, Children
    <3>2. parent'[c] = IF c = v THEN p ELSE parent[c]
      BY <1>0, <1>1, <1>6
    <3>3. CASE l = p
      <4>1. ToSet(children'[l]) = (ToSet(children[l]) \ {v}) \cup {v}
        BY <1>1, <1>5, <1>8, <1>9, <3>3
      <4> QED BY <3>1, <3>2, <3>3, <4>1
    <3>4. CASE l # p
      <4>1. ToSet(children'[l]) = ToSet(children[l]) \ {v}
        BY <1>5, <1>9, <3>4
      <4> QED BY <3>1, <3>2, <3>4, <4>1
    <3> QED BY <3>3, <3>4
  <2> QED BY <2>1, <2>2 DEF LinksConsistent, Children
<1> QED BY <1>1, <1>2, <1>3, <1>4, <1>6, <1>9, <1>10, <1>11

\* A view gets a place: it is marked if and only if the transaction moves it.
LEMMA InsertKeeps ==
  ASSUME TreeInv, NEW v \in View, NEW p \in Mounted, NEW i \in 0..Len(mounted[p]),
         ~Placed(v), PlaceFor(v, p, i), InsertChild(p, v, i),
         parent[v] = NoLayer \/ parent[v] \in Known,
         mask' \in [Layer -> SUBSET {"paint", "layout", "remove"}], MarksKept,
         moved' = moved \/ moved' = moved \cup {v}, v \in moved' <=> "remove" \in mask[v],
         removed' = removed, phase = "mutate", phase' = "mutate"
  PROVE  TreeInv'
<1>0. /\ TreeTypeOK /\ MountedLinked /\ LeftMarked /\ MarksOfMoved /\ NewUnmarked /\ RemovedKnown
      /\ parent \in [Layer -> Layer \cup {NoLayer}]
  BY DEF TreeInv, TreeTypeOK
<1>1. /\ p \in Layer /\ p # v /\ (p = Root \/ Placed(p))
      /\ mounted' \in [Layer -> Seq(View)] /\ children' \in [Layer -> Seq(View)]
      /\ \A q \in Layer : ToSet(mounted'[q]) = ToSet(mounted[q]) \cup
                                                (IF q = p THEN {v} ELSE {})
      /\ parent' = [parent EXCEPT ![v] = p]
      /\ \A w \in Layer : children'[w] = <<>> => children[w] = <<>> \/ w = parent[v]
      /\ MountedOnce' /\ LinksConsistent'
  BY InsertLinks
<1>2. v \in Layer /\ View \subseteq Layer /\ NoLayer \notin Layer /\ Root \notin View
  BY LayerTreeAssumption DEF Layer
<1>3. \A c \in Layer : parent'[c] = IF c = v THEN p ELSE parent[c]
  BY <1>0, <1>1, <1>2
<1>4. /\ \A c \in View : Placed(c) => Placed(c)'
      /\ \A c \in View : Placed(c)' => Placed(c) \/ c = v
      /\ Placed(v)'
  BY <1>1, <1>2 DEF Placed
<1>5. Known \subseteq Known' /\ p \in Known'
  <2>1. Known' = {q \in Layer : q = Root \/ Placed(q)' \/ \E r \in Layer : <<q, r>> \in removed}
    BY DEF Known
  <2>2. \A q \in Layer : Placed(q) => Placed(q)'
    BY <1>1 DEF Placed
  <2> QED BY <1>1, <2>1, <2>2 DEF Known
<1>6. TreeTypeOK'
  <2>1. parent' \in [Layer -> Layer \cup {NoLayer}]
    BY <1>0, <1>1, <1>2
  <2> QED BY <1>0, <1>1, <2>1 DEF TreeTypeOK
<1>7. MountedLinked'
  <2> SUFFICES ASSUME NEW q \in Layer, NEW c \in View, c \in ToSet(mounted'[q])
               PROVE  parent'[c] = q \/ (parent'[c] = NoLayer /\ c \in moved')
    BY DEF MountedLinked
  <2>1. CASE c = v
    <3>1. q = p
      BY <1>1, <2>1 DEF Placed
    <3> QED BY <1>2, <1>3, <2>1, <3>1
  <2>2. CASE c # v
    <3>1. c \in ToSet(mounted[q]) /\ parent'[c] = parent[c]
      BY <1>1, <1>2, <1>3, <2>2
    <3> QED BY <1>0, <3>1 DEF MountedLinked
  <2> QED BY <2>1, <2>2
<1>8. LeftMarked'
  <2> SUFFICES ASSUME NEW q \in Layer, NEW c \in View, parent'[c] = q, c \notin ToSet(mounted'[q])
               PROVE  "remove" \in mask'[c]
    BY DEF LeftMarked
  <2>1. c # v
    BY <1>1, <1>2, <1>3
  <2>2. parent[c] = q /\ c \notin ToSet(mounted[q])
    BY <1>1, <1>2, <1>3, <2>1
  <2> QED BY <1>0, <2>2 DEF LeftMarked, MarksKept
<1>9. MarksOfMoved'
  <2>1. ASSUME NEW c \in moved' PROVE "remove" \in mask'[c]
    <3>1. c \in View
      BY <1>6, <2>1 DEF TreeTypeOK
    <3> QED BY <1>0, <2>1, <3>1 DEF MarksOfMoved, MarksKept
  <2>2. ASSUME NEW r \in removed' PROVE "remove" \in mask'[r[1]]
    <3>1. r[1] \in View
      BY <1>6, <2>2 DEF TreeTypeOK
    <3> QED BY <1>0, <2>2, <3>1 DEF MarksOfMoved, MarksKept
  <2>3. ASSUME NEW c \in View, Placed(c)', "remove" \in mask'[c] PROVE c \in moved'
    BY <1>0, <1>4, <2>3 DEF MarksOfMoved, MarksKept
  <2> QED BY <2>1, <2>2, <2>3 DEF MarksOfMoved
<1>10. NewUnmarked'
  <2> SUFFICES ASSUME NEW w \in View, ~Placed(w)', \A q \in Layer : <<w, q>> \notin removed,
                      parent'[w] = NoLayer, children'[w] = <<>>
               PROVE  w \notin moved' /\ "remove" \notin mask'[w]
    BY DEF NewUnmarked
  <2>1. w # v /\ ~Placed(w) /\ parent[w] = NoLayer /\ w \in Layer
    BY <1>2, <1>3, <1>4
  <2>2. w # parent[v]
    BY <1>2, <2>1 DEF Known
  <2>3. children[w] = <<>>
    BY <1>1, <2>1, <2>2
  <2> QED BY <1>0, <2>1, <2>3 DEF NewUnmarked, MarksKept
<1>11. RemovedKnown'
  <2> SUFFICES ASSUME NEW r \in removed PROVE parent'[r[1]] = NoLayer \/ parent'[r[1]] \in Known'
    BY DEF RemovedKnown
  <2>1. r[1] \in Layer
    BY <1>0, <1>2 DEF TreeTypeOK
  <2> QED BY <1>0, <1>3, <1>5, <2>1 DEF RemovedKnown
<1>12. UnmountedEmpty' /\ Shown'
  BY DEF UnmountedEmpty, Shown
<1> QED BY <1>1, <1>6, <1>7, <1>8, <1>9, <1>10, <1>11, <1>12 DEF TreeInv

LEMMA CreateKeeps ==
  ASSUME TreeInv, NEW v \in Unplaced, NEW p \in Mounted, NEW i \in 0..Len(mounted[p]),
         NEW f, NEW k, CreateView(v, p, i, f, k)
  PROVE  TreeInv'
<1>1. /\ v \in View /\ ~Placed(v) /\ PlaceFor(v, p, i) /\ InsertChild(p, v, i)
      /\ phase = "mutate"
  BY DEF CreateView, Unplaced, Placed, PlaceFor, Mutation
<1>2. TreeTypeOK /\ NewUnmarked
  BY DEF TreeInv
<1>3. /\ parent[v] = NoLayer
      /\ mask' = mask /\ moved' = moved /\ removed' = removed /\ phase' = phase
  BY DEF CreateView
<1>4. v \notin moved /\ "remove" \notin mask[v]
  BY <1>1, <1>2 DEF NewUnmarked, CreateView
<1>5. mask \in [Layer -> SUBSET {"paint", "layout", "remove"}]
  BY <1>2 DEF TreeTypeOK
<1>6. MarksKept
  BY <1>3 DEF MarksKept
<1> QED BY <1>1, <1>3, <1>4, <1>5, <1>6, InsertKeeps

LEMMA ReinsertKeeps ==
  ASSUME TreeInv, NEW v \in Unplaced, NEW p \in Mounted, NEW i \in 0..Len(mounted[p]),
         NEW f, ReinsertView(v, p, i, f)
  PROVE  TreeInv'
<1>1. /\ v \in View /\ ~Placed(v) /\ PlaceFor(v, p, i) /\ InsertChild(p, v, i)
      /\ phase = "mutate"
  BY DEF ReinsertView, Unplaced, Placed, PlaceFor, Mutation
<1>2. TreeTypeOK /\ MarksOfMoved /\ RemovedKnown
  BY DEF TreeInv
<1>3. /\ mask' = [mask EXCEPT ![v] = @ \cup InvalidateAll]
      /\ moved' = moved \cup {v} /\ removed' = removed /\ phase' = phase
  BY DEF ReinsertView
<1>4. PICK q \in Layer : <<v, q>> \in removed
  BY DEF ReinsertView
<1>5. "remove" \in mask[v] /\ (parent[v] = NoLayer \/ parent[v] \in Known)
  BY <1>2, <1>4 DEF MarksOfMoved, RemovedKnown
<1>6. mask' \in [Layer -> SUBSET {"paint", "layout", "remove"}] /\ MarksKept
  <2>1. mask \in [Layer -> SUBSET {"paint", "layout", "remove"}] /\ View \subseteq Layer
    BY <1>2 DEF TreeTypeOK, Layer
  <2> QED BY <1>1, <1>3, <2>1 DEF InvalidateAll, MarksKept
<1> QED BY <1>1, <1>3, <1>5, <1>6, InsertKeeps

LEMMA RemoveKeeps ==
  ASSUME TreeInv, NEW v \in Mounted \ {Root}, RemoveView(v)
  PROVE  TreeInv'
<1> DEFINE p == MountedParent(v)
           list == Without(mounted[p], {v})
<1>0. /\ TreeTypeOK /\ LinksConsistent /\ MountedOnce /\ MountedLinked /\ LeftMarked
      /\ MarksOfMoved /\ NewUnmarked /\ RemovedKnown
      /\ mounted \in [Layer -> Seq(View)]
      /\ mask \in [Layer -> SUBSET {"paint", "layout", "remove"}]
      /\ View \subseteq Layer /\ NoLayer \notin Layer
  BY LayerTreeAssumption DEF TreeInv, TreeTypeOK, Layer
<1>1. v \in View /\ Placed(v) /\ \A q \in Layer : v \in ToSet(mounted[q]) => q \in Mounted
  BY <1>0, MountedInList
<1>2. p \in Layer /\ v \in ToSet(mounted[p])
  BY <1>1 DEF Placed, MountedParent
<1>3. p = Root \/ Placed(p)
  BY <1>0, <1>1, <1>2, MountedInList
<1>4. /\ mounted' = [mounted EXCEPT ![p] = list] /\ removed' = removed \cup {<<v, p>>}
      /\ mask' = [mask EXCEPT ![v] = @ \cup {"remove"}]
      /\ phase = "mutate" /\ UNCHANGED <<phase, moved, children, parent>>
  BY DEF RemoveView, Mutation, treeVars
<1> HIDE DEF p
<1>5. /\ list \in Seq(View) /\ ToSet(list) = ToSet(mounted[p]) \ {v} /\ IsInjective(list)
  BY <1>0, <1>2, ListsOfViews, WithoutViews DEF MountedOnce
<1> HIDE DEF list
<1>6. /\ mounted' \in [Layer -> Seq(View)]
      /\ \A q \in Layer : mounted'[q] = IF q = p THEN list ELSE mounted[q]
  BY <1>0, <1>2, <1>4, <1>5
<1>7. \A q \in Layer : IsInjective(mounted'[q]) /\ ToSet(mounted'[q]) = ToSet(mounted[q]) \ {v}
  <2> SUFFICES ASSUME NEW q \in Layer
               PROVE  /\ IsInjective(mounted'[q])
                      /\ ToSet(mounted'[q]) = ToSet(mounted[q]) \ {v}
    OBVIOUS
  <2>1. CASE q = p
    BY <1>5, <1>6, <2>1
  <2>2. CASE q # p
    <3>1. v \notin ToSet(mounted[q])
      BY <1>0, <1>1, <1>2, <2>2 DEF MountedOnce
    <3>2. mounted'[q] = mounted[q] /\ IsInjective(mounted[q])
      BY <1>0, <1>6, <2>2 DEF MountedOnce
    <3> QED BY <3>1, <3>2
  <2> QED BY <2>1, <2>2
<1>8. /\ \A c \in View : Placed(c)' <=> Placed(c) /\ c # v
      /\ \A q \in Layer : Placed(q) => Placed(q)' \/ q = v
  BY <1>7 DEF Placed
<1>9. Known \subseteq Known' /\ p \in Known'
  <2>1. Known' = {q \in Layer : q = Root \/ Placed(q)' \/ \E r \in Layer : <<q, r>> \in removed'}
    BY DEF Known
  <2>2. <<v, p>> \in removed' /\ removed \subseteq removed'
    BY <1>4
  <2>3. Known \subseteq Known'
    BY <1>2, <1>8, <2>1, <2>2 DEF Known
  <2>4. p \in Known
    BY <1>2, <1>3 DEF Known
  <2> QED BY <2>3, <2>4
<1>10. \A c \in View : "remove" \in mask'[c] <=> "remove" \in mask[c] \/ c = v
  BY <1>0, <1>4
<1>11. TreeTypeOK'
  <2>1. mask' \in [Layer -> SUBSET {"paint", "layout", "remove"}]
    BY <1>0, <1>4
  <2> QED BY <1>0, <1>1, <1>2, <1>4, <1>6, <2>1 DEF TreeTypeOK
<1>12. LinksConsistent' /\ MountedOnce'
  <2>1. LinksConsistent'
    BY <1>0, <1>4 DEF LinksConsistent, Children
  <2>2. MountedOnce'
    BY <1>0, <1>7 DEF MountedOnce
  <2> QED BY <2>1, <2>2
<1>13. MountedLinked' /\ LeftMarked'
  <2>1. MountedLinked'
    BY <1>0, <1>4, <1>7 DEF MountedLinked
  <2>2. LeftMarked'
    BY <1>0, <1>4, <1>7, <1>10 DEF LeftMarked
  <2> QED BY <2>1, <2>2
<1>14. MarksOfMoved'
  <2>1. ASSUME NEW c \in moved' PROVE "remove" \in mask'[c]
    <3>1. c \in View
      BY <1>11, <2>1 DEF TreeTypeOK
    <3> QED BY <1>0, <1>4, <1>10, <2>1, <3>1 DEF MarksOfMoved
  <2>2. ASSUME NEW r \in removed' PROVE "remove" \in mask'[r[1]]
    <3>1. r[1] \in View /\ (r \in removed \/ r[1] = v)
      BY <1>1, <1>4, <1>11, <2>2 DEF TreeTypeOK
    <3> QED BY <1>0, <1>10, <3>1 DEF MarksOfMoved
  <2>3. ASSUME NEW c \in View, Placed(c)', "remove" \in mask'[c] PROVE c \in moved'
    BY <1>0, <1>4, <1>8, <1>10, <2>3 DEF MarksOfMoved
  <2> QED BY <2>1, <2>2, <2>3 DEF MarksOfMoved
<1>15. NewUnmarked'
  <2> SUFFICES ASSUME NEW w \in View, ~Placed(w)', \A q \in Layer : <<w, q>> \notin removed',
                      parent'[w] = NoLayer, children'[w] = <<>>
               PROVE  w \notin moved' /\ "remove" \notin mask'[w]
    BY DEF NewUnmarked
  <2>1. w # v
    BY <1>2, <1>4
  <2>2. \A q \in Layer : <<w, q>> \notin removed
    BY <1>4
  <2> QED BY <1>0, <1>4, <1>8, <1>10, <2>1, <2>2 DEF NewUnmarked
<1>16. RemovedKnown'
  <2> SUFFICES ASSUME NEW r \in removed' PROVE parent[r[1]] = NoLayer \/ parent[r[1]] \in Known'
    BY <1>4 DEF RemovedKnown
  <2>1. CASE r \in removed
    BY <1>0, <1>9, <2>1 DEF RemovedKnown
  <2>2. CASE r = <<v, p>>
    <3>1. parent[v] = p \/ parent[v] = NoLayer
      BY <1>0, <1>1, <1>2 DEF MountedLinked
    <3> QED BY <1>9, <2>2, <3>1
  <2> QED BY <1>4, <2>1, <2>2
<1>17. UnmountedEmpty' /\ Shown'
  BY <1>4 DEF UnmountedEmpty, Shown
<1> QED BY <1>11, <1>12, <1>13, <1>14, <1>15, <1>16, <1>17 DEF TreeInv

\* Steps that touch no list and no mark: the updates and the scrolling, and the
\* begin of a transaction.
LEMMA QuietKeeps ==
  ASSUME TreeInv, UNCHANGED <<mounted, children, parent, moved, removed>>,
         mask' \in [Layer -> SUBSET {"paint", "layout", "remove"}], MarksKept,
         phase # "paint", phase' = "mutate"
  PROVE  TreeInv'
<1>0. /\ TreeTypeOK /\ LinksConsistent /\ MountedOnce /\ MountedLinked /\ LeftMarked
      /\ MarksOfMoved /\ NewUnmarked /\ RemovedKnown
  BY DEF TreeInv
<1>1. TreeTypeOK' /\ LinksConsistent' /\ MountedOnce' /\ MountedLinked'
  <2>1. TreeTypeOK'
    BY <1>0 DEF TreeTypeOK
  <2>2. LinksConsistent'
    BY <1>0 DEF LinksConsistent, Children
  <2>3. MountedOnce' /\ MountedLinked'
    BY <1>0 DEF MountedOnce, MountedLinked
  <2> QED BY <2>1, <2>2, <2>3
<1>2. LeftMarked'
  BY <1>0 DEF LeftMarked, MarksKept
<1>3. \A c \in Layer : Placed(c)' <=> Placed(c)
  BY DEF Placed
<1>4. MarksOfMoved'
  <2>1. moved \subseteq View /\ \A r \in removed : r[1] \in View
    BY <1>0 DEF TreeTypeOK
  <2>2. \A c \in View : c \in Layer
    BY DEF Layer
  <2> QED BY <1>0, <1>3, <2>1, <2>2 DEF MarksOfMoved, MarksKept
<1>5. NewUnmarked'
  <2>1. \A c \in View : c \in Layer
    BY DEF Layer
  <2> QED BY <1>0, <1>3, <2>1 DEF NewUnmarked, MarksKept
<1>6. RemovedKnown'
  <2>1. Known' = {q \in Layer : q = Root \/ Placed(q)' \/ \E r \in Layer : <<q, r>> \in removed'}
    BY DEF Known
  <2>2. Known' = Known
    BY <1>3, <2>1 DEF Known
  <2> QED BY <1>0, <2>2 DEF RemovedKnown
<1>7. UnmountedEmpty' /\ Shown'
  BY DEF UnmountedEmpty, Shown
<1> QED BY <1>1, <1>2, <1>4, <1>5, <1>6, <1>7 DEF TreeInv

LEMMA UpdateKeeps ==
  ASSUME TreeInv, NEW v \in View, NEW f, NEW pic, UpdateView(v, f, pic)
  PROVE  TreeInv'
<1>1. mask \in [Layer -> SUBSET {"paint", "layout", "remove"}] /\ View \subseteq Layer
  BY DEF TreeInv, TreeTypeOK, Layer
<1>2. /\ UNCHANGED <<mounted, children, parent, moved, removed>>
      /\ mask' = [mask EXCEPT ![v] = @ \cup InvalidateAll]
      /\ phase = "mutate" /\ phase' = phase
  BY DEF UpdateView, Mutation, treeVars
<1>3. mask' \in [Layer -> SUBSET {"paint", "layout", "remove"}] /\ MarksKept
  BY <1>1, <1>2 DEF InvalidateAll, MarksKept
<1> QED BY <1>2, <1>3, QuietKeeps

LEMMA ScrollKeeps ==
  ASSUME TreeInv, NEW v \in View, NEW x, HandleScroll(v, x)
  PROVE  TreeInv'
<1>1. mask \in [Layer -> SUBSET {"paint", "layout", "remove"}] /\ View \subseteq Layer
  BY DEF TreeInv, TreeTypeOK, Layer
<1>2. /\ UNCHANGED <<mounted, children, parent, moved, removed>>
      /\ mask' = [mask EXCEPT ![v] = @ \cup {"paint"}]
      /\ phase = "mutate" /\ phase' = phase
  BY DEF HandleScroll, Mutation, treeVars
<1>3. mask' \in [Layer -> SUBSET {"paint", "layout", "remove"}] /\ MarksKept
  BY <1>1, <1>2 DEF MarksKept
<1> QED BY <1>2, <1>3, QuietKeeps

LEMMA BeginKeeps == ASSUME TreeInv, BeginTransaction PROVE TreeInv'
<1>1. /\ UNCHANGED <<mounted, children, parent, moved, removed, mask>>
      /\ phase # "paint" /\ phase' = "mutate"
  BY DEF BeginTransaction, treeVars, viewVars
<1>2. mask' \in [Layer -> SUBSET {"paint", "layout", "remove"}] /\ MarksKept
  BY <1>1 DEF TreeInv, TreeTypeOK, MarksKept
<1> QED BY <1>1, <1>2, QuietKeeps

-----------------------------------------------------------------------------
(* The walks of a frame keep it.                                           *)

\* What prePaint does to the lists: the marked layers that it meets are taken out.
LEMMA PrePaintLinks ==
  ASSUME TreeInv, PrePaint
  PROVE  \E reached, pruned \in SUBSET Layer :
           /\ reached = Reached /\ pruned = {l \in reached : "remove" \in mask[l]}
           /\ children' \in [Layer -> Seq(View)]
           /\ \A l \in Layer :
                /\ IsInjective(children'[l])
                /\ ToSet(children'[l]) = IF l \in reached THEN ToSet(children[l]) \ pruned
                                                          ELSE ToSet(children[l])
                /\ parent'[l] = IF l \in pruned THEN NoLayer ELSE parent[l]
           /\ parent' \in [Layer -> Layer \cup {NoLayer}]
           /\ mask' \in [Layer -> SUBSET {"paint", "layout", "remove"}]
           /\ \A l \in Layer : "remove" \in mask'[l] <=> "remove" \in mask[l]
           /\ UNCHANGED <<mounted, moved, removed>> /\ phase' = "paint"
           /\ \A v \in View : v \notin Mounted => mounted[v] = <<>>
<1>0. /\ TreeTypeOK /\ LinksConsistent /\ children \in [Layer -> Seq(View)]
      /\ parent \in [Layer -> Layer \cup {NoLayer}] /\ Root \in Layer
      /\ mask \in [Layer -> SUBSET {"paint", "layout", "remove"}]
  BY DEF TreeInv, TreeTypeOK, Layer
<1>re. PICK reached \in {Reached} : \E pruned \in {{l \in reached : Pruned(l)}} :
        /\ children' = [l \in Layer |-> IF l \in reached THEN Without(children[l], pruned)
                                                         ELSE children[l]]
        /\ parent' = [l \in Layer |-> IF l \in pruned THEN NoLayer ELSE parent[l]]
        /\ mask' = [l \in Layer |-> IF l \in reached THEN mask[l] \cap {"remove"} ELSE mask[l]]
        /\ phase' = "paint" /\ \A v \in View \ Mounted : mounted[v] = <<>>
  BY Zenon DEF PrePaint
<1>1. PICK pruned \in {{l \in reached : Pruned(l)}} :
        /\ children' = [l \in Layer |-> IF l \in reached THEN Without(children[l], pruned)
                                                         ELSE children[l]]
        /\ parent' = [l \in Layer |-> IF l \in pruned THEN NoLayer ELSE parent[l]]
        /\ mask' = [l \in Layer |-> IF l \in reached THEN mask[l] \cap {"remove"} ELSE mask[l]]
        /\ phase' = "paint" /\ \A v \in View \ Mounted : mounted[v] = <<>>
  BY <1>re, Zenon
<1>eq. reached = Reached /\ pruned = {l \in reached : Pruned(l)}
  OBVIOUS
<1>un. UNCHANGED <<mounted, moved, removed>>
  BY DEF PrePaint, viewVars
<1>2. reached \in SUBSET Layer
  BY <1>0, <1>eq, SubtreeIsLeast DEF Reached
<1>3. pruned = {l \in reached : "remove" \in mask[l]} /\ pruned \in SUBSET Layer
  BY <1>2, <1>eq DEF Pruned
<1>4. ASSUME NEW l \in Layer
      PROVE  /\ children'[l] \in Seq(View) /\ IsInjective(children'[l])
             /\ ToSet(children'[l]) = IF l \in reached THEN ToSet(children[l]) \ pruned
                                                       ELSE ToSet(children[l])
             /\ parent'[l] = IF l \in pruned THEN NoLayer ELSE parent[l]
  <2>1. children[l] \in Seq(View) /\ IsInjective(children[l])
    BY <1>0, ListsOfViews DEF LinksConsistent
  <2>2. CASE l \in reached
    <3>1. children'[l] = Without(children[l], pruned)
      BY <1>1, <2>2
    <3> QED BY <1>1, <2>1, <2>2, <3>1, WithoutViews
  <2>3. CASE l \notin reached
    BY <1>1, <2>1, <2>3
  <2> QED BY <2>2, <2>3
<1>5. children' \in [Layer -> Seq(View)] /\ parent' \in [Layer -> Layer \cup {NoLayer}]
  <2>1. children' = [l \in Layer |-> children'[l]]
    BY <1>1
  <2>2. children' \in [Layer -> Seq(View)]
    BY <1>4, <2>1
  <2> QED BY <1>0, <1>1, <2>2
<1>6. /\ mask' \in [Layer -> SUBSET {"paint", "layout", "remove"}]
      /\ \A l \in Layer : "remove" \in mask'[l] <=> "remove" \in mask[l]
  BY <1>0, <1>1
<1> QED BY <1>1, <1>eq, <1>un, <1>2, <1>3, <1>4, <1>5, <1>6

\* What prePaint leaves is what is mounted and not below a moved view.
LEMMA PrePaintShows == TreeInv /\ PrePaint => Shown'
<1> SUFFICES ASSUME TreeInv, PrePaint PROVE Shown'
  OBVIOUS
<1> DEFINE lost == UNION {Below(v) : v \in moved}
           shown == Reached \cap (Mounted \ lost)
<1>0. /\ TreeTypeOK /\ LinksConsistent /\ MountedOnce /\ MountedLinked /\ LeftMarked
      /\ MarksOfMoved /\ children \in [Layer -> Seq(View)] /\ mounted \in [Layer -> Seq(View)]
      /\ moved \subseteq View /\ Root \in Layer /\ View \subseteq Layer
  BY DEF TreeInv, TreeTypeOK, Layer
<1>1. PICK reached, pruned \in SUBSET Layer :
           /\ reached = Reached /\ pruned = {l \in reached : "remove" \in mask[l]}
           /\ children' \in [Layer -> Seq(View)]
           /\ \A l \in Layer :
                /\ IsInjective(children'[l])
                /\ ToSet(children'[l]) = IF l \in reached THEN ToSet(children[l]) \ pruned
                                                          ELSE ToSet(children[l])
                /\ parent'[l] = IF l \in pruned THEN NoLayer ELSE parent[l]
           /\ parent' \in [Layer -> Layer \cup {NoLayer}]
           /\ mask' \in [Layer -> SUBSET {"paint", "layout", "remove"}]
           /\ \A l \in Layer : "remove" \in mask'[l] <=> "remove" \in mask[l]
           /\ UNCHANGED <<mounted, moved, removed>> /\ phase' = "paint"
           /\ \A v \in View : v \notin Mounted => mounted[v] = <<>>
  BY PrePaintLinks
<1>2. /\ Reached \in SUBSET Layer /\ Root \in Reached
      /\ \A p \in Reached : ToSet(children[p]) \subseteq Reached
  BY <1>0, SubtreeIsLeast DEF Reached, Holds
<1>3. /\ Reached' \in SUBSET Layer /\ Root \in Reached'
      /\ \A p \in Reached' : ToSet(children'[p]) \subseteq Reached'
      /\ \A T \in SUBSET Layer : Holds(children', Root, T) => Reached' \subseteq T
  <2>1. Reached' = Subtree(children', Root)
    BY DEF Reached
  <2> DEFINE after == children'
  <2>2. after \in [Layer -> Seq(View)]
    BY <1>1
  <2> HIDE DEF after
  <2>3. /\ Subtree(after, Root) \in SUBSET Layer /\ Root \in Subtree(after, Root)
        /\ \A p \in Subtree(after, Root) : ToSet(after[p]) \subseteq Subtree(after, Root)
        /\ \A T \in SUBSET Layer : Holds(after, Root, T) => Subtree(after, Root) \subseteq T
    BY <1>0, <2>2, SubtreeIsLeast DEF Holds
  <2> QED BY <2>1, <2>3 DEF after
<1>4. /\ Mounted \in SUBSET Layer /\ Root \in Mounted
      /\ \A p \in Mounted : ToSet(mounted[p]) \subseteq Mounted
      /\ \A T \in SUBSET Layer : Holds(mounted, Root, T) => Mounted \subseteq T
  BY <1>0, MountedIsLeast, SubtreeIsLeast DEF Mounted, Below
<1>5. /\ lost \in SUBSET Layer /\ Root \notin lost /\ moved \subseteq lost
      /\ \A p \in lost : ToSet(mounted[p]) \subseteq lost
  BY <1>0, MountedIsLeast
<1>6. ASSUME NEW c \in lost, c \notin moved, NEW p \in Layer, c \in ToSet(mounted[p])
      PROVE  p \in lost
  <2>1. PICK v \in moved : c \in Below(v)
    BY <1>6
  <2>2. v \in Layer /\ c # v
    BY <1>0, <1>6, <2>1
  <2>3. PICK q \in Below(v) : c \in ToSet(mounted[q])
    BY <1>0, <2>1, <2>2, ReachedFromList DEF Below
  <2>4. q \in Layer /\ c \in View
    BY <1>0, <1>5, <1>6, <2>1, <2>3, ListsOfViews
  <2>5. q = p
    BY <1>0, <1>6, <2>3, <2>4 DEF MountedOnce
  <2> QED BY <2>1, <2>3, <2>5
<1> HIDE DEF lost
\* Nothing else is left.
<1>7. Reached' \subseteq shown
  <2>1. ASSUME NEW p \in shown, NEW c \in ToSet(children'[p]) PROVE c \in shown
    <3>1. p \in Layer /\ p \in reached
      BY <1>1, <1>2
    <3>2. c \in ToSet(children[p]) /\ c \notin pruned
      BY <1>1, <2>1, <3>1
    <3>3. c \in View /\ c \in Reached /\ "remove" \notin mask[c]
      BY <1>0, <1>1, <1>2, <3>1, <3>2, ListsOfViews
    <3>4. parent[c] = p
      BY <1>0, <3>1, <3>2, <3>3 DEF LinksConsistent, Children
    <3>5. c \in ToSet(mounted[p])
      BY <1>0, <3>1, <3>3, <3>4 DEF LeftMarked
    <3>6. c \in Mounted
      BY <1>4, <3>5
    <3>7. c \notin moved
      BY <1>0, <3>3 DEF MarksOfMoved
    <3>8. c \notin lost
      BY <1>6, <3>1, <3>5, <3>7
    <3> QED BY <3>3, <3>6, <3>8
  <2>2. Root \in shown /\ shown \in SUBSET Layer
    BY <1>2, <1>4, <1>5
  <2> HIDE DEF shown
  <2>3. Holds(children', Root, shown)
    BY <2>1, <2>2 DEF Holds
  <2> QED BY <1>3, <2>2, <2>3
\* Nothing of it is missing.
<1>8. Mounted \subseteq Reached' \cup lost
  <2> DEFINE all == Reached' \cup lost
  <2>1. ASSUME NEW p \in all, NEW c \in ToSet(mounted[p]) PROVE c \in all
    <3>1. CASE p \in lost
      BY <1>5, <2>1, <3>1
    <3>2. CASE p \in Reached' /\ p \notin lost
      <4>1. p \in Layer /\ p \in Reached
        BY <1>2, <1>7, <3>2
      <4>2. c \in View
        BY <1>0, <2>1, <4>1, ListsOfViews
      <4>3. CASE parent[c] # p
        BY <1>0, <1>5, <2>1, <4>1, <4>2, <4>3 DEF MountedLinked
      <4>4. CASE parent[c] = p
        <5>1. c \in ToSet(children[p])
          BY <1>0, <4>1, <4>2, <4>4 DEF LinksConsistent, Children
        <5>2. CASE "remove" \in mask[c]
          <6>1. Placed(c)
            BY <2>1, <4>1 DEF Placed
          <6> QED BY <1>0, <1>5, <4>2, <5>2, <6>1 DEF MarksOfMoved
        <5>3. CASE "remove" \notin mask[c]
          <6>1. c \in ToSet(children'[p])
            BY <1>1, <4>1, <5>1, <5>3
          <6> QED BY <1>3, <3>2, <6>1
        <5> QED BY <5>2, <5>3
      <4> QED BY <4>3, <4>4
    <3> QED BY <3>1, <3>2
  <2>2. Root \in all /\ all \in SUBSET Layer
    BY <1>3, <1>5
  <2> HIDE DEF all
  <2>3. Holds(mounted, Root, all)
    BY <2>1, <2>2 DEF Holds
  <2>4. Mounted \subseteq all
    BY <1>4, <2>2, <2>3
  <2> QED BY <2>4 DEF all
<1>9. Reached' = Mounted \ lost
  BY <1>7, <1>8
<1>10. Mounted' = Mounted /\ (UNION {Below(v) : v \in moved})' = lost
  BY <1>1 DEF Mounted, Below, lost
<1> QED BY <1>9, <1>10 DEF Shown

LEMMA PrePaintKeeps == TreeInv /\ PrePaint => TreeInv'
<1> SUFFICES ASSUME TreeInv, PrePaint PROVE TreeInv'
  OBVIOUS
<1>0. /\ TreeTypeOK /\ LinksConsistent /\ MountedOnce /\ MountedLinked /\ LeftMarked
      /\ MarksOfMoved /\ RemovedKnown /\ children \in [Layer -> Seq(View)]
      /\ moved \subseteq View /\ removed \subseteq View \X Layer
      /\ Root \in Layer /\ View \subseteq Layer /\ NoLayer \notin Layer /\ Root \notin View
  BY LayerTreeAssumption DEF TreeInv, TreeTypeOK, Layer
<1>1. PICK reached, pruned \in SUBSET Layer :
           /\ reached = Reached /\ pruned = {l \in reached : "remove" \in mask[l]}
           /\ children' \in [Layer -> Seq(View)]
           /\ \A l \in Layer :
                /\ IsInjective(children'[l])
                /\ ToSet(children'[l]) = IF l \in reached THEN ToSet(children[l]) \ pruned
                                                          ELSE ToSet(children[l])
                /\ parent'[l] = IF l \in pruned THEN NoLayer ELSE parent[l]
           /\ parent' \in [Layer -> Layer \cup {NoLayer}]
           /\ mask' \in [Layer -> SUBSET {"paint", "layout", "remove"}]
           /\ \A l \in Layer : "remove" \in mask'[l] <=> "remove" \in mask[l]
           /\ UNCHANGED <<mounted, moved, removed>> /\ phase' = "paint"
           /\ \A v \in View : v \notin Mounted => mounted[v] = <<>>
  BY PrePaintLinks
<1>2. TreeTypeOK' /\ MountedOnce'
  BY <1>0, <1>1 DEF TreeTypeOK, MountedOnce
<1>3. LinksConsistent'
  <2> SUFFICES ASSUME NEW l \in Layer, NEW c \in Layer
               PROVE  c \in ToSet(children'[l]) <=> parent'[c] = l
    BY <1>1 DEF LinksConsistent, Children
  <2>1. c \in ToSet(children[l]) <=> parent[c] = l
    BY <1>0 DEF LinksConsistent, Children
  <2>2. CASE l \in reached
    BY <1>0, <1>1, <2>1, <2>2
  <2>3. CASE l \notin reached
    <3>1. ToSet(children'[l]) = ToSet(children[l])
      BY <1>1, <2>3
    <3>2. ASSUME c \in pruned PROVE parent[c] # l
      <4>1. c \in Subtree(children, Root)
        BY <1>1, <3>2 DEF Reached
      <4>2. CASE c = Root
        BY <1>0, <2>1, <4>2, ListsOfViews
      <4>3. CASE c # Root
        <5>1. PICK q \in Subtree(children, Root) : c \in ToSet(children[q])
          BY <1>0, <4>1, <4>3, ReachedFromList
        <5>2. q \in reached /\ q \in Layer
          BY <1>1, <5>1 DEF Reached
        <5>3. parent[c] = q
          BY <1>0, <5>1, <5>2 DEF LinksConsistent, Children
        <5> QED BY <2>3, <5>2, <5>3
      <4> QED BY <4>2, <4>3
    <3> QED BY <1>0, <1>1, <2>1, <3>1, <3>2
  <2> QED BY <2>2, <2>3
<1>4. MountedLinked'
  <2> SUFFICES ASSUME NEW p \in Layer, NEW c \in View, c \in ToSet(mounted[p])
               PROVE  parent'[c] = p \/ (parent'[c] = NoLayer /\ c \in moved)
    BY <1>1 DEF MountedLinked
  <2>1. parent[c] = p \/ (parent[c] = NoLayer /\ c \in moved)
    BY <1>0 DEF MountedLinked
  <2>2. "remove" \in mask[c] => c \in moved
    BY <1>0 DEF MarksOfMoved, Placed
  <2> QED BY <1>0, <1>1, <2>1, <2>2
<1>5. LeftMarked'
  <2> SUFFICES ASSUME NEW p \in Layer, NEW c \in View, parent'[c] = p, c \notin ToSet(mounted[p])
               PROVE  "remove" \in mask'[c]
    BY <1>1 DEF LeftMarked
  <2>1. parent[c] = p
    BY <1>0, <1>1
  <2> QED BY <1>0, <1>1, <2>1 DEF LeftMarked
<1>6. \A c \in Layer : Placed(c)' <=> Placed(c)
  BY <1>1 DEF Placed
<1>7. MarksOfMoved'
  <2>1. \A r \in removed : r[1] \in View
    BY <1>0
  <2> QED BY <1>0, <1>1, <1>6, <2>1 DEF MarksOfMoved
<1>8. RemovedKnown'
  <2>1. Known' = {q \in Layer : q = Root \/ Placed(q)' \/ \E r \in Layer : <<q, r>> \in removed'}
    BY DEF Known
  <2>2. Known' = Known
    BY <1>1, <1>6, <2>1 DEF Known
  <2> SUFFICES ASSUME NEW r \in removed PROVE parent'[r[1]] = NoLayer \/ parent'[r[1]] \in Known
    BY <1>1, <2>2 DEF RemovedKnown
  <2>3. r[1] \in Layer
    BY <1>0
  <2> QED BY <1>0, <1>1, <2>3 DEF RemovedKnown
<1>9. NewUnmarked' /\ UnmountedEmpty'
  <2>1. Mounted' = Mounted
    BY <1>1 DEF Mounted, Below
  <2> QED BY <1>1, <2>1 DEF NewUnmarked, UnmountedEmpty
<1> QED BY <1>2, <1>3, <1>4, <1>5, <1>7, <1>8, <1>9, PrePaintShows DEF TreeInv

\* The end of a frame: only what is not mounted gets a new layer.
LEMMA PaintKeeps == TreeInv /\ Paint => TreeInv'
<1> SUFFICES ASSUME TreeInv, Paint PROVE TreeInv'
  OBVIOUS
<1>0. /\ TreeTypeOK /\ LinksConsistent /\ MountedOnce /\ MountedLinked /\ LeftMarked
      /\ MarksOfMoved /\ UnmountedEmpty /\ Shown
      /\ mounted \in [Layer -> Seq(View)] /\ moved \subseteq View
      /\ mask \in [Layer -> SUBSET {"paint", "layout", "remove"}]
      /\ Root \in Layer /\ View \subseteq Layer /\ NoLayer \notin Layer
  BY LayerTreeAssumption DEF TreeInv, TreeTypeOK, Layer
<1>1. /\ phase = "paint" /\ phase' = "idle" /\ removed' = {}
      /\ UNCHANGED <<mounted, children, parent>>
  <2>1. /\ phase = "paint" /\ phase' = "idle" /\ removed' = {}
        /\ UNCHANGED <<mounted, treeVars, damage, mutations, count>>
    BY Zenon DEF Paint
  <2> QED BY <2>1 DEF treeVars
<1>2. PICK dead \in {Dead} :
        mask' = [l \in Layer |-> IF l \in dead THEN InvalidateAll ELSE mask[l]]
        /\ moved' = moved \ dead
  BY Zenon DEF Paint, Fresh
<1>3. dead = {v \in View \ Mounted : parent[v] = NoLayer /\ children[v] = <<>>}
  BY DEF Dead
<1>4. /\ mask' \in [Layer -> SUBSET {"paint", "layout", "remove"}]
      /\ \A l \in Layer : "remove" \in mask'[l] <=> "remove" \in mask[l] /\ l \notin dead
  BY <1>0, <1>2 DEF InvalidateAll
<1>5. ASSUME NEW p \in Layer, NEW c \in View, c \in ToSet(mounted[p]) PROVE c \in Mounted
  <2>1. mounted[p] # <<>>
    <3>1. ToSet(<<>>) = {}
      BY DEF ToSet
    <3> QED BY <1>5, <3>1
  <2>2. p \in Mounted
    BY <1>0, <1>1, <2>1, MountedIsLeast DEF UnmountedEmpty, Layer
  <2> QED BY <1>0, <1>5, <2>2, MountedIsLeast
<1>6. TreeTypeOK' /\ LinksConsistent' /\ MountedOnce'
  <2>1. TreeTypeOK'
    BY <1>0, <1>1, <1>2, <1>4 DEF TreeTypeOK
  <2>2. LinksConsistent' /\ MountedOnce'
    BY <1>0, <1>1 DEF LinksConsistent, Children, MountedOnce
  <2> QED BY <2>1, <2>2
<1>7. MountedLinked'
  <2> SUFFICES ASSUME NEW p \in Layer, NEW c \in View, c \in ToSet(mounted[p])
               PROVE  parent[c] = p \/ (parent[c] = NoLayer /\ c \in moved')
    BY <1>1 DEF MountedLinked
  <2>1. c \notin dead
    BY <1>3, <1>5
  <2> QED BY <1>0, <1>2, <2>1 DEF MountedLinked
<1>8. LeftMarked'
  <2> SUFFICES ASSUME NEW p \in Layer, NEW c \in View, parent[c] = p, c \notin ToSet(mounted[p])
               PROVE  "remove" \in mask'[c]
    BY <1>1 DEF LeftMarked
  <2>1. c \notin dead
    BY <1>0, <1>3
  <2> QED BY <1>0, <1>4, <2>1 DEF LeftMarked
<1>9. MarksOfMoved'
  <2>1. ASSUME NEW c \in moved' PROVE "remove" \in mask'[c]
    BY <1>0, <1>2, <1>4, <2>1 DEF MarksOfMoved
  <2>2. ASSUME NEW c \in View, Placed(c)', "remove" \in mask'[c] PROVE c \in moved'
    <3>1. Placed(c)
      BY <1>1, <2>2 DEF Placed
    <3> QED BY <1>0, <1>2, <1>4, <2>2, <3>1 DEF MarksOfMoved
  <2> QED BY <1>1, <2>1, <2>2 DEF MarksOfMoved
<1>10. NewUnmarked'
  <2> SUFFICES ASSUME NEW v \in View, ~Placed(v)', parent[v] = NoLayer, children[v] = <<>>
               PROVE  v \notin moved' /\ "remove" \notin mask'[v]
    BY <1>1 DEF NewUnmarked
  <2>1. ~Placed(v) /\ v # Root
    BY <1>1, LayerTreeAssumption DEF Placed
  <2>2. v \notin Mounted
    BY <1>0, <2>1, MountedInList
  <2>3. v \in dead
    BY <1>3, <2>2
  <2> QED BY <1>0, <1>2, <1>4, <2>3
<1>11. RemovedKnown'
  BY <1>1 DEF RemovedKnown
<1>12. UnmountedEmpty'
  <2>1. Mounted' = Mounted
    BY <1>1 DEF Mounted, Below
  <2> QED BY <1>0, <1>1, <2>1 DEF UnmountedEmpty
<1>13. Shown'
  <2>1. Mounted' = Mounted /\ Reached' = Reached
    BY <1>1 DEF Mounted, Below, Reached
  <2>2. ASSUME NEW v \in dead PROVE Below(v) \subseteq View \ Mounted
    <3>1. v \in View \ Mounted /\ v \in Layer /\ mounted[v] = <<>>
      BY <1>0, <1>1, <1>3, <2>2 DEF UnmountedEmpty
    <3>2. ToSet(mounted[v]) = {}
      BY <3>1 DEF ToSet
    <3>3. Holds(mounted, v, {v})
      BY <3>2 DEF Holds
    <3>4. Below(v) \subseteq {v}
      BY <1>0, <3>1, <3>3, SubtreeIsLeast DEF Below
    <3> QED BY <3>1, <3>4
  <2> DEFINE lost == UNION {Below(v) : v \in moved}
             left == UNION {Below(v) : v \in moved \ dead}
  <2>3. Mounted \ lost = Mounted \ left
    <3> SUFFICES ASSUME NEW l \in Mounted, NEW v \in moved, l \in Below(v)
                 PROVE  v \notin dead
      OBVIOUS
    <3> QED BY <2>2
  <2>4. Reached = Mounted \ lost
    BY <1>0, <1>1 DEF Shown
  <2>5. (UNION {Below(v) : v \in moved})' = left
    BY <1>1, <1>2 DEF Below
  <2> HIDE DEF lost, left
  <2> QED BY <2>1, <2>3, <2>4, <2>5 DEF Shown
<1> QED BY <1>6, <1>7, <1>8, <1>9, <1>10, <1>11, <1>12, <1>13 DEF TreeInv

-----------------------------------------------------------------------------
(* The invariant and what follows from it.                                 *)

LEMMA TreeStart == Init => TreeInv
<1> SUFFICES ASSUME Init PROVE TreeInv
  OBVIOUS
<1>0. Root \in Layer /\ View \subseteq Layer /\ NoLayer \notin Layer
  BY LayerTreeAssumption DEF Layer
<1> DEFINE none == [l \in Layer |-> <<>>]
<1>1. /\ mounted = none /\ children = none /\ parent = [l \in Layer |-> NoLayer]
      /\ mask = [l \in Layer |-> InvalidateAll]
      /\ phase = "idle" /\ removed = {} /\ moved = {}
  BY DEF Init
<1>2. /\ none \in [Layer -> Seq(View)]
      /\ \A l \in Layer : ToSet(none[l]) = {} /\ IsInjective(none[l]) /\ none[l] = <<>>
  <2>1. <<>> \in Seq(View) /\ ToSet(<<>>) = {} /\ IsInjective(<<>>)
    BY EmptySeq DEF ToSet, IsInjective
  <2> QED BY <2>1
<1> HIDE DEF none
<1>3. TreeTypeOK
  BY <1>0, <1>1, <1>2 DEF TreeTypeOK, InvalidateAll
<1>4. LinksConsistent /\ MountedOnce /\ MountedLinked /\ LeftMarked
  <2>1. LinksConsistent
    BY <1>0, <1>1, <1>2 DEF LinksConsistent, Children
  <2>2. MountedOnce /\ MountedLinked /\ LeftMarked
    BY <1>0, <1>1, <1>2 DEF MountedOnce, MountedLinked, LeftMarked
  <2> QED BY <2>1, <2>2
<1>5. MarksOfMoved /\ NewUnmarked /\ RemovedKnown
  <2>1. \A c \in Layer : "remove" \notin mask[c]
    BY <1>1 DEF InvalidateAll
  <2> QED BY <1>0, <1>1, <2>1 DEF MarksOfMoved, NewUnmarked, RemovedKnown
<1>6. UnmountedEmpty
  BY <1>0, <1>1, <1>2 DEF UnmountedEmpty
<1>7. Shown
  <2>1. Reached = Mounted
    BY <1>1 DEF Reached, Mounted, Below
  <2> QED BY <1>1, <2>1 DEF Shown
<1> QED BY <1>3, <1>4, <1>5, <1>6, <1>7 DEF TreeInv

LEMMA TreeStep == TreeInv /\ [Next]_vars => TreeInv'
<1> SUFFICES ASSUME TreeInv, [Next]_vars PROVE TreeInv'
  OBVIOUS
<1>0. \A v \in Mounted \ {Root} : v \in View
  BY MountedIsLeast DEF TreeInv, Layer
<1>1. CASE BeginTransaction
  BY <1>1, BeginKeeps
<1>2. ASSUME NEW v \in Unplaced, NEW p \in Mounted, NEW i \in 0..Len(mounted[p]), NEW f \in Frame,
             ReinsertView(v, p, i, f) \/ \E k \in Kind : CreateView(v, p, i, f, k)
      PROVE  TreeInv'
  BY <1>2, ReinsertKeeps, CreateKeeps
<1>3. ASSUME NEW v \in Mounted \ {Root},
             \/ RemoveView(v)
             \/ \E f \in Frame, pic \in {0, 1} : UpdateView(v, f, pic)
             \/ \E x \in Surface : HandleScroll(v, x)
      PROVE  TreeInv'
  BY <1>0, <1>3, RemoveKeeps, UpdateKeeps, ScrollKeeps
<1>4. CASE PrePaint
  BY <1>4, PrePaintKeeps
<1>5. CASE Paint
  BY <1>5, PaintKeeps
<1>6. CASE UNCHANGED vars
  <2>1. UNCHANGED <<mounted, children, parent, mask, phase, removed, moved>>
    BY <1>6 DEF vars, viewVars, treeVars
  <2>2. UNCHANGED <<Mounted, Reached, Known>>
    BY <2>1 DEF Mounted, Reached, Below, Known, Placed
  <2> QED
    BY <2>1, <2>2 DEF TreeInv, TreeTypeOK, LinksConsistent, Children, MountedOnce, MountedLinked,
                      LeftMarked, MarksOfMoved, NewUnmarked, RemovedKnown, UnmountedEmpty, Shown,
                      Placed, Below
<1> QED BY <1>1, <1>2, <1>3, <1>4, <1>5, <1>6 DEF Next

LEMMA TreeInvariant == Spec => []TreeInv
<1> QED BY TreeStart, TreeStep, PTL DEF Spec

-----------------------------------------------------------------------------

(***************************************************************************)
(* parent_ and children_ agree, whatever transactions create, remove,      *)
(* move and update while marked layers still wait for prePaint             *)
(* (Layer::insertChild and Layer::prePaint): a layer is in the list of its *)
(* parent, once, and in no other.                                          *)
(***************************************************************************)
THEOREM LinksHold == Spec => []LinksConsistent
<1>1. TreeInv => LinksConsistent
  BY DEF TreeInv
<1> QED BY <1>1, TreeInvariant, PTL

(***************************************************************************)
(* The layers that paint can reach are those of the views that React has   *)
(* mounted (RSkComponent::unmountChildComponent marks, Layer::prePaint     *)
(* prunes), except what is below a view that a transaction removed and     *)
(* inserted again.                                                         *)
(***************************************************************************)
THEOREM LayersShownHolds == Spec => []LayersShown
<1>1. TreeInv => LayersShown
  BY DEF TreeInv, Shown, LayersShown
<1> QED BY <1>1, TreeInvariant, PTL

-----------------------------------------------------------------------------
(* Recursion over the layers: from a layer to the one above it, and from a *)
(* layer to those in its list.                                             *)

\* Every set of layers has a top.
Topped(S, up) == \A T \in SUBSET S : T # {} => \E l \in T : up[l] \notin T

\* f is computed upwards: d at the end, g from the layer above.
IsUpward(f, S, V, up, d, g) ==
  /\ f \in [S -> V]
  /\ \A l \in S : f[l] = IF up[l] \in S THEN g[<<l, f[up[l]]>>] ELSE d[l]

\* A function that is computed upwards exists where every set has a top.
LEMMA UpwardRecursion ==
  ASSUME NEW S, NEW up, Topped(S, up), NEW V, NEW d \in [S -> V], NEW g \in [S \X V -> V]
  PROVE  \E f : IsUpward(f, S, V, up, d, g)
<1> DEFINE Closed(R) ==
             /\ \A l \in S : up[l] \notin S => <<l, d[l]>> \in R
             /\ \A l \in S, v \in V : up[l] \in S /\ <<up[l], v>> \in R => <<l, g[<<l, v>>]>> \in R
           F == {r \in S \X V : \A R \in SUBSET (S \X V) : Closed(R) => r \in R}
<1>1. F \in SUBSET (S \X V) /\ Closed(F)
  OBVIOUS
<1>2. \A R \in SUBSET (S \X V) : Closed(R) => F \subseteq R
  OBVIOUS
<1>3. \A l \in S : \E v \in V : <<l, v>> \in F
  <2> HIDE DEF F
  <2> DEFINE T == {l \in S : ~\E v \in V : <<l, v>> \in F}
  <2> SUFFICES ASSUME T # {} PROVE FALSE
    OBVIOUS
  <2>1. PICK l \in T : up[l] \notin T
    BY DEF Topped
  <2>2. CASE up[l] \notin S
    <3>1. <<l, d[l]>> \in F /\ d[l] \in V
      BY <1>1, <2>2
    <3> QED BY <3>1
  <2>3. CASE up[l] \in S
    <3>1. PICK v \in V : <<up[l], v>> \in F
      BY <2>1, <2>3
    <3>2. <<l, g[<<l, v>>]>> \in F /\ g[<<l, v>>] \in V
      BY <1>1, <2>3, <3>1
    <3> QED BY <3>2
  <2> QED BY <2>2, <2>3
<1>4. ASSUME NEW l \in S, up[l] \notin S, NEW v \in V, <<l, v>> \in F PROVE v = d[l]
  <2> DEFINE R == F \ {<<l, v>>}
  <2> HIDE DEF F
  <2> SUFFICES ASSUME v # d[l] PROVE Closed(R)
    <3>1. R \in SUBSET (S \X V) /\ <<l, v>> \notin R
      BY <1>1
    <3> HIDE DEF R, Closed
    <3> QED BY <1>2, <1>4, <3>1
  <2> QED BY <1>1, <1>4
<1>5. ASSUME NEW l \in S, up[l] \in S, NEW v \in V, <<l, v>> \in F, NEW u \in V,
             <<up[l], u>> \in F, \A w \in V : <<up[l], w>> \in F => w = u
      PROVE  v = g[<<l, u>>]
  <2> DEFINE R == F \ {<<l, v>>}
  <2> HIDE DEF F
  <2> SUFFICES ASSUME v # g[<<l, u>>] PROVE Closed(R)
    <3>1. R \in SUBSET (S \X V) /\ <<l, v>> \notin R
      BY <1>1
    <3> HIDE DEF R, Closed
    <3> QED BY <1>2, <1>5, <3>1
  <2> QED BY <1>1, <1>5
<1> HIDE DEF F, Closed
<1> DEFINE Only(l, u) == \A w \in V : <<up[l], w>> \in F => w = u
<1>0. \A l \in S, u, v \in V :
        up[l] \in S /\ <<l, v>> \in F /\ <<up[l], u>> \in F /\ Only(l, u) => v = g[<<l, u>>]
  BY <1>5
<1>6. \A l \in S : \A v, w \in V : <<l, v>> \in F /\ <<l, w>> \in F => v = w
  <2> DEFINE T == {l \in S : \E v, w \in V : <<l, v>> \in F /\ <<l, w>> \in F /\ v # w}
  <2> SUFFICES ASSUME T # {} PROVE FALSE
    OBVIOUS
  <2>1. PICK l \in T : up[l] \notin T
    BY DEF Topped
  <2>2. CASE up[l] \notin S
    BY <1>4, <2>2
  <2>3. CASE up[l] \in S
    <3>1. PICK u \in V : <<up[l], u>> \in F
      BY <1>3, <2>3
    <3>2. \A w \in V : <<up[l], w>> \in F => w = u
      BY <2>1, <2>3, <3>1
    <3> QED BY <1>0, <2>3, <3>1, <3>2
  <2> QED BY <2>2, <2>3
<1> DEFINE f == [l \in S |-> CHOOSE v \in V : <<l, v>> \in F]
<1>7. \A l \in S : f[l] \in V /\ <<l, f[l]>> \in F
  BY <1>3
<1>8. f \in [S -> V]
  BY <1>7
<1> HIDE DEF f
<1>9. ASSUME NEW l \in S PROVE f[l] = IF up[l] \in S THEN g[<<l, f[up[l]]>>] ELSE d[l]
  <2>1. CASE up[l] \notin S
    BY <1>4, <1>7, <2>1
  <2>2. CASE up[l] \in S
    <3>1. \A w \in V : <<up[l], w>> \in F => w = f[up[l]]
      BY <1>6, <1>7, <2>2
    <3>2. f[l] = g[<<l, f[up[l]]>>]
      BY <1>0, <1>7, <2>2, <3>1
    <3> QED BY <2>2, <3>2
  <2> QED BY <2>1, <2>2
<1> QED BY <1>8, <1>9 DEF IsUpward

\* f is computed downwards: what a layer has depends on what those in its list have.
IsDownward(f, S, V, kids, h) ==
  /\ f \in [S -> SUBSET V]
  /\ \A l \in S : f[l] = h[<<l, UNION {f[c] : c \in kids[l]}>>]

\* h gives more when it is given more.
Grows(h, S, V) ==
  \A l \in S : \A A, B \in SUBSET V : A \subseteq B => h[<<l, A>>] \subseteq h[<<l, B>>]

\* A function to sets that is computed downwards exists when what a layer has grows
\* with what the layers in its list have.
LEMMA DownwardRecursion ==
  ASSUME NEW S, NEW V, NEW kids \in [S -> SUBSET S],
         NEW h \in [S \X SUBSET V -> SUBSET V], Grows(h, S, V)
  PROVE  \E f : IsDownward(f, S, V, kids, h)
<1> DEFINE Under(f, l) == UNION {f[c] : c \in kids[l]}
           PreFixed(f) == \A l \in S : h[<<l, Under(f, l)>>] \subseteq f[l]
           m == [l \in S |-> {x \in V : \A f \in [S -> SUBSET V] : PreFixed(f) => x \in f[l]}]
           n == [l \in S |-> h[<<l, Under(m, l)>>]]
<1>1. m \in [S -> SUBSET V]
  OBVIOUS
<1>2. \A f \in [S -> SUBSET V] : PreFixed(f) => \A l \in S : m[l] \subseteq f[l]
  OBVIOUS
<1>3. ASSUME NEW f \in [S -> SUBSET V], NEW l \in S PROVE Under(f, l) \in SUBSET V
  OBVIOUS
<1>4. ASSUME NEW f \in [S -> SUBSET V], NEW e \in [S -> SUBSET V], \A l \in S : f[l] \subseteq e[l],
             NEW l \in S
      PROVE  h[<<l, Under(f, l)>>] \subseteq h[<<l, Under(e, l)>>]
  <2>1. Under(f, l) \subseteq Under(e, l)
    BY <1>4
  <2> HIDE DEF Under
  <2> QED BY <1>3, <2>1 DEF Grows
<1> DEFINE In(x, l) == \A f \in [S -> SUBSET V] : PreFixed(f) => x \in f[l]
<1>5. PreFixed(m)
  <2> SUFFICES ASSUME NEW l \in S, NEW x \in h[<<l, Under(m, l)>>] PROVE x \in m[l]
    OBVIOUS
  <2>1. x \in V
    <3> HIDE DEF m, Under
    <3>1. Under(m, l) \in SUBSET V
      BY <1>1, <1>3
    <3> QED BY <3>1
  <2>2. ASSUME NEW f \in [S -> SUBSET V], PreFixed(f) PROVE x \in f[l]
    <3>1. \A k \in S : m[k] \subseteq f[k]
      BY <1>2, <2>2
    <3> HIDE DEF m, Under
    <3>2. h[<<l, Under(m, l)>>] \subseteq h[<<l, Under(f, l)>>]
      BY <1>1, <1>4, <3>1
    <3> QED BY <2>2, <3>2
  <2> QED BY <2>1, <2>2
<1>6. n \in [S -> SUBSET V]
  <2> HIDE DEF m, Under
  <2>1. \A l \in S : Under(m, l) \in SUBSET V
    BY <1>1, <1>3
  <2> QED BY <2>1
<1>7. \A l \in S : n[l] \subseteq m[l]
  <2> HIDE DEF m, Under
  <2> QED BY <1>5
<1>8. PreFixed(n)
  <2> HIDE DEF m, Under
  <2> SUFFICES ASSUME NEW l \in S PROVE h[<<l, Under(n, l)>>] \subseteq n[l]
    OBVIOUS
  <2>1. n[l] = h[<<l, Under(m, l)>>]
    OBVIOUS
  <2> HIDE DEF n
  <2> QED BY <1>1, <1>4, <1>6, <1>7, <2>1
<1>9. \A l \in S : m[l] = n[l]
  <2>1. \A l \in S : m[l] \subseteq n[l]
    <3> HIDE DEF m, n, PreFixed
    <3> QED BY <1>2, <1>6, <1>8
  <2> QED BY <1>7, <2>1
<1> QED
  <2>1. \A l \in S : m[l] = h[<<l, Under(m, l)>>]
    <3> HIDE DEF m, Under
    <3> QED BY <1>9
  <2> HIDE DEF m
  <2> QED BY <1>1, <2>1 DEF IsDownward

\* A view has its layer, while it has one, below this one.
Home(v, p) == v \in ToSet(mounted[p]) \/ <<v, p>> \in removed

GeometryOK ==
  /\ kind \in [Layer -> Kind]
  /\ frame \in [Layer -> [x : Nat, w : Nat \ {0}]]
  /\ picture \in [Layer -> {0, 1}]
  /\ scroll \in [Layer -> Int]
  /\ origin \in [Layer -> Int]
  /\ bounds \in [Layer -> SUBSET Int]
  /\ skips \in SUBSET Layer
  /\ pending \in [Layer -> SUBSET Int]
  /\ damage \in SUBSET Int

\* The way up from a layer ends.
Acyclic == \A S \in SUBSET Layer : S # {} => \E l \in S : parent[l] \notin S

\* A layer that is up to date, and all layers above it are.
Clean[l \in Layer] == mask[l] = {} /\ (parent[l] # NoLayer => Clean[parent[l]])

\* The tiles that the cached bounds of a layer and of those above it cover.
Region[l \in Layer] ==
  Shift(bounds[l], ScrollOffset[l])
    \cap IF parent[l] = NoLayer THEN Surface ELSE Region[parent[l]]

\* f is computed upwards in the tree.
Solves(f, V, d, g) ==
  /\ f \in [Layer -> V]
  /\ \A l \in Layer : f[l] = IF parent[l] = NoLayer THEN d[l] ELSE g[<<l, f[parent[l]]>>]

\* Something that a layer has from the layer above it.
LEMMA Upward ==
  ASSUME parent \in [Layer -> Layer \cup {NoLayer}], Acyclic,
         NEW V, NEW d \in [Layer -> V], NEW g \in [Layer \X V -> V]
  PROVE  \E f : Solves(f, V, d, g)
<1>1. \A l \in Layer : parent[l] \in Layer <=> parent[l] # NoLayer
  BY LayerTreeAssumption DEF Layer
<1>2. Topped(Layer, parent)
  BY DEF Acyclic, Topped
<1>3. PICK f : IsUpward(f, Layer, V, parent, d, g)
  BY <1>2, UpwardRecursion
<1> QED BY <1>1, <1>3 DEF IsUpward, Solves

OffsetsComputed ==
  /\ ScrollOffset \in [Layer -> Int]
  /\ \A l \in Layer :
       ScrollOffset[l] =
         IF parent[l] = NoLayer THEN 0
         ELSE ScrollOffset[parent[l]] +
              IF kind[parent[l]] = "scroll"
              THEN ScrollShift(parent[l], origin[parent[l]] + frame[parent[l]].x) ELSE 0

\* ScrollOffset is computed upwards.
LEMMA Offsets == TreeTypeOK /\ GeometryOK /\ Acyclic => OffsetsComputed
<1> SUFFICES ASSUME TreeTypeOK, GeometryOK, Acyclic PROVE OffsetsComputed
  OBVIOUS
<1> DEFINE Inner(l) == IF kind[parent[l]] = "scroll"
                       THEN ScrollShift(parent[l], origin[parent[l]] + frame[parent[l]].x) ELSE 0
           d == [l \in Layer |-> 0]
           g == [p \in Layer \X Int |-> IF parent[p[1]] = NoLayer THEN 0 ELSE p[2] + Inner(p[1])]
<1>1. /\ parent \in [Layer -> Layer \cup {NoLayer}]
      /\ \A l \in Layer : frame[l].x \in Int /\ origin[l] \in Int /\ scroll[l] \in Int
  BY DEF TreeTypeOK, GeometryOK
<1>2. \A l \in Layer : parent[l] # NoLayer => parent[l] \in Layer /\ Inner(l) \in Int
  BY <1>1 DEF ScrollShift
<1>3. g \in [Layer \X Int -> Int]
  <2> HIDE DEF Inner
  <2> QED BY <1>2
<1>4. PICK f : Solves(f, Int, d, g)
  <2> HIDE DEF d, g
  <2>1. d \in [Layer -> Int]
    BY DEF d
  <2> QED BY <1>1, <1>3, <2>1, Upward
<1>5. ASSUME NEW l \in Layer
      PROVE  f[l] = IF parent[l] = NoLayer THEN 0 ELSE f[parent[l]] + Inner(l)
  <2> HIDE DEF Inner
  <2> QED BY <1>1, <1>4 DEF Solves
<1>6. f = [l \in Layer |->
             IF parent[l] = NoLayer THEN 0
             ELSE LET p == parent[l]
                  IN  f[p] + IF kind[p] = "scroll" THEN ScrollShift(p, origin[p] + frame[p].x) ELSE 0]
  BY <1>4, <1>5 DEF Solves
<1>7. ScrollOffset = [l \in Layer |->
             IF parent[l] = NoLayer THEN 0
             ELSE LET p == parent[l]
                  IN  ScrollOffset[p] + IF kind[p] = "scroll" THEN ScrollShift(p, origin[p] + frame[p].x) ELSE 0]
  BY <1>6, Zenon DEF ScrollOffset
<1>8. \A l \in Layer : ScrollOffset[l] \in Int
  <2> DEFINE T == {l \in Layer : ScrollOffset[l] \notin Int}
  <2> SUFFICES ASSUME T # {} PROVE FALSE
    OBVIOUS
  <2>1. PICK l \in T : parent[l] \notin T
    BY DEF Acyclic
  <2>2. ScrollOffset[l] = IF parent[l] = NoLayer THEN 0 ELSE ScrollOffset[parent[l]] + Inner(l)
    BY <1>7
  <2> HIDE DEF Inner
  <2> QED BY <1>1, <1>2, <2>1, <2>2
<1> QED BY <1>7, <1>8 DEF OffsetsComputed

BasesComputed ==
  /\ \A l \in Layer : Base[l] \in Int
  /\ \A l \in Layer :
       Base[l] = IF parent[l] = NoLayer THEN 0
                 ELSE Base[parent[l]] + frame[parent[l]].x
                        - IF kind[parent[l]] = "scroll" THEN scroll[parent[l]] ELSE 0

\* Base is computed upwards.
LEMMA Bases == TreeTypeOK /\ GeometryOK /\ Acyclic => BasesComputed
<1> SUFFICES ASSUME TreeTypeOK, GeometryOK, Acyclic PROVE BasesComputed
  OBVIOUS
<1> DEFINE Scrolled(l) == IF kind[parent[l]] = "scroll" THEN scroll[parent[l]] ELSE 0
           X(l) == frame[parent[l]].x
           d == [l \in Layer |-> 0]
           g == [p \in Layer \X Int |-> IF parent[p[1]] = NoLayer THEN 0
                                        ELSE p[2] + X(p[1]) - Scrolled(p[1])]
<1>1. /\ parent \in [Layer -> Layer \cup {NoLayer}]
      /\ \A l \in Layer : frame[l].x \in Int /\ scroll[l] \in Int
  BY DEF TreeTypeOK, GeometryOK
<1>2. \A l \in Layer : parent[l] # NoLayer => parent[l] \in Layer /\ X(l) \in Int /\ Scrolled(l) \in Int
  BY <1>1
<1>3. g \in [Layer \X Int -> Int]
  <2> HIDE DEF X, Scrolled
  <2> QED BY <1>2
<1>4. PICK f : Solves(f, Int, d, g)
  <2> HIDE DEF d, g
  <2>1. d \in [Layer -> Int]
    BY DEF d
  <2> QED BY <1>1, <1>3, <2>1, Upward
<1>5. ASSUME NEW l \in Layer
      PROVE  f[l] = IF parent[l] = NoLayer THEN 0 ELSE f[parent[l]] + X(l) - Scrolled(l)
  <2> HIDE DEF X, Scrolled
  <2> QED BY <1>1, <1>4 DEF Solves
<1>6. f = [l \in Layer |->
             IF parent[l] = NoLayer THEN 0
             ELSE LET p == parent[l]
                  IN  f[p] + frame[p].x - IF kind[p] = "scroll" THEN scroll[p] ELSE 0]
  BY <1>4, <1>5 DEF Solves
<1>7. Base = [l \in Layer |->
             IF parent[l] = NoLayer THEN 0
             ELSE LET p == parent[l]
                  IN  Base[p] + frame[p].x - IF kind[p] = "scroll" THEN scroll[p] ELSE 0]
  BY <1>6, Zenon DEF Base
<1>8. \A l \in Layer : Base[l] \in Int
  <2> DEFINE T == {l \in Layer : Base[l] \notin Int}
  <2> SUFFICES ASSUME T # {} PROVE FALSE
    OBVIOUS
  <2>1. PICK l \in T : parent[l] \notin T
    BY DEF Acyclic
  <2>2. Base[l] = IF parent[l] = NoLayer THEN 0 ELSE Base[parent[l]] + X(l) - Scrolled(l)
    BY <1>7
  <2> HIDE DEF X, Scrolled
  <2> QED BY <1>1, <1>2, <2>1, <2>2
<1> QED BY <1>7, <1>8 DEF BasesComputed

\* The flags that a layer has when those above it have them.
FlagsComputed ==
  \A l \in Layer :
    /\ Visited[l] <=> NeedsPainting(l) /\ (parent[l] # NoLayer => Visited[parent[l]])
    /\ Clean[l] <=> mask[l] = {} /\ (parent[l] # NoLayer => Clean[parent[l]])
    /\ LaidOut[l] <=> "layout" \in mask[l] \/ (parent[l] # NoLayer /\ LaidOut[parent[l]])

\* A flag of a layer and of all above it, or of one of them.
LEMMA UpwardFlag ==
  ASSUME parent \in [Layer -> Layer \cup {NoLayer}], Acyclic, NEW own \in [Layer -> BOOLEAN]
  PROVE  /\ \E f : f = [l \in Layer |-> own[l] /\ (parent[l] # NoLayer => f[parent[l]])]
         /\ \E f : f = [l \in Layer |-> own[l] \/ (parent[l] # NoLayer /\ f[parent[l]])]
<1> DEFINE g == [p \in Layer \X BOOLEAN |-> own[p[1]] /\ p[2]]
           h == [p \in Layer \X BOOLEAN |-> own[p[1]] \/ p[2]]
<1>1. g \in [Layer \X BOOLEAN -> BOOLEAN] /\ h \in [Layer \X BOOLEAN -> BOOLEAN]
  OBVIOUS
<1>2. PICK f : Solves(f, BOOLEAN, own, g)
  <2> HIDE DEF g
  <2> QED BY <1>1, Upward
<1>3. PICK e : Solves(e, BOOLEAN, own, h)
  <2> HIDE DEF h
  <2> QED BY <1>1, Upward
<1>4. ASSUME NEW l \in Layer
      PROVE  /\ f[l] = (own[l] /\ (parent[l] # NoLayer => f[parent[l]]))
             /\ e[l] = (own[l] \/ (parent[l] # NoLayer /\ e[parent[l]]))
  <2>1. CASE parent[l] = NoLayer
    <3>1. f[l] = own[l] /\ e[l] = own[l] /\ own[l] \in BOOLEAN
      BY <1>2, <1>3, <2>1 DEF Solves
    <3> QED BY <2>1, <3>1, Zenon
  <2>2. CASE parent[l] # NoLayer
    <3>1. parent[l] \in Layer /\ f[parent[l]] \in BOOLEAN /\ e[parent[l]] \in BOOLEAN
      BY <1>2, <1>3, <2>2 DEF Solves
    <3>2. f[l] = g[<<l, f[parent[l]]>>] /\ e[l] = h[<<l, e[parent[l]]>>]
      BY <1>2, <1>3, <2>2 DEF Solves
    <3> QED BY <2>2, <3>1, <3>2
  <2> QED BY <2>1, <2>2
<1>5. /\ f = [l \in Layer |-> own[l] /\ (parent[l] # NoLayer => f[parent[l]])]
      /\ e = [l \in Layer |-> own[l] \/ (parent[l] # NoLayer /\ e[parent[l]])]
  <2> HIDE DEF g, h
  <2>1. f = [l \in Layer |-> f[l]] /\ e = [l \in Layer |-> e[l]]
    BY <1>2, <1>3 DEF Solves
  <2> QED BY <1>4, <2>1
<1> QED BY <1>5

\* Visited, Clean and LaidOut are computed upwards.
LEMMA Flags == TreeTypeOK /\ Acyclic => FlagsComputed
<1> SUFFICES ASSUME TreeTypeOK, Acyclic PROVE FlagsComputed
  OBVIOUS
<1>0. parent \in [Layer -> Layer \cup {NoLayer}]
  BY DEF TreeTypeOK
<1>1. Visited = [l \in Layer |-> NeedsPainting(l) /\ (parent[l] # NoLayer => Visited[parent[l]])]
  <2> DEFINE own == [l \in Layer |-> NeedsPainting(l)]
  <2>1. own \in [Layer -> BOOLEAN]
    BY DEF NeedsPainting
  <2>2. \A l \in Layer : own[l] <=> NeedsPainting(l)
    BY DEF NeedsPainting
  <2> HIDE DEF own
  <2>3. PICK f : f = [l \in Layer |-> own[l] /\ (parent[l] # NoLayer => f[parent[l]])]
    BY <1>0, <2>1, UpwardFlag
  <2>4. f = [l \in Layer |-> NeedsPainting(l) /\ (parent[l] # NoLayer => f[parent[l]])]
    BY <2>2, <2>3
  <2> QED BY <2>4, Zenon DEF Visited
<1>2. Clean = [l \in Layer |-> mask[l] = {} /\ (parent[l] # NoLayer => Clean[parent[l]])]
  <2> DEFINE own == [l \in Layer |-> mask[l] = {}]
  <2>1. own \in [Layer -> BOOLEAN]
    OBVIOUS
  <2>2. \A l \in Layer : own[l] <=> mask[l] = {}
    OBVIOUS
  <2> HIDE DEF own
  <2>3. PICK f : f = [l \in Layer |-> own[l] /\ (parent[l] # NoLayer => f[parent[l]])]
    BY <1>0, <2>1, UpwardFlag
  <2>4. f = [l \in Layer |-> mask[l] = {} /\ (parent[l] # NoLayer => f[parent[l]])]
    BY <2>2, <2>3
  <2> QED BY <2>4, Zenon DEF Clean
<1>3. LaidOut = [l \in Layer |-> "layout" \in mask[l] \/ (parent[l] # NoLayer /\ LaidOut[parent[l]])]
  <2> DEFINE own == [l \in Layer |-> "layout" \in mask[l]]
  <2>1. own \in [Layer -> BOOLEAN]
    OBVIOUS
  <2>2. \A l \in Layer : own[l] <=> "layout" \in mask[l]
    OBVIOUS
  <2> HIDE DEF own
  <2>3. PICK f : f = [l \in Layer |-> own[l] \/ (parent[l] # NoLayer /\ f[parent[l]])]
    BY <1>0, <2>1, UpwardFlag
  <2>4. f = [l \in Layer |-> "layout" \in mask[l] \/ (parent[l] # NoLayer /\ f[parent[l]])]
    BY <2>2, <2>3
  <2> QED BY <2>4, Zenon DEF LaidOut
<1> QED BY <1>1, <1>2, <1>3 DEF FlagsComputed

\* The sets of tiles and of layers that a layer has from those above it.
SetsComputed ==
  \A l \in Layer :
    /\ Region[l] = Shift(bounds[l], ScrollOffset[l])
                     \cap IF parent[l] = NoLayer THEN Surface ELSE Region[parent[l]]
    /\ Above[l] = {l} \cup IF parent[l] = NoLayer THEN {} ELSE Above[parent[l]]
    /\ \A frames \in [Layer -> SUBSET Int] :
         ClipTo(frames)[l] =
           IF parent[l] = NoLayer THEN Surface
           ELSE IF Clips(parent[l]) THEN ClipTo(frames)[parent[l]] \cap frames[parent[l]]
           ELSE ClipTo(frames)[parent[l]]

\* Region, Above and the clip are computed upwards.
LEMMA Sets == TreeTypeOK /\ GeometryOK /\ Acyclic => SetsComputed
<1> SUFFICES ASSUME TreeTypeOK, GeometryOK, Acyclic PROVE SetsComputed
  OBVIOUS
<1>0. parent \in [Layer -> Layer \cup {NoLayer}] /\ Surface \in SUBSET Int
  BY LayerTreeAssumption DEF TreeTypeOK, Surface
<1>1. Region = [l \in Layer |->
                  Shift(bounds[l], ScrollOffset[l])
                    \cap IF parent[l] = NoLayer THEN Surface ELSE Region[parent[l]]]
  <2> DEFINE own == [l \in Layer |-> Shift(bounds[l], ScrollOffset[l])]
             d == [l \in Layer |-> own[l] \cap Surface]
             g == [p \in Layer \X SUBSET Int |-> own[p[1]] \cap p[2]]
  <2>1. own \in [Layer -> SUBSET Int]
    <3>1. OffsetsComputed
      BY Offsets
    <3> QED BY <3>1 DEF OffsetsComputed, GeometryOK, Shift
  <2>2. \A l \in Layer : own[l] = Shift(bounds[l], ScrollOffset[l])
    OBVIOUS
  <2> HIDE DEF own
  <2>3. d \in [Layer -> SUBSET Int] /\ g \in [Layer \X SUBSET Int -> SUBSET Int]
    BY <2>1
  <2>4. PICK f : Solves(f, SUBSET Int, d, g)
    <3> HIDE DEF d, g
    <3> QED BY <1>0, <2>3, Upward
  <2>5. f = [l \in Layer |-> own[l] \cap IF parent[l] = NoLayer THEN Surface ELSE f[parent[l]]]
    <3>1. f = [l \in Layer |-> f[l]]
      BY <2>4 DEF Solves
    <3>2. ASSUME NEW l \in Layer
          PROVE  f[l] = own[l] \cap IF parent[l] = NoLayer THEN Surface ELSE f[parent[l]]
      <4>1. CASE parent[l] = NoLayer
        BY <2>4, <4>1 DEF Solves
      <4>2. CASE parent[l] # NoLayer
        <5>1. parent[l] \in Layer /\ f[parent[l]] \in SUBSET Int /\ f[l] = g[<<l, f[parent[l]]>>]
          BY <1>0, <2>4, <4>2 DEF Solves
        <5> QED BY <4>2, <5>1
      <4> QED BY <4>1, <4>2
    <3> QED BY <3>1, <3>2, Zenon
  <2>6. f = [l \in Layer |-> Shift(bounds[l], ScrollOffset[l])
                    \cap IF parent[l] = NoLayer THEN Surface ELSE f[parent[l]]]
    BY <2>2, <2>5
  <2> QED BY <2>6, Zenon DEF Region
<1>2. Above = [l \in Layer |-> {l} \cup IF parent[l] = NoLayer THEN {} ELSE Above[parent[l]]]
  <2> DEFINE d == [l \in Layer |-> {l}]
             g == [p \in Layer \X SUBSET Layer |-> {p[1]} \cup p[2]]
  <2>1. d \in [Layer -> SUBSET Layer] /\ g \in [Layer \X SUBSET Layer -> SUBSET Layer]
    OBVIOUS
  <2>2. PICK f : Solves(f, SUBSET Layer, d, g)
    <3> HIDE DEF d, g
    <3> QED BY <1>0, <2>1, Upward
  <2>3. f = [l \in Layer |-> {l} \cup IF parent[l] = NoLayer THEN {} ELSE f[parent[l]]]
    <3>1. f = [l \in Layer |-> f[l]]
      BY <2>2 DEF Solves
    <3>2. ASSUME NEW l \in Layer
          PROVE  f[l] = {l} \cup IF parent[l] = NoLayer THEN {} ELSE f[parent[l]]
      <4>1. CASE parent[l] = NoLayer
        BY <2>2, <4>1 DEF Solves
      <4>2. CASE parent[l] # NoLayer
        <5>1. parent[l] \in Layer /\ f[parent[l]] \in SUBSET Layer /\ f[l] = g[<<l, f[parent[l]]>>]
          BY <1>0, <2>2, <4>2 DEF Solves
        <5> QED BY <4>2, <5>1
      <4> QED BY <4>1, <4>2
    <3> QED BY <3>1, <3>2, Zenon
  <2> QED BY <2>3, Zenon DEF Above
<1>3. ASSUME NEW frames \in [Layer -> SUBSET Int]
      PROVE  \A l \in Layer :
               ClipTo(frames)[l] =
                 IF parent[l] = NoLayer THEN Surface
                 ELSE IF Clips(parent[l]) THEN ClipTo(frames)[parent[l]] \cap frames[parent[l]]
                 ELSE ClipTo(frames)[parent[l]]
  <2> DEFINE clip[l \in Layer] ==
               IF parent[l] = NoLayer THEN Surface
               ELSE IF Clips(parent[l]) THEN clip[parent[l]] \cap frames[parent[l]]
               ELSE clip[parent[l]]
             d == [l \in Layer |-> Surface]
             g == [p \in Layer \X SUBSET Int |->
                     IF parent[p[1]] \in Layer /\ Clips(parent[p[1]])
                     THEN p[2] \cap frames[parent[p[1]]] ELSE p[2]]
  <2>1. d \in [Layer -> SUBSET Int] /\ g \in [Layer \X SUBSET Int -> SUBSET Int]
    BY <1>0
  <2>2. ClipTo(frames) = clip
    BY DEF ClipTo
  <2>3. PICK f : Solves(f, SUBSET Int, d, g)
    <3> HIDE DEF d, g, clip
    <3> QED BY <1>0, <2>1, Upward
  <2>4. f = [l \in Layer |-> IF parent[l] = NoLayer THEN Surface
                             ELSE IF Clips(parent[l]) THEN f[parent[l]] \cap frames[parent[l]]
                             ELSE f[parent[l]]]
    <3> HIDE DEF clip
    <3>1. f = [l \in Layer |-> f[l]]
      BY <2>3 DEF Solves
    <3>2. ASSUME NEW l \in Layer
          PROVE  f[l] = IF parent[l] = NoLayer THEN Surface
                        ELSE IF Clips(parent[l]) THEN f[parent[l]] \cap frames[parent[l]]
                        ELSE f[parent[l]]
      <4>1. CASE parent[l] = NoLayer
        BY <2>3, <4>1 DEF Solves
      <4>2. CASE parent[l] # NoLayer
        <5>1. parent[l] \in Layer /\ f[parent[l]] \in SUBSET Int /\ f[l] = g[<<l, f[parent[l]]>>]
          BY <1>0, <2>3, <4>2 DEF Solves
        <5> QED BY <4>2, <5>1
      <4> QED BY <4>1, <4>2
    <3> QED BY <3>1, <3>2, Zenon
  <2>5. clip = [l \in Layer |-> IF parent[l] = NoLayer THEN Surface
                             ELSE IF Clips(parent[l]) THEN clip[parent[l]] \cap frames[parent[l]]
                             ELSE clip[parent[l]]]
    BY <2>4, Zenon DEF clip
  <2> HIDE DEF clip
  <2> QED BY <2>2, <2>5
<1> QED
  <2>1. \A l \in Layer :
          /\ Region[l] = Shift(bounds[l], ScrollOffset[l])
                     \cap IF parent[l] = NoLayer THEN Surface ELSE Region[parent[l]]
          /\ Above[l] = {l} \cup IF parent[l] = NoLayer THEN {} ELSE Above[parent[l]]
    BY <1>1, <1>2, Zenon
  <2> QED BY <1>3, <2>1, Zenon DEF SetsComputed

\* What calculateTransformMatrix computes.
OriginsComputed ==
  /\ NewOrigin \in [Layer -> Int]
  /\ \A l \in Layer :
       NewOrigin[l] = IF ~LaidOut[l] THEN origin[l]
                      ELSE IF parent[l] = NoLayer \/ Skips(l) THEN 0
                      ELSE NewOrigin[parent[l]] + frame[parent[l]].x

\* NewOrigin is computed upwards.
LEMMA Origins == TreeTypeOK /\ GeometryOK /\ Acyclic => OriginsComputed
<1> SUFFICES ASSUME TreeTypeOK, GeometryOK, Acyclic PROVE OriginsComputed
  OBVIOUS
<1> DEFINE d == [l \in Layer |-> IF ~LaidOut[l] THEN origin[l] ELSE 0]
           g == [p \in Layer \X Int |->
                   IF parent[p[1]] = NoLayer THEN 0
                   ELSE IF ~LaidOut[p[1]] THEN origin[p[1]]
                   ELSE IF Skips(p[1]) THEN 0 ELSE p[2] + frame[parent[p[1]]].x]
<1>1. /\ parent \in [Layer -> Layer \cup {NoLayer}]
      /\ \A l \in Layer : frame[l].x \in Int /\ origin[l] \in Int
  BY DEF TreeTypeOK, GeometryOK
<1>2. d \in [Layer -> Int] /\ g \in [Layer \X Int -> Int]
  BY <1>1
<1>3. PICK f : Solves(f, Int, d, g)
  <2> HIDE DEF d, g
  <2> QED BY <1>1, <1>2, Upward
<1>4. ASSUME NEW l \in Layer
      PROVE  f[l] = IF ~LaidOut[l] THEN origin[l]
                    ELSE IF parent[l] = NoLayer \/ Skips(l) THEN 0
                    ELSE f[parent[l]] + frame[parent[l]].x
  <2>1. CASE parent[l] = NoLayer
    BY <1>3, <2>1 DEF Solves
  <2>2. CASE parent[l] # NoLayer
    <3>1. parent[l] \in Layer /\ f[parent[l]] \in Int /\ f[l] = g[<<l, f[parent[l]]>>]
      BY <1>1, <1>3, <2>2 DEF Solves
    <3> QED BY <2>2, <3>1
  <2> QED BY <2>1, <2>2
<1>5. f = [l \in Layer |-> IF ~LaidOut[l] THEN origin[l]
                           ELSE IF parent[l] = NoLayer \/ Skips(l) THEN 0
                           ELSE f[parent[l]] + frame[parent[l]].x]
  <2>1. f = [l \in Layer |-> f[l]]
    BY <1>3 DEF Solves
  <2> HIDE DEF d, g
  <2> QED BY <1>4, <2>1
<1>6. NewOrigin = [l \in Layer |-> IF ~LaidOut[l] THEN origin[l]
                           ELSE IF parent[l] = NoLayer \/ Skips(l) THEN 0
                           ELSE NewOrigin[parent[l]] + frame[parent[l]].x]
  BY <1>5, Zenon DEF NewOrigin
<1>7. \A l \in Layer : NewOrigin[l] \in Int
  <2> DEFINE T == {l \in Layer : NewOrigin[l] \notin Int}
  <2> SUFFICES ASSUME T # {} PROVE FALSE
    OBVIOUS
  <2>1. PICK l \in T : parent[l] \notin T
    BY DEF Acyclic
  <2>2. NewOrigin[l] = IF ~LaidOut[l] THEN origin[l]
                           ELSE IF parent[l] = NoLayer \/ Skips(l) THEN 0
                           ELSE NewOrigin[parent[l]] + frame[parent[l]].x
    BY <1>6
  <2> QED BY <1>1, <2>1, <2>2
<1> QED BY <1>6, <1>7 DEF OriginsComputed

\* The damage that prePaint collects.
DamageComputed ==
  /\ \A l \in Layer : Damage[l] \in SUBSET Int
  /\ \A l \in Layer :
       LET below == UNION {Damage[c] : c \in Children(l)}
       IN  Damage[l] =
             PreRollDamage(l) \cup
             IF kind[l] # "scroll" THEN below
             ELSE IF mask[l] # {} THEN {}
             ELSE Shift(pending[l] \cup below, ScrollShift(l, NewOrigin[l] + frame[l].x))
                    \cap NewBounds(l)

\* The way down from a layer ends.
Founded == \A S \in SUBSET Layer : S # {} => \E l \in S : Children(l) \cap S = {}

\* Damage is computed downwards.
LEMMA Damages == TreeTypeOK /\ GeometryOK /\ Acyclic /\ Founded => DamageComputed
<1> SUFFICES ASSUME TreeTypeOK, GeometryOK, Acyclic, Founded PROVE DamageComputed
  OBVIOUS
<1> DEFINE shift(l) == ScrollShift(l, NewOrigin[l] + frame[l].x)
           Add(l, below) == PreRollDamage(l) \cup
                              IF kind[l] # "scroll" THEN below
                              ELSE IF mask[l] # {} THEN {}
                              ELSE Shift(pending[l] \cup below, shift(l)) \cap NewBounds(l)
           kids == [l \in Layer |-> Children(l)]
           h == [p \in Layer \X SUBSET Int |-> Add(p[1], p[2])]
<1>1. OriginsComputed
  BY Origins
<1>2. /\ frame \in [Layer -> [x : Nat, w : Nat \ {0}]] /\ scroll \in [Layer -> Int]
      /\ bounds \in [Layer -> SUBSET Int] /\ pending \in [Layer -> SUBSET Int]
      /\ NewOrigin \in [Layer -> Int] /\ children \in [Layer -> Seq(View)]
  BY <1>1 DEF TreeTypeOK, GeometryOK, OriginsComputed
<1>3. \A l \in Layer : shift(l) \in Int
  BY <1>2 DEF ScrollShift
<1>4. \A l \in Layer : NewBounds(l) \in SUBSET Int
  <2>1. \A l \in Layer : Shift(Extent(frame[l]), NewOrigin[l]) \in SUBSET Int
    BY <1>2 DEF Shift, Extent
  <2> QED BY <1>2, <2>1 DEF NewBounds
<1>5. \A l \in Layer : PreRollDamage(l) \in SUBSET Int
  BY <1>2, <1>4 DEF PreRollDamage
<1>6. \A l \in Layer, A \in SUBSET Int : Add(l, A) \in SUBSET Int
  BY <1>2, <1>4, <1>5
<1>7. h \in [Layer \X SUBSET Int -> SUBSET Int]
  <2> HIDE DEF Add
  <2> QED BY <1>6
<1>8. Grows(h, Layer, Int)
  <2>1. ASSUME NEW l \in Layer, NEW A \in SUBSET Int, NEW B \in SUBSET Int, A \subseteq B
        PROVE  Add(l, A) \subseteq Add(l, B)
    <3>1. Shift(pending[l] \cup A, shift(l)) \subseteq Shift(pending[l] \cup B, shift(l))
      <4> HIDE DEF shift
      <4> QED BY <2>1 DEF Shift
    <3> HIDE DEF shift
    <3> QED BY <2>1, <3>1
  <2>2. \A l \in Layer, A \in SUBSET Int : h[<<l, A>>] = Add(l, A)
    OBVIOUS
  <2> HIDE DEF h, Add
  <2> QED BY <2>1, <2>2 DEF Grows
<1>9. kids \in [Layer -> SUBSET Layer]
  <2>1. \A l \in Layer : Children(l) \in SUBSET Layer
    BY <1>2, ListsOfViews DEF Children, Layer
  <2> QED BY <2>1
<1>10. PICK f : IsDownward(f, Layer, Int, kids, h)
  <2> HIDE DEF kids, h
  <2> QED BY <1>7, <1>8, <1>9, DownwardRecursion
<1>11. f = [l \in Layer |-> Add(l, UNION {f[c] : c \in Children(l)})]
  <2>1. f = [l \in Layer |-> f[l]]
    BY <1>10 DEF IsDownward
  <2>2. ASSUME NEW l \in Layer PROVE f[l] = Add(l, UNION {f[c] : c \in Children(l)})
    <3> HIDE DEF Add
    <3>1. \A c \in Children(l) : f[c] \in SUBSET Int
      BY <1>9, <1>10 DEF IsDownward
    <3>2. UNION {f[c] : c \in Children(l)} \in SUBSET Int
      BY <3>1
    <3>3. kids[l] = Children(l)
      OBVIOUS
    <3>4. f[l] = h[<<l, UNION {f[c] : c \in Children(l)}>>]
      <4> HIDE DEF h, kids
      <4> QED BY <1>10, <3>3 DEF IsDownward
    <3> QED BY <3>2, <3>4
  <2> HIDE DEF Add
  <2> QED BY <2>1, <2>2, Zenon
<1>12. f = [l \in Layer |->
              LET below == UNION {f[c] : c \in Children(l)}
              IN  PreRollDamage(l) \cup
                  IF kind[l] # "scroll" THEN below
                  ELSE IF mask[l] # {} THEN {}
                  ELSE Shift(pending[l] \cup below, ScrollShift(l, NewOrigin[l] + frame[l].x))
                         \cap NewBounds(l)]
  BY <1>11, Zenon
<1>13. Damage = [l \in Layer |->
              LET below == UNION {Damage[c] : c \in Children(l)}
              IN  PreRollDamage(l) \cup
                  IF kind[l] # "scroll" THEN below
                  ELSE IF mask[l] # {} THEN {}
                  ELSE Shift(pending[l] \cup below, ScrollShift(l, NewOrigin[l] + frame[l].x))
                         \cap NewBounds(l)]
  BY <1>12, Zenon DEF Damage
<1>14. \A l \in Layer : Damage[l] = Add(l, UNION {Damage[c] : c \in Children(l)})
  BY <1>13, Zenon
<1>15. \A l \in Layer : Damage[l] \in SUBSET Int
  <2> DEFINE T == {l \in Layer : Damage[l] \notin SUBSET Int}
  <2> SUFFICES ASSUME T # {} PROVE FALSE
    OBVIOUS
  <2>1. PICK l \in T : Children(l) \cap T = {}
    BY DEF Founded
  <2>2. \A c \in Children(l) : Damage[c] \in SUBSET Int
    BY <1>2, <2>1, ListsOfViews DEF Children, Layer
  <2>3. UNION {Damage[c] : c \in Children(l)} \in SUBSET Int
    BY <2>2
  <2> HIDE DEF Add
  <2> QED BY <1>6, <1>14, <2>1, <2>3
<1> QED BY <1>13, <1>15, Zenon DEF DamageComputed

-----------------------------------------------------------------------------
(* Where the views belong, and how transactions change it.                 *)

\* What is assumed: views keep their parent, and a child sticks out of no parent that
\* does not clip it.
InPlace == Moves # "reparent" /\ Overflow = FALSE

\* A view belongs below one other, its layer is in that list or in none, and a view
\* from which another was removed is still known.
HomesKept ==
  /\ \A v \in View, p, q \in Layer : Home(v, p) /\ Home(v, q) => p = q
  /\ \A v \in View, p \in Layer : Home(v, p) => parent[v] = p \/ parent[v] = NoLayer
  /\ \A r \in removed : r[2] \in Known

TreeEnds == Acyclic /\ Founded

\* The root is in no list.
LEMMA RootAtTop == TreeInv => parent[Root] = NoLayer /\ Root \in Layer
<1> SUFFICES ASSUME TreeInv, parent[Root] # NoLayer PROVE FALSE
  BY DEF Layer
<1>1. /\ LinksConsistent /\ children \in [Layer -> Seq(View)] /\ Root \in Layer
      /\ parent \in [Layer -> Layer \cup {NoLayer}]
  BY DEF TreeInv, TreeTypeOK, Layer
<1>2. parent[Root] \in Layer
  BY <1>1
<1>3. Root \in ToSet(children[parent[Root]])
  BY <1>1, <1>2 DEF LinksConsistent, Children
<1>4. Root \in View
  BY <1>1, <1>2, <1>3, ListsOfViews
<1> QED BY <1>4, LayerTreeAssumption

\* The layers in lists and the order of a list after insertChild.
LEMMA InsertLists ==
  ASSUME TreeInv, NEW v \in View, NEW p \in Layer, NEW i \in Nat, InsertChild(p, v, i)
  PROVE  /\ \A q \in Layer : ToSet(children'[q]) =
              (ToSet(children[q]) \ {v}) \cup (IF q = p THEN {v} ELSE {})
         /\ \A q \in Layer : \A x, y : x # v /\ y # v =>
              (InOrder(children'[q], x, y) <=> InOrder(children[q], x, y))
<1> DEFINE rest == IF parent[v] = NoLayer THEN children
                   ELSE [children EXCEPT ![parent[v]] = Without(@, {v})]
           at == IF i < Len(rest[p]) THEN i ELSE Len(rest[p])
           list == InsertAt(rest[p], at + 1, v)
<1>0. /\ LinksConsistent /\ children \in [Layer -> Seq(View)]
      /\ parent \in [Layer -> Layer \cup {NoLayer}] /\ v \in Layer /\ NoLayer \notin Layer
  BY LayerTreeAssumption DEF TreeInv, TreeTypeOK, Layer
<1>1. /\ rest \in [Layer -> Seq(View)]
      /\ \A l \in Layer : /\ ToSet(rest[l]) = ToSet(children[l]) \ {v}
                          /\ \A x, y : x # v /\ y # v =>
                               (InOrder(rest[l], x, y) <=> InOrder(children[l], x, y))
  <2>0. \A l \in Layer : /\ children[l] \in Seq(View)
                         /\ v \in ToSet(children[l]) <=> parent[v] = l
    BY <1>0, ListsOfViews DEF LinksConsistent, Children
  <2>1. CASE parent[v] = NoLayer
    BY <1>0, <2>0, <2>1
  <2>2. CASE parent[v] # NoLayer
    <3> DEFINE short == Without(children[parent[v]], {v})
    <3>1. parent[v] \in Layer
      BY <1>0, <2>2
    <3>2. /\ short \in Seq(View) /\ ToSet(short) = ToSet(children[parent[v]]) \ {v}
          /\ \A x, y : x # v /\ y # v =>
               (InOrder(short, x, y) <=> InOrder(children[parent[v]], x, y))
      BY <2>0, <3>1, WithoutViews
    <3>3. rest = [children EXCEPT ![parent[v]] = short]
      BY <2>2
    <3> HIDE DEF short, rest
    <3>4. rest \in [Layer -> Seq(View)]
      BY <1>0, <3>1, <3>2, <3>3
    <3>5. \A l \in Layer : rest[l] = IF l = parent[v] THEN short ELSE children[l]
      BY <1>0, <3>1, <3>3
    <3>6. \A l \in Layer : l # parent[v] => ToSet(children[l]) = ToSet(children[l]) \ {v}
      BY <2>0
    <3> QED BY <3>2, <3>4, <3>5, <3>6
  <2> QED BY <2>1, <2>2
<1>2. /\ list \in Seq(View) /\ ToSet(list) = ToSet(rest[p]) \cup {v}
      /\ \A x, y : x # v /\ y # v => (InOrder(list, x, y) <=> InOrder(rest[p], x, y))
  <2> HIDE DEF rest
  <2>1. rest[p] \in Seq(View) /\ Len(rest[p]) \in Nat
    BY <1>1, LenProperties
  <2>2. at \in 0..Len(rest[p])
    BY <2>1
  <2> HIDE DEF at
  <2> QED BY <2>1, <2>2, Inserted
<1>3. children' = [rest EXCEPT ![p] = list]
  BY DEF InsertChild
<1> HIDE DEF rest, list
<1>4. \A q \in Layer : children'[q] = IF q = p THEN list ELSE rest[q]
  BY <1>1, <1>3
<1>5. ASSUME NEW q \in Layer
      PROVE  /\ ToSet(children'[q]) = (ToSet(children[q]) \ {v}) \cup (IF q = p THEN {v} ELSE {})
             /\ \A x, y : x # v /\ y # v =>
                  (InOrder(children'[q], x, y) <=> InOrder(children[q], x, y))
  <2>1. CASE q = p
    BY <1>1, <1>2, <1>4, <2>1
  <2>2. CASE q # p
    BY <1>1, <1>4, <2>2
  <2> QED BY <2>1, <2>2
<1> QED BY <1>5

\* An insertion keeps the homes and the ends of the tree.
LEMMA InsertHomes ==
  ASSUME TreeInv, HomesKept, TreeEnds,
         NEW v \in View, NEW p \in Mounted, NEW i \in 0..Len(mounted[p]), ~Placed(v),
         PlaceFor(v, p, i), InsertChild(p, v, i), removed' = removed,
         \A q \in Layer : <<v, q>> \in removed => q = p
  PROVE  HomesKept' /\ TreeEnds'
<1>0. /\ TreeTypeOK /\ LinksConsistent /\ MountedOnce /\ MountedLinked /\ Acyclic /\ Founded
      /\ parent \in [Layer -> Layer \cup {NoLayer}] /\ children \in [Layer -> Seq(View)]
      /\ mounted \in [Layer -> Seq(View)] /\ removed \subseteq View \X Layer
  BY DEF TreeInv, TreeTypeOK, TreeEnds
<1>1. /\ p \in Layer /\ p # v /\ (p = Root \/ Placed(p))
      /\ \A q \in Layer : ToSet(mounted'[q]) = ToSet(mounted[q]) \cup (IF q = p THEN {v} ELSE {})
      /\ parent' = [parent EXCEPT ![v] = p]
  BY InsertLinks
<1>2. i \in Nat /\ v \in Layer /\ NoLayer \notin Layer /\ v # Root
  BY LayerTreeAssumption DEF Layer
<1>3. \A q \in Layer : ToSet(children'[q]) =
              (ToSet(children[q]) \ {v}) \cup (IF q = p THEN {v} ELSE {})
  BY <1>1, <1>2, InsertLists
<1>4. \A l \in Layer : parent'[l] = IF l = v THEN p ELSE parent[l]
  BY <1>0, <1>1, <1>2
<1>5. \A u \in View, q \in Layer : Home(u, q)' <=> Home(u, q) \/ (u = v /\ q = p)
  BY <1>1 DEF Home
<1>6. \A q \in Layer : Home(v, q) => q = p
  BY DEF Home, Placed
<1>7. HomesKept'
  <2>1. \A u \in View, q, r \in Layer : Home(u, q)' /\ Home(u, r)' => q = r
    BY <1>5, <1>6 DEF HomesKept
  <2>2. \A u \in View, q \in Layer : Home(u, q)' => parent'[u] = q \/ parent'[u] = NoLayer
    <3> SUFFICES ASSUME NEW u \in View, NEW q \in Layer, Home(u, q)'
                 PROVE  parent'[u] = q \/ parent'[u] = NoLayer
      OBVIOUS
    <3>1. u \in Layer
      BY DEF Layer
    <3>2. CASE u = v
      BY <1>4, <1>5, <1>6, <3>1, <3>2
    <3>3. CASE u # v
      BY <1>4, <1>5, <3>1, <3>3 DEF HomesKept
    <3> QED BY <3>2, <3>3
  <2>3. \A r \in removed' : r[2] \in Known'
    <3>1. \A q \in Layer : Placed(q) => Placed(q)'
      BY <1>1 DEF Placed
    <3>2. Known \subseteq Known'
      BY <3>1 DEF Known
    <3> QED BY <3>2 DEF HomesKept
  <2> QED BY <2>1, <2>2, <2>3 DEF HomesKept
<1>m. Mounted \in SUBSET Layer
  BY <1>0, MountedIsLeast
<1>u. v \notin Mounted
  BY <1>0, <1>2, MountedInList
<1>8. Acyclic'
  <2> SUFFICES ASSUME NEW S \in SUBSET Layer, S # {}, \A l \in S : parent'[l] \in S PROVE FALSE
    BY DEF Acyclic
  <2>1. CASE v \notin S
    <3>1. \A l \in S : parent[l] \in S
      BY <1>4, <2>1
    <3> QED BY <1>0, <3>1 DEF Acyclic
  <2>2. CASE v \in S
    <3> DEFINE T == S \cap Mounted
    <3>1. p \in T
      BY <1>2, <1>4, <2>2
    <3>2. ASSUME NEW l \in T PROVE parent[l] \in T
      <4>1. l \in Layer /\ l # v /\ parent[l] \in S
        BY <1>4, <1>u, <3>2
      <4>2. l # Root
        BY <1>2, <4>1, RootAtTop
      <4>3. l \in View /\ Placed(l) /\ \A q \in Layer : l \in ToSet(mounted[q]) => q \in Mounted
        BY <1>0, <3>2, <4>2, MountedInList
      <4> QED BY <1>0, <1>2, <4>1, <4>3 DEF MountedLinked, Placed
    <3>3. T \in SUBSET Layer
      BY <1>m
    <3> QED BY <1>0, <3>1, <3>2, <3>3 DEF Acyclic
  <2> QED BY <2>1, <2>2
<1>9. Founded'
  <2> DEFINE U == Layer \ Mounted
  <2>1. ASSUME NEW x \in U PROVE Children(x) \subseteq U
    <3> SUFFICES ASSUME NEW c \in Children(x), c \in Mounted PROVE FALSE
      BY <1>0, ListsOfViews DEF Children, Layer
    <3>1. c \in View /\ parent[c] = x /\ c # Root
      BY <1>0, <2>1, ListsOfViews, LayerTreeAssumption DEF Children, LinksConsistent, Layer
    <3>2. Placed(c) /\ \A q \in Layer : c \in ToSet(mounted[q]) => q \in Mounted
      BY <1>0, <3>1, MountedInList
    <3> QED BY <1>0, <1>2, <2>1, <3>1, <3>2 DEF MountedLinked, Placed
  <2>2. ASSUME NEW S \in SUBSET Layer, S # {}
        PROVE  \E l \in S : Children(l)' \cap S = {}
    <3>1. CASE S \cap U # {}
      <4>1. PICK l \in S \cap U : Children(l) \cap (S \cap U) = {}
        BY <1>0, <3>1 DEF Founded
      <4>2. Children(l)' \subseteq Children(l)
        BY <1>3, <4>1 DEF Children
      <4> QED BY <2>1, <4>1, <4>2
    <3>2. CASE S \cap U = {}
      <4>1. v \notin S
        BY <1>2, <1>u, <3>2
      <4>2. PICK l \in S : Children(l) \cap S = {}
        BY <1>0, <2>2 DEF Founded
      <4> QED BY <1>3, <4>1, <4>2 DEF Children
    <3> QED BY <3>1, <3>2
  <2> QED BY <2>2 DEF Founded
<1> QED BY <1>7, <1>8, <1>9 DEF TreeEnds

\* A removal keeps them.
LEMMA RemoveHomes ==
  ASSUME TreeInv, HomesKept, TreeEnds, NEW v \in Mounted \ {Root}, RemoveView(v)
  PROVE  /\ HomesKept' /\ TreeEnds'
         /\ \A u \in View, q \in Layer : Home(u, q)' <=> Home(u, q)
         /\ \A q \in Layer : ToSet(mounted'[q]) = ToSet(mounted[q]) \ {v}
         /\ \A q \in Layer : mounted[q] = <<>> => mounted'[q] = <<>>
<1> DEFINE p == MountedParent(v)
           list == Without(mounted[p], {v})
<1>0. /\ TreeTypeOK /\ LinksConsistent /\ MountedOnce /\ mounted \in [Layer -> Seq(View)]
      /\ View \subseteq Layer /\ NoLayer \notin Layer /\ removed \subseteq View \X Layer
  BY LayerTreeAssumption DEF TreeInv, TreeTypeOK, Layer
<1>1. v \in View /\ Placed(v) /\ \A q \in Layer : v \in ToSet(mounted[q]) => q \in Mounted
  BY <1>0, MountedInList
<1>2. p \in Layer /\ v \in ToSet(mounted[p])
  BY <1>1 DEF Placed, MountedParent
<1>3. p = Root \/ Placed(p)
  BY <1>0, <1>1, <1>2, MountedInList
<1>4. /\ mounted' = [mounted EXCEPT ![p] = list] /\ removed' = removed \cup {<<v, p>>}
      /\ UNCHANGED <<children, parent>>
  BY DEF RemoveView, treeVars
<1> HIDE DEF p
<1>5. list \in Seq(View) /\ ToSet(list) = ToSet(mounted[p]) \ {v}
  BY <1>0, <1>2, ListsOfViews, WithoutViews
<1> HIDE DEF list
<1>6. \A q \in Layer : mounted'[q] = IF q = p THEN list ELSE mounted[q]
  BY <1>0, <1>2, <1>4
<1>7. \A q \in Layer : ToSet(mounted'[q]) = ToSet(mounted[q]) \ {v}
  <2> SUFFICES ASSUME NEW q \in Layer PROVE ToSet(mounted'[q]) = ToSet(mounted[q]) \ {v}
    OBVIOUS
  <2>1. CASE q = p
    BY <1>5, <1>6, <2>1
  <2>2. CASE q # p
    <3>1. v \notin ToSet(mounted[q])
      BY <1>0, <1>1, <1>2, <2>2 DEF MountedOnce
    <3> QED BY <1>6, <2>2, <3>1
  <2> QED BY <2>1, <2>2
<1>8. \A u \in View, q \in Layer : Home(u, q)' <=> Home(u, q)
  <2> SUFFICES ASSUME NEW u \in View, NEW q \in Layer PROVE Home(u, q)' <=> Home(u, q)
    OBVIOUS
  <2>1. u \in ToSet(mounted'[q]) <=> u \in ToSet(mounted[q]) /\ u # v
    BY <1>7
  <2>2. <<u, q>> \in removed' <=> <<u, q>> \in removed \/ (u = v /\ q = p)
    BY <1>4
  <2>3. v \in ToSet(mounted[q]) => q = p
    BY <1>0, <1>1, <1>2 DEF MountedOnce
  <2> QED BY <1>2, <2>1, <2>2, <2>3 DEF Home
<1>9. HomesKept'
  <2>1. \A r \in removed' : r[2] \in Known'
    <3>1. \A q \in Layer : Placed(q) => Placed(q)' \/ q = v
      BY <1>7 DEF Placed
    <3>2. v \in Known'
      BY <1>0, <1>1, <1>2, <1>4 DEF Known
    <3>3. Known \subseteq Known'
      BY <1>4, <3>1, <3>2 DEF Known
    <3>4. p \in Known
      BY <1>2, <1>3 DEF Known
    <3> QED BY <1>4, <3>3, <3>4 DEF HomesKept
  <2> QED BY <1>4, <1>8, <2>1 DEF HomesKept
<1>10. TreeEnds'
  BY <1>4 DEF TreeEnds, Acyclic, Founded, Children
<1>11. ASSUME NEW q \in Layer, mounted[q] = <<>> PROVE mounted'[q] = <<>>
  <2>1. q # p
    <3>1. DOMAIN <<>> = {}
      OBVIOUS
    <3>2. ToSet(mounted[q]) = {}
      BY <1>11, <3>1, Zenon DEF ToSet
    <3> QED BY <1>2, <3>2
  <2> QED BY <1>6, <1>11, <2>1
<1> QED BY <1>7, <1>8, <1>9, <1>10, <1>11

\* The walks of a frame keep them.
LEMMA PrePaintHomes == TreeInv /\ HomesKept /\ TreeEnds /\ PrePaint => HomesKept' /\ TreeEnds'
<1> SUFFICES ASSUME TreeInv, HomesKept, TreeEnds, PrePaint PROVE HomesKept' /\ TreeEnds'
  OBVIOUS
<1>1. PICK reached, pruned \in SUBSET Layer :
           /\ reached = Reached /\ pruned = {l \in reached : "remove" \in mask[l]}
           /\ children' \in [Layer -> Seq(View)]
           /\ \A l \in Layer :
                /\ IsInjective(children'[l])
                /\ ToSet(children'[l]) = IF l \in reached THEN ToSet(children[l]) \ pruned
                                                          ELSE ToSet(children[l])
                /\ parent'[l] = IF l \in pruned THEN NoLayer ELSE parent[l]
           /\ parent' \in [Layer -> Layer \cup {NoLayer}]
           /\ mask' \in [Layer -> SUBSET {"paint", "layout", "remove"}]
           /\ \A l \in Layer : "remove" \in mask'[l] <=> "remove" \in mask[l]
           /\ UNCHANGED <<mounted, moved, removed>> /\ phase' = "paint"
           /\ \A v \in View : v \notin Mounted => mounted[v] = <<>>
  BY PrePaintLinks
<1>2. NoLayer \notin Layer /\ View \subseteq Layer
  BY LayerTreeAssumption DEF Layer
<1>3. HomesKept'
  <2>1. \A u \in View, q \in Layer : Home(u, q)' <=> Home(u, q)
    BY <1>1 DEF Home
  <2>2. Known' = Known
    BY <1>1 DEF Known, Placed
  <2> QED BY <1>1, <1>2, <2>1, <2>2 DEF HomesKept
<1>4. Acyclic'
  <2> SUFFICES ASSUME NEW S \in SUBSET Layer, S # {} PROVE \E l \in S : parent'[l] \notin S
    BY DEF Acyclic
  <2>1. PICK l \in S : parent[l] \notin S
    BY DEF TreeEnds, Acyclic
  <2>2. parent'[l] \notin S
    BY <1>1, <1>2, <2>1
  <2> QED BY <2>2
<1>5. Founded'
  <2>1. \A l \in Layer : Children(l)' \subseteq Children(l)
    BY <1>1 DEF Children
  <2> SUFFICES ASSUME NEW S \in SUBSET Layer, S # {} PROVE \E l \in S : Children(l)' \cap S = {}
    BY DEF Founded
  <2>2. PICK l \in S : Children(l) \cap S = {}
    BY DEF TreeEnds, Founded
  <2>3. Children(l)' \cap S = {}
    BY <2>1, <2>2
  <2> QED BY <2>3
<1> QED BY <1>3, <1>4, <1>5 DEF TreeEnds

\* The end of a frame forgets what the transaction removed.
LEMMA PaintHomes == TreeInv /\ HomesKept /\ TreeEnds /\ Paint => HomesKept' /\ TreeEnds'
<1> SUFFICES ASSUME TreeInv, HomesKept, TreeEnds, Paint PROVE HomesKept' /\ TreeEnds'
  OBVIOUS
<1>1. UNCHANGED <<mounted, children, parent>> /\ removed' = {}
  BY DEF Paint, treeVars
<1>2. HomesKept'
  <2>1. \A u \in View, q \in Layer : Home(u, q)' => Home(u, q)
    BY <1>1 DEF Home
  <2> QED BY <1>1, <2>1 DEF HomesKept
<1>3. TreeEnds'
  BY <1>1 DEF TreeEnds, Acyclic, Founded, Children
<1> QED BY <1>2, <1>3

\* Steps that touch no list and no parent.
LEMMA QuietHomes ==
  HomesKept /\ TreeEnds /\ UNCHANGED <<mounted, children, parent, removed>>
    => HomesKept' /\ TreeEnds'
BY DEF HomesKept, TreeEnds, Acyclic, Founded, Children, Home, Known, Placed

-----------------------------------------------------------------------------
(* Around the pixels.                                                      *)

\* skipParentMatrix_ is set where the layer above is a scroll layer.
SkipsTrue ==
  \A l \in skips, p \in Layer : parent[l] = p \/ Home(l, p) => kind[p] = "scroll"

\* A view that may be created has a layer with no flag and with all to lay out.
NewReady ==
  phase # "paint" =>
    \A v \in View :
      ~Placed(v) /\ (\A q \in Layer : <<v, q>> \notin removed) /\ parent[v] = NoLayer
        /\ children[v] = <<>>
      => v \notin skips /\ "layout" \in mask[v] /\ mounted[v] = <<>>

\* No child sticks out of a parent that does not clip it.
FitsMounted == \A p \in Layer : FitsAll(p, frame[p])

RootUnmarked == "remove" \notin mask[Root]

SideInv ==
  /\ GeometryOK /\ HomesKept /\ TreeEnds
  /\ SkipsTrue /\ NewReady /\ FitsMounted /\ RootUnmarked

\* Where a view that the transaction has removed is inserted again.
LEMMA ReinsertHome ==
  ASSUME TreeInv, HomesKept, InPlace,
         NEW v \in View, NEW p \in Layer, NEW i, NEW f, ReinsertView(v, p, i, f)
  PROVE  <<v, p>> \in removed /\ \A q \in Layer : <<v, q>> \in removed => q = p
<1>1. PICK q \in Layer : <<v, q>> \in removed /\ (Moves = "reorder" => p = q)
  BY DEF ReinsertView
<1>2. Moves = "reorder"
  BY LayerTreeAssumption DEF InPlace, ReinsertView
<1> QED BY <1>1, <1>2 DEF HomesKept, Home

\* An insertion keeps what is around the pixels.
LEMMA InsertSide ==
  ASSUME TreeInv, SideInv, Overflow = FALSE,
         NEW v \in View, NEW p \in Mounted, NEW i \in 0..Len(mounted[p]), ~Placed(v),
         NEW f \in Frame,
         parent[v] = NoLayer \/ parent[v] \in Known,
         PlaceFor(v, p, i), InsertChild(p, v, i), removed' = removed, skips' = skips,
         \A q \in Layer : <<v, q>> \in removed => q = p,
         kind' \in [Layer -> Kind], \A l \in Layer : l # v => kind'[l] = kind[l],
         frame' = [frame EXCEPT ![v] = f],
         \A l \in Layer : l # v => mask'[l] = mask[l],
         phase = "mutate", phase' = "mutate",
         Fits(f, p, frame[p].w), FitsAll(v, f) \/ mounted[v] = <<>>,
         v \in skips => kind[p] = "scroll",
         kind'[v] = kind[v] \/ (mounted[v] = <<>> /\ children[v] = <<>> /\ v \notin Known)
  PROVE  HomesKept' /\ TreeEnds' /\ SkipsTrue' /\ NewReady' /\ FitsMounted' /\ RootUnmarked'
<1>0. /\ TreeTypeOK /\ LinksConsistent /\ MountedOnce /\ MountedLinked /\ GeometryOK
      /\ HomesKept /\ TreeEnds /\ SkipsTrue /\ NewReady /\ FitsMounted /\ RootUnmarked
      /\ parent \in [Layer -> Layer \cup {NoLayer}] /\ children \in [Layer -> Seq(View)]
      /\ mounted \in [Layer -> Seq(View)] /\ removed \subseteq View \X Layer
      /\ skips \subseteq Layer /\ frame \in [Layer -> [x : Nat, w : Nat \ {0}]]
  BY DEF TreeInv, TreeTypeOK, SideInv, GeometryOK
<1>1. /\ p \in Layer /\ p # v /\ (p = Root \/ Placed(p))
      /\ \A q \in Layer : ToSet(mounted'[q]) = ToSet(mounted[q]) \cup (IF q = p THEN {v} ELSE {})
      /\ parent' = [parent EXCEPT ![v] = p]
      /\ \A w \in Layer : children'[w] = <<>> => children[w] = <<>> \/ w = parent[v]
  BY InsertLinks
<1>2. v \in Layer /\ v # Root /\ NoLayer \notin Layer /\ View \subseteq Layer /\ Root \in Layer
  BY LayerTreeAssumption DEF Layer
<1>3. \A l \in Layer : parent'[l] = IF l = v THEN p ELSE parent[l]
  BY <1>0, <1>1, <1>2
<1>4. \A u \in View, q \in Layer : Home(u, q)' <=> Home(u, q) \/ (u = v /\ q = p)
  BY <1>1 DEF Home
<1>5. HomesKept' /\ TreeEnds'
  BY <1>0, InsertHomes
<1>6. SkipsTrue'
  <2> SUFFICES ASSUME NEW l \in skips, NEW q \in Layer, parent'[l] = q \/ Home(l, q)'
               PROVE  kind'[q] = "scroll"
    BY DEF SkipsTrue
  <2>1. l \in Layer
    BY <1>0
  <2>2. (parent[l] = q \/ Home(l, q)) \/ (l = v /\ q = p)
    <3>1. CASE l \in View
      BY <1>3, <1>4, <2>1, <3>1
    <3>2. CASE l \notin View
      <4>1. l # v /\ ~(l \in ToSet(mounted'[q])) /\ <<l, q>> \notin removed
        <5>1. ToSet(mounted[q]) \subseteq View
          BY <1>0, ListsOfViews
        <5> QED BY <1>0, <1>1, <3>2, <5>1
      <4> QED BY <1>3, <2>1, <4>1 DEF Home
    <3> QED BY <3>1, <3>2
  <2>3. kind[q] = "scroll"
    BY <1>0, <2>2 DEF SkipsTrue
  <2>4. CASE q # v
    BY <2>3, <2>4
  <2>5. CASE q = v
    <3>1. parent[l] = v \/ Home(l, v)
      BY <1>1, <2>2, <2>5
    <3>2. ASSUME mounted[v] = <<>>, children[v] = <<>>, v \notin Known PROVE FALSE
      <4>1. ToSet(<<>>) = {}
        BY DEF ToSet
      <4>2. parent[l] # v
        BY <1>0, <1>2, <2>1, <3>2, <4>1 DEF LinksConsistent, Children
      <4>3. ~Home(l, v)
        BY <1>0, <3>2, <4>1 DEF Home, HomesKept
      <4> QED BY <3>1, <4>2, <4>3
    <3> QED BY <2>3, <2>5, <3>2
  <2> QED BY <2>4, <2>5
<1>7. NewReady'
  <2> SUFFICES ASSUME NEW w \in View, ~Placed(w)', \A q \in Layer : <<w, q>> \notin removed,
                      parent'[w] = NoLayer, children'[w] = <<>>
               PROVE  w \notin skips /\ "layout" \in mask'[w] /\ mounted'[w] = <<>>
    BY DEF NewReady
  <2>0. w \in Layer
    BY <1>2
  <2>1. w # v /\ ~Placed(w)
    BY <1>1, <1>2, <1>3, <2>0 DEF Placed
  <2>2. w # parent[v] /\ w # p /\ parent[w] = NoLayer
    BY <1>1, <1>2, <1>3, <2>0, <2>1, LayerTreeAssumption DEF Known
  <2>3. children[w] = <<>>
    BY <1>1, <2>0, <2>2
  <2>4. w \notin skips /\ "layout" \in mask[w] /\ mounted[w] = <<>>
    BY <1>0, <2>1, <2>2, <2>3 DEF NewReady
  <2>5. mounted'[w] = mounted[w]
    <3>1. mounted' = [mounted EXCEPT ![p] = InsertAt(@, i + 1, v)]
      BY DEF PlaceFor
    <3> QED BY <1>0, <2>0, <2>2, <3>1
  <2> QED BY <2>0, <2>1, <2>4, <2>5
<1>8. FitsMounted'
  <2> SUFFICES ASSUME NEW q \in Layer, NEW c \in ToSet(mounted'[q])
               PROVE  Clips(q)' \/ frame'[c].x + frame'[c].w <= frame'[q].w
    BY DEF FitsMounted, FitsAll, Fits
  <2>1. \A l \in Layer : frame'[l] = IF l = v THEN f ELSE frame[l]
    BY <1>0, <1>2
  <2>2. c \in Layer /\ (c \in ToSet(mounted[q]) \/ (c = v /\ q = p))
    <3>1. ToSet(mounted[q]) \subseteq View
      BY <1>0, ListsOfViews
    <3> QED BY <1>1, <1>2, <3>1
  <2>3. CASE c \in ToSet(mounted[q])
    <3>1. c # v
      BY <2>3 DEF Placed
    <3>2. CASE q # v
      <4>1. Clips(q) \/ frame[c].x + frame[c].w <= frame[q].w
        BY <1>0, <2>3 DEF FitsMounted, FitsAll, Fits
      <4> QED BY <2>1, <2>2, <3>1, <3>2, <4>1 DEF Clips
    <3>3. CASE q = v
      <4>1. mounted[v] # <<>>
        BY <2>3, <3>3 DEF ToSet
      <4>2. kind'[v] = kind[v] /\ FitsAll(v, f)
        BY <4>1
      <4>3. Clips(v) \/ frame[c].x + frame[c].w <= f.w
        BY <2>3, <3>3, <4>2 DEF FitsAll, Fits
      <4> QED BY <1>2, <2>1, <2>2, <3>1, <3>3, <4>2, <4>3 DEF Clips
    <3> QED BY <3>2, <3>3
  <2>4. CASE c = v /\ q = p
    <3>1. Clips(p) \/ f.x + f.w <= frame[p].w
      BY DEF Fits
    <3> QED BY <1>1, <1>2, <2>1, <2>4, <3>1 DEF Clips
  <2> QED BY <2>2, <2>3, <2>4
<1>9. RootUnmarked'
  BY <1>0, <1>2 DEF RootUnmarked
<1> QED BY <1>5, <1>6, <1>7, <1>8, <1>9

\* The frames that React lays out.
LEMMA FramesOK == Frame \subseteq [x : Nat, w : Nat \ {0}]
BY LayerTreeAssumption DEF Frame

\* A view is created with a new layer, in a place for which it is laid out.
LEMMA CreateSide ==
  ASSUME TreeInv, SideInv, InPlace, NEW v \in Unplaced, NEW p \in Mounted,
         NEW i \in 0..Len(mounted[p]), NEW f \in Frame, NEW k \in Kind, CreateView(v, p, i, f, k)
  PROVE  SideInv'
<1>1. /\ v \in View /\ ~Placed(v) /\ PlaceFor(v, p, i) /\ InsertChild(p, v, i)
      /\ phase = "mutate"
  BY DEF CreateView, Unplaced, Placed, PlaceFor, Mutation
<1>2. /\ parent[v] = NoLayer /\ children[v] = <<>> /\ (\A q \in Layer : <<v, q>> \notin removed)
      /\ Fits(f, p, frame[p].w)
      /\ frame' = [frame EXCEPT ![v] = f] /\ picture' = [picture EXCEPT ![v] = 0]
      /\ kind' = [kind EXCEPT ![v] = k]
      /\ UNCHANGED <<scroll, mask, origin, bounds, skips, pending, damage, phase, removed>>
  BY DEF CreateView, UpdateAll, cacheVars
<1>3. GeometryOK /\ NewReady /\ v \in Layer /\ Overflow = FALSE /\ v # Root
  BY <1>1, LayerTreeAssumption DEF SideInv, InPlace, Layer
<1>4. v \notin skips /\ mounted[v] = <<>>
  BY <1>1, <1>2, <1>3 DEF NewReady
<1>5. v \notin Known
  BY <1>1, <1>2, <1>3 DEF Known
<1>6. kind' \in [Layer -> Kind] /\ \A l \in Layer : l # v => kind'[l] = kind[l]
  BY <1>2, <1>3 DEF GeometryOK
<1>7. GeometryOK'
  <2>1. f \in [x : Nat, w : Nat \ {0}]
    BY FramesOK
  <2> QED BY <1>2, <1>3, <1>6, <2>1 DEF GeometryOK
<1>8. phase' = "mutate" /\ \A l \in Layer : l # v => mask'[l] = mask[l]
  BY <1>1, <1>2
<1>9. HomesKept' /\ TreeEnds' /\ SkipsTrue' /\ NewReady' /\ FitsMounted' /\ RootUnmarked'
  BY <1>1, <1>2, <1>3, <1>4, <1>5, <1>6, <1>8, InsertSide
<1> QED BY <1>7, <1>9 DEF SideInv

\* A view that is inserted again comes back to its parent.
LEMMA ReinsertSide ==
  ASSUME TreeInv, SideInv, InPlace, NEW v \in Unplaced, NEW p \in Mounted,
         NEW i \in 0..Len(mounted[p]), NEW f \in Frame, ReinsertView(v, p, i, f)
  PROVE  SideInv'
<1>1. /\ v \in View /\ ~Placed(v) /\ PlaceFor(v, p, i) /\ InsertChild(p, v, i)
      /\ phase = "mutate"
  BY DEF ReinsertView, Unplaced, Placed, PlaceFor, Mutation
<1>2. /\ Fits(f, p, frame[p].w) /\ FitsAll(v, f)
      /\ frame' = [frame EXCEPT ![v] = f] /\ picture' = [picture EXCEPT ![v] = picture[v]]
      /\ mask' = [mask EXCEPT ![v] = @ \cup InvalidateAll]
      /\ UNCHANGED <<kind, scroll, origin, bounds, skips, pending, damage, phase, removed>>
  BY DEF ReinsertView, UpdateAll, cacheVars
<1>3. /\ GeometryOK /\ HomesKept /\ SkipsTrue /\ TreeTypeOK /\ RemovedKnown
      /\ v \in Layer /\ p \in Layer /\ Overflow = FALSE
  BY <1>1, MountedIsLeast DEF SideInv, TreeInv, InPlace, Layer
<1>4. <<v, p>> \in removed /\ \A q \in Layer : <<v, q>> \in removed => q = p
  BY <1>1, <1>3, ReinsertHome
<1>5. parent[v] = NoLayer \/ parent[v] \in Known
  BY <1>3, <1>4 DEF RemovedKnown
<1>6. v \in skips => kind[p] = "scroll"
  BY <1>3, <1>4 DEF SkipsTrue, Home
<1>7. GeometryOK'
  <2>1. f \in [x : Nat, w : Nat \ {0}]
    BY FramesOK
  <2> QED BY <1>2, <1>3, <2>1 DEF GeometryOK
<1>8. /\ phase' = "mutate" /\ \A l \in Layer : l # v => mask'[l] = mask[l]
      /\ kind' \in [Layer -> Kind] /\ \A l \in Layer : kind'[l] = kind[l]
  BY <1>1, <1>2, <1>3 DEF TreeTypeOK, GeometryOK
<1>9. HomesKept' /\ TreeEnds' /\ SkipsTrue' /\ NewReady' /\ FitsMounted' /\ RootUnmarked'
  BY <1>1, <1>2, <1>3, <1>4, <1>5, <1>6, <1>8, InsertSide
<1> QED BY <1>7, <1>9 DEF SideInv

\* A removal leaves the layer where it is, below the parent it had.
LEMMA RemoveSide ==
  ASSUME TreeInv, SideInv, NEW v \in Mounted \ {Root}, RemoveView(v)
  PROVE  SideInv'
<1>0. /\ TreeTypeOK /\ MountedOnce /\ GeometryOK /\ HomesKept /\ TreeEnds /\ SkipsTrue
      /\ NewReady /\ FitsMounted /\ RootUnmarked
      /\ mask \in [Layer -> SUBSET {"paint", "layout", "remove"}] /\ skips \subseteq Layer
      /\ Mounted \in SUBSET Layer /\ removed \subseteq View \X Layer
      /\ View \subseteq Layer /\ Root \notin View /\ Root \in Layer
      /\ mounted \in [Layer -> Seq(View)]
  BY MountedIsLeast, LayerTreeAssumption DEF TreeInv, TreeTypeOK, SideInv, GeometryOK, Layer
<1>1. /\ HomesKept' /\ TreeEnds'
      /\ \A u \in View, q \in Layer : Home(u, q)' <=> Home(u, q)
      /\ \A q \in Layer : ToSet(mounted'[q]) = ToSet(mounted[q]) \ {v}
      /\ \A q \in Layer : mounted[q] = <<>> => mounted'[q] = <<>>
  BY <1>0, RemoveHomes
<1>2. /\ phase = "mutate" /\ mask' = [mask EXCEPT ![v] = @ \cup {"remove"}]
      /\ removed' = removed \cup {<<v, MountedParent(v)>>}
      /\ UNCHANGED <<kind, frame, picture, scroll, children, parent, origin, bounds, skips, pending,
                     damage, phase>>
  BY DEF RemoveView, Mutation, treeVars, cacheVars
<1>3. v \in View
  BY <1>0, MountedInList
<1>4. GeometryOK'
  BY <1>0, <1>2 DEF GeometryOK
<1>5. SkipsTrue'
  <2> SUFFICES ASSUME NEW l \in skips, NEW q \in Layer, parent[l] = q \/ Home(l, q)'
               PROVE  kind[q] = "scroll"
    BY <1>2 DEF SkipsTrue
  <2>1. Home(l, q)' => Home(l, q)
    <3>1. CASE l \in View
      BY <1>1, <3>1
    <3>2. CASE l \notin View
      <4>1. ToSet(mounted[q]) \subseteq View
        BY <1>0, ListsOfViews
      <4>2. l \notin ToSet(mounted'[q]) /\ l # v
        BY <1>1, <1>3, <3>2, <4>1
      <4> QED BY <1>0, <1>2, <3>2, <4>2 DEF Home
    <3> QED BY <3>1, <3>2
  <2> QED BY <1>0, <2>1 DEF SkipsTrue
<1>6. NewReady'
  <2> SUFFICES ASSUME NEW w \in View, ~Placed(w)', \A q \in Layer : <<w, q>> \notin removed',
                      parent[w] = NoLayer, children[w] = <<>>
               PROVE  w \notin skips /\ "layout" \in mask'[w] /\ mounted'[w] = <<>>
    BY <1>2 DEF NewReady
  <2>1. w # v
    <3>1. MountedParent(v) \in Layer
      <4>1. Placed(v)
        BY <1>0, MountedInList
      <4> QED BY <4>1 DEF Placed, MountedParent
    <3> QED BY <1>2, <3>1
  <2>2. ~Placed(w) /\ \A q \in Layer : <<w, q>> \notin removed
    BY <1>1, <1>2, <2>1 DEF Placed
  <2>3. w \notin skips /\ "layout" \in mask[w] /\ mounted[w] = <<>>
    BY <1>0, <1>2, <2>2 DEF NewReady
  <2> QED BY <1>0, <1>1, <1>2, <2>1, <2>3
<1>7. FitsMounted' /\ RootUnmarked'
  <2>1. FitsMounted'
    BY <1>0, <1>1, <1>2 DEF FitsMounted, FitsAll, Fits, Clips
  <2>2. RootUnmarked'
    BY <1>0, <1>2 DEF RootUnmarked
  <2> QED BY <2>1, <2>2
<1> QED BY <1>1, <1>4, <1>5, <1>6, <1>7 DEF SideInv

\* Updates, scrolling and the begin of a transaction touch no list.
LEMMA QuietSide ==
  ASSUME TreeInv, SideInv, UNCHANGED <<mounted, children, parent, removed, kind, skips>>,
         phase # "paint", phase' # "paint", GeometryOK', FitsMounted',
         \A l \in Layer : "layout" \in mask[l] => "layout" \in mask'[l],
         mask'[Root] = mask[Root]
  PROVE  SideInv'
<1>0. HomesKept /\ TreeEnds /\ SkipsTrue /\ NewReady /\ RootUnmarked
  BY DEF SideInv
<1>1. HomesKept' /\ TreeEnds'
  BY <1>0, QuietHomes
<1>2. SkipsTrue'
  BY <1>0 DEF SkipsTrue, Home
<1>3. NewReady'
  <2>1. View \subseteq Layer
    BY DEF Layer
  <2>2. \A w : Placed(w)' <=> Placed(w)
    BY DEF Placed
  <2> QED BY <1>0, <2>1, <2>2 DEF NewReady
<1>4. RootUnmarked'
  BY <1>0 DEF RootUnmarked
<1> QED BY <1>1, <1>2, <1>3, <1>4 DEF SideInv

\* An update keeps the view in its parent, and its children in it.
LEMMA UpdateSide ==
  ASSUME TreeInv, SideInv, InPlace, NEW v \in Mounted \ {Root}, NEW f \in Frame, NEW pic \in {0, 1},
         UpdateView(v, f, pic)
  PROVE  SideInv'
<1>0. /\ TreeTypeOK /\ MountedOnce /\ GeometryOK /\ FitsMounted
      /\ mask \in [Layer -> SUBSET {"paint", "layout", "remove"}]
      /\ Overflow = FALSE /\ Root \in Layer
      /\ frame \in [Layer -> [x : Nat, w : Nat \ {0}]]
      /\ mounted \in [Layer -> Seq(View)]
  BY DEF TreeInv, TreeTypeOK, SideInv, GeometryOK, InPlace, Layer
<1>1. v \in View /\ Placed(v) /\ v \in Layer
  BY <1>0, MountedInList DEF Layer
<1>2. /\ phase = "mutate" /\ mask' = [mask EXCEPT ![v] = @ \cup InvalidateAll]
      /\ frame' = [frame EXCEPT ![v] = f] /\ picture' = [picture EXCEPT ![v] = pic]
      /\ Fits(f, MountedParent(v), frame[MountedParent(v)].w) /\ FitsAll(v, f)
      /\ UNCHANGED <<mounted, kind, scroll, children, parent, origin, bounds, skips, pending,
                     damage, phase, removed>>
  BY DEF UpdateView, UpdateAll, Mutation, treeVars, cacheVars
<1>3. GeometryOK'
  <2>1. f \in [x : Nat, w : Nat \ {0}]
    BY FramesOK
  <2> QED BY <1>0, <1>2, <2>1 DEF GeometryOK
<1>4. FitsMounted'
  <2> SUFFICES ASSUME NEW q \in Layer, NEW c \in ToSet(mounted[q])
               PROVE  Clips(q) \/ frame'[c].x + frame'[c].w <= frame'[q].w
    BY <1>2 DEF FitsMounted, FitsAll, Fits, Clips
  <2>1. \A l \in Layer : frame'[l] = IF l = v THEN f ELSE frame[l]
    BY <1>0, <1>1, <1>2
  <2>2. c \in Layer
    BY <1>0, ListsOfViews DEF Layer
  <2>3. CASE c = v /\ q = v
    <3>1. Clips(v) \/ frame[v].x + frame[v].w <= frame[v].w
      BY <1>0, <2>3 DEF FitsMounted, FitsAll, Fits
    <3>2. MountedParent(v) = v
      <4>1. MountedParent(v) \in Layer /\ v \in ToSet(mounted[MountedParent(v)])
        BY <1>1 DEF Placed, MountedParent
      <4> QED BY <1>0, <1>1, <2>3, <4>1 DEF MountedOnce
    <3>3. LinksConsistent /\ MountedLinked /\ Acyclic /\ NewReady
      BY DEF TreeInv, SideInv, TreeEnds
    <3>4. frame[v].x \in Nat /\ frame[v].w \in Nat
      BY <1>0, <1>1
    <3>5. f.x \in Nat /\ f.w \in Nat
      BY LayerTreeAssumption DEF Frame
    <3>6. Clips(v) \/ f.x + f.w <= frame[v].w
      BY <1>0, <1>2, <3>2 DEF Fits
    <3>7. ASSUME f.x + f.w <= frame[v].w PROVE Clips(v) \/ f.x + f.w <= f.w
      <4>1. Holds(mounted, Root, Mounted \ {v})
        <5>1. /\ Mounted \in SUBSET Layer /\ Root \in Mounted
              /\ \A p \in Mounted : ToSet(mounted[p]) \subseteq Mounted
          BY <1>0, MountedIsLeast
        <5>2. \A p \in Layer : v \in ToSet(mounted[p]) => p = v
          BY <1>0, <1>1, <2>3 DEF MountedOnce
        <5> QED BY <5>1, <5>2 DEF Holds
      <4>2. Mounted \subseteq Mounted \ {v}
        <5>1. Mounted \ {v} \in SUBSET Layer
          BY <1>0, MountedIsLeast
        <5> QED BY <1>0, <4>1, <5>1, SubtreeIsLeast DEF Mounted, Below
      <4> QED BY <4>2
    <3> QED BY <2>1, <2>2, <2>3, <3>6, <3>7
  <2>4. CASE c = v /\ q # v
    <3>1. MountedParent(v) = q
      <4>1. MountedParent(v) \in Layer /\ v \in ToSet(mounted[MountedParent(v)])
        BY <1>1 DEF Placed, MountedParent
      <4> QED BY <1>0, <1>1, <2>4, <4>1 DEF MountedOnce
    <3>2. Clips(q) \/ f.x + f.w <= frame[q].w
      BY <1>0, <1>2, <3>1 DEF Fits
    <3> QED BY <2>1, <2>2, <2>4, <3>2
  <2>5. CASE c # v /\ q = v
    <3>1. Clips(v) \/ frame[c].x + frame[c].w <= f.w
      BY <1>0, <1>2, <2>5 DEF FitsAll, Fits
    <3> QED BY <2>1, <2>2, <2>5, <3>1
  <2>6. CASE c # v /\ q # v
    <3>1. Clips(q) \/ frame[c].x + frame[c].w <= frame[q].w
      BY <1>0 DEF FitsMounted, FitsAll, Fits
    <3> QED BY <2>1, <2>2, <2>6, <3>1
  <2> QED BY <2>3, <2>4, <2>5, <2>6
<1>5. \A l \in Layer : "layout" \in mask[l] => "layout" \in mask'[l]
  BY <1>0, <1>2
<1>6. mask'[Root] = mask[Root] /\ phase # "paint" /\ phase' # "paint"
  BY <1>0, <1>2
<1> QED BY <1>2, <1>3, <1>4, <1>5, <1>6, QuietSide

\* Scrolling moves no layer out of its parent.
LEMMA ScrollSide ==
  ASSUME TreeInv, SideInv, NEW v \in Mounted \ {Root}, NEW x \in Surface, HandleScroll(v, x)
  PROVE  SideInv'
<1>0. /\ TreeTypeOK /\ GeometryOK /\ FitsMounted /\ Root \in Layer
      /\ mask \in [Layer -> SUBSET {"paint", "layout", "remove"}] /\ v \in Layer
  BY MountedIsLeast DEF TreeInv, TreeTypeOK, SideInv, Layer
<1>2. /\ phase = "mutate" /\ mask' = [mask EXCEPT ![v] = @ \cup {"paint"}]
      /\ scroll' = [scroll EXCEPT ![v] = x]
      /\ UNCHANGED <<mounted, kind, frame, picture, children, parent, origin, bounds, skips, pending,
                     damage, phase, removed>>
  BY DEF HandleScroll, Mutation, treeVars, cacheVars
<1>3. GeometryOK'
  <2>1. x \in Int
    BY LayerTreeAssumption DEF Surface
  <2> QED BY <1>0, <1>2, <2>1 DEF GeometryOK
<1>4. FitsMounted'
  BY <1>0, <1>2 DEF FitsMounted, FitsAll, Fits, Clips
<1>5. \A l \in Layer : "layout" \in mask[l] => "layout" \in mask'[l]
  BY <1>0, <1>2
<1>6. mask'[Root] = mask[Root] /\ phase # "paint" /\ phase' # "paint"
  BY <1>0, <1>2
<1> QED BY <1>2, <1>3, <1>4, <1>5, <1>6, QuietSide

\* The begin of a transaction changes no layer.
LEMMA BeginSide == TreeInv /\ SideInv /\ BeginTransaction => SideInv'
<1> SUFFICES ASSUME TreeInv, SideInv, BeginTransaction PROVE SideInv'
  OBVIOUS
<1>1. /\ phase = "idle" /\ phase' = "mutate" /\ damage' = {}
      /\ UNCHANGED <<mounted, kind, frame, picture, scroll, children, parent, origin, bounds, skips,
                     pending, removed, mask>>
  BY DEF BeginTransaction, viewVars, treeVars, cacheVars
<1>2. GeometryOK' /\ FitsMounted'
  <2>1. GeometryOK'
    BY <1>1 DEF SideInv, GeometryOK
  <2>2. FitsMounted'
    BY <1>1 DEF SideInv, FitsMounted, FitsAll, Fits, Clips
  <2> QED BY <2>1, <2>2
<1> QED BY <1>1, <1>2, QuietSide

\* What prePaint leaves behind.
PrePainted ==
  /\ \A l \in Layer :
       /\ origin'[l] = IF l \in Reached THEN NewOrigin[l] ELSE origin[l]
       /\ bounds'[l] = IF l \in Reached THEN NewBounds(l) ELSE bounds[l]
       /\ mask'[l] = IF l \in Reached THEN mask[l] \cap {"remove"} ELSE mask[l]
       /\ parent'[l] = IF l \in Reached /\ "remove" \in mask[l] THEN NoLayer ELSE parent[l]
       /\ \A x, y : /\ ~(x \in Reached /\ "remove" \in mask[x])
                    /\ ~(y \in Reached /\ "remove" \in mask[y])
                    => (InOrder(children'[l], x, y) <=> InOrder(children[l], x, y))
  /\ skips' = skips \cup {l \in Reached : Skips(l)}
  /\ damage' = damage \cup Damage[Root]
  /\ phase = "mutate" /\ phase' = "paint"
  /\ UNCHANGED <<mounted, kind, frame, picture, scroll, screen, removed, count>>
  /\ GeometryOK'

\* What prePaint does, without what makes it hard to read.
LEMMA PrePaintLeaves == TreeInv /\ SideInv /\ PrePaint => PrePainted
<1> SUFFICES ASSUME TreeInv, SideInv, PrePaint PROVE PrePainted
  OBVIOUS
<1>0. /\ TreeTypeOK /\ GeometryOK /\ Acyclic /\ Founded /\ Reached \in SUBSET Layer /\ Root \in Layer
      /\ children \in [Layer -> Seq(View)]
  <2>1. children \in [Layer -> Seq(View)] /\ Root \in Layer
    BY DEF TreeInv, TreeTypeOK, Layer
  <2>2. Reached \in SUBSET Layer
    BY <2>1, SubtreeIsLeast DEF Reached
  <2> QED BY <2>1, <2>2 DEF TreeInv, SideInv, TreeEnds
<1>re. PICK reached \in {Reached} : \E pruned \in {{l \in reached : Pruned(l)}} :
        /\ phase = "mutate" /\ phase' = "paint"
        /\ damage' = damage \cup Damage[Root]
        /\ pending' = [l \in Layer |-> IF l \notin reached THEN pending[l]
                                ELSE IF kind[l] = "scroll" THEN NewPending(l) ELSE {}]
        /\ origin' = [l \in Layer |-> IF l \in reached THEN NewOrigin[l] ELSE origin[l]]
        /\ bounds' = [l \in Layer |-> IF l \in reached THEN NewBounds(l) ELSE bounds[l]]
        /\ skips' = skips \cup {l \in reached : Skips(l)}
        /\ mask' = [l \in Layer |-> IF l \in reached THEN mask[l] \cap {"remove"} ELSE mask[l]]
        /\ children' = [l \in Layer |-> IF l \in reached THEN Without(children[l], pruned)
                                                         ELSE children[l]]
        /\ parent' = [l \in Layer |-> IF l \in pruned THEN NoLayer ELSE parent[l]]
        /\ UNCHANGED <<viewVars, screen, inserted, removed, moved, mutations, count>>
  BY Zenon DEF PrePaint
<1>1. PICK pruned \in {{l \in reached : Pruned(l)}} :
        /\ phase = "mutate" /\ phase' = "paint"
        /\ damage' = damage \cup Damage[Root]
        /\ pending' = [l \in Layer |-> IF l \notin reached THEN pending[l]
                                ELSE IF kind[l] = "scroll" THEN NewPending(l) ELSE {}]
        /\ origin' = [l \in Layer |-> IF l \in reached THEN NewOrigin[l] ELSE origin[l]]
        /\ bounds' = [l \in Layer |-> IF l \in reached THEN NewBounds(l) ELSE bounds[l]]
        /\ skips' = skips \cup {l \in reached : Skips(l)}
        /\ mask' = [l \in Layer |-> IF l \in reached THEN mask[l] \cap {"remove"} ELSE mask[l]]
        /\ children' = [l \in Layer |-> IF l \in reached THEN Without(children[l], pruned)
                                                         ELSE children[l]]
        /\ parent' = [l \in Layer |-> IF l \in pruned THEN NoLayer ELSE parent[l]]
        /\ UNCHANGED <<viewVars, screen, inserted, removed, moved, mutations, count>>
  BY <1>re, Zenon
<1>eq. reached = Reached /\ \A l : l \in pruned <=> l \in Reached /\ "remove" \in mask[l]
  BY DEF Pruned
<1>2. UNCHANGED <<mounted, kind, frame, picture, scroll, screen, removed, count>>
  BY <1>1 DEF viewVars
<1>3. OriginsComputed /\ DamageComputed
  BY <1>0, Origins, Damages
<1>4. \A l \in Layer : NewBounds(l) \in SUBSET Int
  <2>1. /\ frame \in [Layer -> [x : Nat, w : Nat \ {0}]] /\ NewOrigin \in [Layer -> Int]
        /\ bounds \in [Layer -> SUBSET Int]
    BY <1>0, <1>3 DEF GeometryOK, OriginsComputed
  <2>2. \A l \in Layer : Shift(Extent(frame[l]), NewOrigin[l]) \in SUBSET Int
    BY <2>1 DEF Shift, Extent
  <2> QED BY <2>1, <2>2 DEF NewBounds
<1>5. \A l \in Layer : NewPending(l) \in SUBSET Int
  <2>1. \A l \in Layer : \A c \in Children(l) : Damage[c] \in SUBSET Int
    BY <1>0, <1>3, ListsOfViews DEF DamageComputed, Children, Layer
  <2>2. \A l \in Layer : pending[l] \in SUBSET Int
    BY <1>0 DEF GeometryOK
  <2> QED BY <2>1, <2>2 DEF NewPending
<1>6. GeometryOK'
  <2>1. origin' \in [Layer -> Int]
    BY <1>0, <1>1, <1>3 DEF OriginsComputed, GeometryOK
  <2>2. bounds' \in [Layer -> SUBSET Int]
    BY <1>0, <1>1, <1>4 DEF GeometryOK
  <2>3. pending' \in [Layer -> SUBSET Int]
    BY <1>0, <1>1, <1>5 DEF GeometryOK
  <2>4. damage' \in SUBSET Int /\ skips' \in SUBSET Layer
    BY <1>0, <1>1, <1>3, <1>eq DEF GeometryOK, DamageComputed
  <2> QED BY <1>0, <1>2, <2>1, <2>2, <2>3, <2>4 DEF GeometryOK
<1>7. ASSUME NEW l \in Layer, NEW x, NEW y, ~(x \in Reached /\ "remove" \in mask[x]),
             ~(y \in Reached /\ "remove" \in mask[y])
      PROVE  InOrder(children'[l], x, y) <=> InOrder(children[l], x, y)
  <2>1. children[l] \in Seq(View) /\ x \notin pruned /\ y \notin pruned
    BY <1>0, <1>7, <1>eq
  <2>2. InOrder(Without(children[l], pruned), x, y) <=> InOrder(children[l], x, y)
    BY <2>1, WithoutViews
  <2> QED BY <1>1, <2>2
<1>8. \A l \in Layer :
       /\ origin'[l] = IF l \in Reached THEN NewOrigin[l] ELSE origin[l]
       /\ bounds'[l] = IF l \in Reached THEN NewBounds(l) ELSE bounds[l]
       /\ mask'[l] = IF l \in Reached THEN mask[l] \cap {"remove"} ELSE mask[l]
       /\ parent'[l] = IF l \in Reached /\ "remove" \in mask[l] THEN NoLayer ELSE parent[l]
  BY <1>1, <1>eq
<1>9. skips' = skips \cup {l \in Reached : Skips(l)}
  BY <1>1, <1>eq
<1> QED BY <1>1, <1>2, <1>6, <1>7, <1>8, <1>9 DEF PrePainted

\* prePaint takes out what is marked and sets the flags below scroll layers.
LEMMA PrePaintSide == TreeInv /\ SideInv /\ PrePaint => SideInv'
<1> SUFFICES ASSUME TreeInv, SideInv, PrePaint PROVE SideInv'
  OBVIOUS
<1>0. /\ PrePainted /\ HomesKept /\ TreeEnds /\ SkipsTrue /\ FitsMounted /\ RootUnmarked
      /\ Root \in Layer /\ NoLayer \notin Layer /\ parent \in [Layer -> Layer \cup {NoLayer}]
      /\ mounted \in [Layer -> Seq(View)] /\ removed \subseteq View \X Layer
      /\ View \subseteq Layer /\ Reached \in SUBSET Layer /\ skips \subseteq Layer
  <2>1. children \in [Layer -> Seq(View)] /\ Root \in Layer
    BY DEF TreeInv, TreeTypeOK, Layer
  <2>2. Reached \in SUBSET Layer
    BY <2>1, SubtreeIsLeast DEF Reached
  <2> QED BY <2>1, <2>2, PrePaintLeaves, LayerTreeAssumption
          DEF TreeInv, TreeTypeOK, SideInv, GeometryOK, Layer
<1>1. HomesKept' /\ TreeEnds'
  BY <1>0, PrePaintHomes
<1>2. SkipsTrue'
  <2> SUFFICES ASSUME NEW l \in skips', NEW q \in Layer, parent'[l] = q \/ Home(l, q)'
               PROVE  kind[q] = "scroll"
    BY <1>0 DEF SkipsTrue, PrePainted
  <2>1. l \in Layer /\ (l \in skips \/ Skips(l))
    BY <1>0 DEF PrePainted
  <2>2. parent[l] = q \/ Home(l, q)
    BY <1>0, <2>1 DEF PrePainted, Home
  <2>3. CASE l \in skips
    BY <1>0, <2>2, <2>3 DEF SkipsTrue
  <2>4. CASE l \notin skips
    <3>1. parent[l] # NoLayer /\ kind[parent[l]] = "scroll"
      BY <2>1, <2>4 DEF Skips
    <3>2. Home(l, q) => parent[l] = q
      <4>1. Home(l, q) => l \in View
        BY <1>0, ListsOfViews DEF Home
      <4> QED BY <1>0, <3>1, <4>1 DEF HomesKept
    <3> QED BY <2>2, <3>1, <3>2
  <2> QED BY <2>3, <2>4
<1>3. NewReady' /\ GeometryOK'
  BY <1>0 DEF NewReady, PrePainted
<1>4. FitsMounted' /\ RootUnmarked'
  <2>1. FitsMounted'
    BY <1>0 DEF PrePainted, FitsMounted, FitsAll, Fits, Clips
  <2>2. RootUnmarked'
    BY <1>0 DEF PrePainted, RootUnmarked
  <2> QED BY <2>1, <2>2
<1> QED BY <1>1, <1>2, <1>3, <1>4 DEF SideInv

\* What the end of a frame leaves behind.
Finished ==
  /\ \A l \in Layer :
       l \notin Dead => /\ kind'[l] = kind[l] /\ frame'[l] = frame[l] /\ picture'[l] = picture[l]
                        /\ scroll'[l] = scroll[l] /\ mask'[l] = mask[l]
                        /\ origin'[l] = origin[l] /\ bounds'[l] = bounds[l]
  /\ \A l \in Dead : mask'[l] = InvalidateAll
  /\ skips' = skips \ Dead /\ removed' = {}
  /\ phase = "paint" /\ phase' = "idle"
  /\ \A t \in Surface :
       screen'[t] = IF t \in damage THEN Drawing(DrawnIn(Painted, FrameOnScreen, t)) ELSE screen[t]
  /\ UNCHANGED <<mounted, children, parent, damage, count>>
  /\ GeometryOK'

\* What the end of a frame does.
LEMMA PaintLeaves == GeometryOK /\ Paint => Finished
<1> SUFFICES ASSUME GeometryOK, Paint PROVE Finished
  OBVIOUS
<1>d. PICK dead \in {Dead} : \E painted \in {Painted} :
        /\ phase = "paint"
        /\ phase' = "idle"
        /\ screen' = [t \in Surface |-> IF t \in damage
                                         THEN Drawing(DrawnIn(painted, FrameOnScreen, t))
                                         ELSE screen[t]]
        /\ pending' = [l \in Layer |-> IF l \in dead \cup painted THEN {} ELSE pending[l]]
        /\ kind' = Fresh(kind, dead, "plain")
        /\ frame' = Fresh(frame, dead, frame[Root])
        /\ picture' = Fresh(picture, dead, 0)
        /\ scroll' = Fresh(scroll, dead, 0)
        /\ mask' = Fresh(mask, dead, InvalidateAll)
        /\ origin' = Fresh(origin, dead, 0)
        /\ bounds' = Fresh(bounds, dead, {})
        /\ skips' = skips \ dead
        /\ removed' = {}
        /\ UNCHANGED <<mounted, treeVars, damage, mutations, count>>
  BY Zenon DEF Paint
<1>1. PICK painted \in {Painted} :
        /\ phase = "paint"
        /\ phase' = "idle"
        /\ screen' = [t \in Surface |-> IF t \in damage
                                         THEN Drawing(DrawnIn(painted, FrameOnScreen, t))
                                         ELSE screen[t]]
        /\ pending' = [l \in Layer |-> IF l \in dead \cup painted THEN {} ELSE pending[l]]
        /\ kind' = Fresh(kind, dead, "plain")
        /\ frame' = Fresh(frame, dead, frame[Root])
        /\ picture' = Fresh(picture, dead, 0)
        /\ scroll' = Fresh(scroll, dead, 0)
        /\ mask' = Fresh(mask, dead, InvalidateAll)
        /\ origin' = Fresh(origin, dead, 0)
        /\ bounds' = Fresh(bounds, dead, {})
        /\ skips' = skips \ dead
        /\ removed' = {}
        /\ UNCHANGED <<mounted, treeVars, damage, mutations, count>>
  BY <1>d, Zenon
<1>eq. dead = Dead /\ painted = Painted
  OBVIOUS
<1>2. UNCHANGED <<mounted, children, parent, damage, count>>
  BY <1>1 DEF treeVars
<1>3. \A l \in Layer :
       l \notin Dead => /\ kind'[l] = kind[l] /\ frame'[l] = frame[l] /\ picture'[l] = picture[l]
                        /\ scroll'[l] = scroll[l] /\ mask'[l] = mask[l]
                        /\ origin'[l] = origin[l] /\ bounds'[l] = bounds[l]
  BY <1>1, <1>eq DEF Fresh
<1>4. \A l \in Dead : mask'[l] = InvalidateAll
  BY <1>1, <1>eq DEF Fresh, Dead, Layer
<1>5. \A t \in Surface :
       screen'[t] = IF t \in damage THEN Drawing(DrawnIn(Painted, FrameOnScreen, t)) ELSE screen[t]
  <2> DEFINE Seen(t) == IF t \in damage THEN Drawing(DrawnIn(Painted, FrameOnScreen, t))
                                       ELSE screen[t]
  <2>1. screen' = [t \in Surface |-> Seen(t)]
    BY <1>1, <1>eq, Zenon
  <2> HIDE DEF Seen
  <2>2. \A t \in Surface : screen'[t] = Seen(t)
    BY <2>1
  <2> QED BY <2>2 DEF Seen
<1>6. GeometryOK'
  <2>0. Root \in Layer
    BY DEF Layer
  <2>1. kind' \in [Layer -> Kind] /\ picture' \in [Layer -> {0, 1}]
    BY <1>1 DEF GeometryOK, Fresh, Kind
  <2>2. frame' \in [Layer -> [x : Nat, w : Nat \ {0}]]
    <3>1. frame[Root] \in [x : Nat, w : Nat \ {0}]
      BY <2>0 DEF GeometryOK
    <3> QED BY <1>1, <3>1 DEF GeometryOK, Fresh
  <2>3. scroll' \in [Layer -> Int] /\ origin' \in [Layer -> Int]
    BY <1>1 DEF GeometryOK, Fresh
  <2>4. bounds' \in [Layer -> SUBSET Int] /\ pending' \in [Layer -> SUBSET Int]
    BY <1>1 DEF GeometryOK, Fresh
  <2> QED BY <1>1, <1>2, <2>1, <2>2, <2>3, <2>4 DEF GeometryOK
<1> QED BY <1>1, <1>2, <1>3, <1>4, <1>5, <1>6, <1>eq DEF Finished

\* The layers that are destroyed at the end of a frame come back as new ones.
LEMMA PaintSide == TreeInv /\ SideInv /\ Paint => SideInv'
<1> SUFFICES ASSUME TreeInv, SideInv, Paint PROVE SideInv'
  OBVIOUS
<1>0. /\ Finished /\ TreeTypeOK /\ MountedOnce /\ LinksConsistent /\ UnmountedEmpty
      /\ HomesKept /\ TreeEnds /\ SkipsTrue /\ FitsMounted /\ RootUnmarked
      /\ Root \in Layer /\ NoLayer \notin Layer /\ parent \in [Layer -> Layer \cup {NoLayer}]
      /\ mounted \in [Layer -> Seq(View)] /\ View \subseteq Layer /\ skips \subseteq Layer
      /\ Root \notin View
  BY PaintLeaves, LayerTreeAssumption DEF TreeInv, TreeTypeOK, SideInv, GeometryOK, Layer
<1>1. HomesKept' /\ TreeEnds'
  BY <1>0, PaintHomes
<1>e. ToSet(<<>>) = {}
  BY DEF ToSet
\* A layer that is destroyed is above no other.
<1>2. ASSUME NEW q \in Dead PROVE mounted[q] = <<>> /\ children[q] = <<>> /\ q \in View
  BY <1>0 DEF Dead, UnmountedEmpty, Finished
<1>3. SkipsTrue'
  <2> SUFFICES ASSUME NEW l \in skips', NEW q \in Layer, parent'[l] = q \/ Home(l, q)'
               PROVE  kind'[q] = "scroll"
    BY DEF SkipsTrue
  <2>1. l \in Layer /\ l \in skips
    BY <1>0 DEF Finished
  <2>2. parent[l] = q \/ l \in ToSet(mounted[q])
    BY <1>0 DEF Finished, Home
  <2>3. kind[q] = "scroll"
    BY <1>0, <2>1, <2>2 DEF SkipsTrue, Home
  <2>4. q \notin Dead
    <3>1. parent[l] = q => l \in ToSet(children[q])
      BY <1>0, <2>1 DEF LinksConsistent, Children
    <3> QED BY <1>2, <1>e, <2>2, <3>1
  <2> QED BY <1>0, <2>3, <2>4 DEF Finished
<1>4. NewReady'
  <2> SUFFICES ASSUME NEW v \in View, ~Placed(v)', parent'[v] = NoLayer, children'[v] = <<>>
               PROVE  v \notin skips' /\ "layout" \in mask'[v] /\ mounted'[v] = <<>>
    BY DEF NewReady
  <2>1. ~Placed(v) /\ v # Root /\ parent[v] = NoLayer /\ children[v] = <<>>
    BY <1>0 DEF Placed, Finished
  <2>2. v \notin Mounted
    BY <1>0, <2>1, MountedInList
  <2>3. v \in Dead
    BY <2>1, <2>2 DEF Dead
  <2> QED BY <1>0, <1>2, <2>3 DEF Finished, InvalidateAll
<1>5. FitsMounted'
  <2> SUFFICES ASSUME NEW q \in Layer, NEW c \in ToSet(mounted[q])
               PROVE  Fits(frame[c], q, frame[q].w)'
    BY <1>0 DEF FitsMounted, FitsAll, Finished
  <2>1. Fits(frame[c], q, frame[q].w)
    BY <1>0 DEF FitsMounted, FitsAll
  <2>2. q \notin Dead
    BY <1>2, <1>e
  <2>3. c \notin Dead /\ c \in Layer
    <3>1. q \in Mounted
      <4>1. mounted[q] # <<>> /\ Root \in Mounted
        BY <1>0, <1>e, MountedIsLeast
      <4> QED BY <1>0, <4>1 DEF UnmountedEmpty, Layer, Finished
    <3> QED BY <1>0, <3>1, MountedIsLeast DEF Dead
  <2> QED BY <1>0, <2>1, <2>2, <2>3 DEF Finished, Fits, Clips
<1>6. RootUnmarked' /\ GeometryOK'
  <2>1. Root \notin Dead
    BY <1>0 DEF Dead
  <2> QED BY <1>0, <2>1 DEF Finished, RootUnmarked
<1> QED BY <1>1, <1>3, <1>4, <1>5, <1>6 DEF SideInv

\* At first every layer is new.
LEMMA SideStart == Init => SideInv
<1> SUFFICES ASSUME Init PROVE SideInv
  OBVIOUS
<1>0. Root \in Layer /\ NoLayer \notin Layer /\ Width \in Nat \ {0}
  BY LayerTreeAssumption DEF Layer
<1>1. /\ mounted = [l \in Layer |-> <<>>] /\ children = [l \in Layer |-> <<>>]
      /\ parent = [l \in Layer |-> NoLayer] /\ mask = [l \in Layer |-> InvalidateAll]
      /\ skips = {} /\ removed = {}
  BY DEF Init
<1>e. ToSet(<<>>) = {}
  BY DEF ToSet
<1>2. GeometryOK
  BY <1>0 DEF Init, GeometryOK, Kind
<1>3. HomesKept
  BY <1>1, <1>e DEF HomesKept, Home, Layer
<1>4. TreeEnds
  BY <1>0, <1>1, <1>e DEF TreeEnds, Acyclic, Founded, Children
<1>5. SkipsTrue /\ NewReady /\ RootUnmarked
  BY <1>0, <1>1 DEF SkipsTrue, NewReady, RootUnmarked, InvalidateAll, Layer
<1>6. FitsMounted
  BY <1>1, <1>e DEF FitsMounted, FitsAll
<1> QED BY <1>2, <1>3, <1>4, <1>5, <1>6 DEF SideInv

-----------------------------------------------------------------------------
(* What is above a layer.                                                  *)

\* A layer is reached when the layer above it is.
ReachedUp ==
  /\ Reached \in SUBSET Layer /\ Root \in Reached /\ NoLayer \notin Layer
  /\ parent[Root] = NoLayer
  /\ \A l \in Layer : l # Root => (l \in Reached <=> parent[l] \in Reached)

\* The tree below the root, seen from below.
LEMMA ReachedFromRoot == TreeInv => ReachedUp
<1> SUFFICES ASSUME TreeInv PROVE ReachedUp
  OBVIOUS
<1>0. /\ LinksConsistent /\ children \in [Layer -> Seq(View)] /\ Root \in Layer
      /\ parent \in [Layer -> Layer \cup {NoLayer}] /\ NoLayer \notin Layer
  BY LayerTreeAssumption DEF TreeInv, TreeTypeOK, Layer
<1>1. /\ Reached \in SUBSET Layer /\ Root \in Reached
      /\ \A q \in Reached : ToSet(children[q]) \subseteq Reached
  BY <1>0, SubtreeIsLeast DEF Reached, Holds
<1>2. ASSUME NEW l \in Layer, l # Root PROVE l \in Reached <=> parent[l] \in Reached
  <2>1. ASSUME l \in Reached PROVE parent[l] \in Reached
    <3>1. PICK q \in Reached : l \in ToSet(children[q])
      BY <1>0, <1>2, <2>1, ReachedFromList DEF Reached
    <3> QED BY <1>0, <1>1, <3>1 DEF LinksConsistent, Children
  <2>2. ASSUME parent[l] \in Reached PROVE l \in Reached
    <3>1. parent[l] \in Layer
      BY <1>1, <2>2
    <3>2. l \in ToSet(children[parent[l]])
      BY <1>0, <3>1 DEF LinksConsistent, Children
    <3> QED BY <1>1, <2>2, <3>2
  <2> QED BY <2>1, <2>2
<1> QED BY <1>0, <1>1, <1>2, RootAtTop DEF ReachedUp

RegionsComputed ==
  \A l \in Layer :
    /\ Above[l] = {l} \cup IF parent[l] = NoLayer THEN {} ELSE Above[parent[l]]
    /\ Region[l] = {x + ScrollOffset[l] : x \in bounds[l]}
                     \cap IF parent[l] = NoLayer THEN Surface ELSE Region[parent[l]]

\* What is computed upwards.
Computed == OffsetsComputed /\ FlagsComputed /\ RegionsComputed /\ ReachedUp

\* What the recursive definitions stand for.
LEMMA AllComputed == TreeInv /\ SideInv => Computed
<1> SUFFICES ASSUME TreeInv, SideInv PROVE Computed
  OBVIOUS
<1>1. OffsetsComputed /\ FlagsComputed /\ SetsComputed /\ ReachedUp
  BY Offsets, Flags, Sets, ReachedFromRoot DEF TreeInv, SideInv, TreeEnds
<1>2. \A l \in Layer : Shift(bounds[l], ScrollOffset[l]) = {x + ScrollOffset[l] : x \in bounds[l]}
  BY DEF Shift
<1>3. RegionsComputed
  BY <1>1, <1>2, Zenon DEF SetsComputed, RegionsComputed
<1> QED BY <1>1, <1>3 DEF Computed

\* What a layer shares with those above it.
AboveOK ==
  \A l \in Layer :
    /\ l \in Above[l] /\ Above[l] \subseteq Layer
    /\ parent[l] # NoLayer => /\ parent[l] \in Layer /\ Above[parent[l]] \subseteq Above[l]
                              /\ l \notin Above[parent[l]]
    /\ \A a \in Above[l] :
         /\ a # l => parent[l] # NoLayer /\ a \in Above[parent[l]]
         /\ l \in Reached => a \in Reached
         /\ Clean[l] => Clean[a]
         /\ LaidOut[a] => LaidOut[l]
         /\ Region[l] \subseteq Region[a]

\* What a layer has from those above it.
LEMMA AboveFacts == TreeInv /\ SideInv => AboveOK
<1> SUFFICES ASSUME TreeInv, SideInv PROVE AboveOK
  OBVIOUS
<1>0. /\ Computed /\ Acyclic /\ parent \in [Layer -> Layer \cup {NoLayer}]
      /\ NoLayer \notin Layer
  BY AllComputed, LayerTreeAssumption DEF TreeInv, TreeTypeOK, SideInv, TreeEnds, Layer
<1>1. \A l \in Layer : Above[l] = {l} \cup IF parent[l] = NoLayer THEN {} ELSE Above[parent[l]]
  BY <1>0 DEF Computed, RegionsComputed
<1> DEFINE Shares(l, a) ==
             /\ a \in Layer
             /\ a # l => parent[l] # NoLayer /\ a \in Above[parent[l]]
             /\ l \in Reached => a \in Reached
             /\ Clean[l] => Clean[a]
             /\ LaidOut[a] => LaidOut[l]
             /\ Region[l] \subseteq Region[a]
<1>2. \A l \in Layer : \A a \in Above[l] : Shares(l, a)
  <2> DEFINE T == {l \in Layer : \E a \in Above[l] : ~Shares(l, a)}
  <2> SUFFICES ASSUME T # {} PROVE FALSE
    OBVIOUS
  <2>1. PICK l \in T : parent[l] \notin T
    BY <1>0 DEF Acyclic
  <2>2. PICK a \in Above[l] : ~Shares(l, a)
    OBVIOUS
  <2>3. a # l
    BY <2>2
  <2>4. parent[l] # NoLayer /\ a \in Above[parent[l]] /\ parent[l] \in Layer
    BY <1>0, <1>1, <2>3
  <2>5. Shares(parent[l], a)
    BY <2>1, <2>4
  <2>6. /\ Clean[l] => Clean[parent[l]]
        /\ LaidOut[parent[l]] => LaidOut[l]
        /\ Region[l] \subseteq Region[parent[l]]
        /\ l \in Reached => parent[l] \in Reached
    BY <1>0, <2>4 DEF Computed, FlagsComputed, RegionsComputed, ReachedUp
  <2>7. Shares(l, a)
    BY <2>3, <2>4, <2>5, <2>6
  <2> QED BY <2>2, <2>7
<1>3. ASSUME NEW l \in Layer, parent[l] # NoLayer, l \in Above[parent[l]] PROVE FALSE
  <2> DEFINE T == {x \in Layer : l \in Above[x]}
  <2>1. l \in T
    BY <1>1
  <2>2. PICK x \in T : parent[x] \notin T
    BY <1>0, <2>1 DEF Acyclic
  <2>3. CASE x = l
    BY <1>0, <1>3, <2>2, <2>3
  <2>4. CASE x # l
    BY <1>0, <1>1, <2>2, <2>4
  <2> QED BY <2>3, <2>4
<1>4. ASSUME NEW l \in Layer
      PROVE  /\ l \in Above[l] /\ Above[l] \subseteq Layer
             /\ parent[l] # NoLayer => /\ parent[l] \in Layer /\ Above[parent[l]] \subseteq Above[l]
                                       /\ l \notin Above[parent[l]]
  BY <1>0, <1>1, <1>2, <1>3
<1> QED BY <1>2, <1>4 DEF AboveOK

-----------------------------------------------------------------------------
(* The pixels.                                                             *)

\* The cached place of a layer is where it is.
ExactAt(l) ==
  /\ bounds[l] = Shift(Extent(frame[l]), origin[l])
  /\ origin[l] = IF parent[l] = NoLayer \/ kind[parent[l]] = "scroll" THEN 0
                 ELSE origin[parent[l]] + frame[parent[l]].x

Exact == \A l \in Reached : ~LaidOut[l] => ExactAt(l)

\* After prePaint, and between two transactions, nothing is out of date.
Cleared == phase = "paint" \/ (phase = "idle" /\ count > 0) => \A l \in Reached : mask[l] = {}

\* b is out of date, and nothing above it is.
TopDirty(b) == mask[b] # {} /\ (parent[b] # NoLayer => Clean[parent[b]])

\* A tile that is not under a layer that is out of date, and not about to be painted,
\* shows the layers that are up to date.
ScreenTrue ==
  \A t \in Surface :
    /\ phase = "paint" => t \notin damage
    /\ \A b \in Reached : TopDirty(b) => t \notin Region[b]
    => screen[t] = Drawing({l \in Reached : Clean[l] /\ t \in Region[l]})

PixelInv == Exact /\ Cleared /\ ScreenTrue

\* A step of a transaction: what it does to v is marked in the mask of v.
Mutates(v) ==
  /\ v \in View
  /\ phase = "mutate" /\ phase' = "mutate"
  /\ UNCHANGED <<screen, origin, bounds>>
  /\ \A l \in Layer :
       l # v => /\ parent'[l] = parent[l] /\ kind'[l] = kind[l] /\ frame'[l] = frame[l]
                /\ picture'[l] = picture[l] /\ scroll'[l] = scroll[l] /\ mask'[l] = mask[l]
  /\ mask'[v] # {}
  /\ parent[v] # NoLayer => parent'[v] = parent[v]
  /\ "layout" \in mask[v] => "layout" \in mask'[v]
  /\ "layout" \notin mask'[v] =>
       parent'[v] = parent[v] /\ kind'[v] = kind[v] /\ frame'[v] = frame[v]
  /\ \A q \in Layer : \A x, y :
       x # v /\ y # v => (InOrder(children'[q], x, y) <=> InOrder(children[q], x, y))

\* A view that is created had no place, and its layer is to be laid out.
LEMMA CreateMutates ==
  ASSUME TreeInv, SideInv, NEW v \in Unplaced, NEW p \in Mounted,
         NEW i \in 0..Len(mounted[p]), NEW f \in Frame, NEW k \in Kind, CreateView(v, p, i, f, k)
  PROVE  Mutates(v)
<1>1. /\ v \in View /\ ~Placed(v) /\ PlaceFor(v, p, i) /\ InsertChild(p, v, i)
      /\ phase = "mutate"
  BY DEF CreateView, Unplaced, Placed, PlaceFor, Mutation
<1>2. /\ parent[v] = NoLayer /\ children[v] = <<>> /\ (\A q \in Layer : <<v, q>> \notin removed)
      /\ frame' = [frame EXCEPT ![v] = f] /\ picture' = [picture EXCEPT ![v] = 0]
      /\ kind' = [kind EXCEPT ![v] = k]
      /\ UNCHANGED <<scroll, mask, origin, bounds, screen, phase>>
  BY DEF CreateView, UpdateAll, cacheVars
<1>3. GeometryOK /\ TreeTypeOK /\ NewReady /\ v \in Layer /\ p \in Layer /\ i \in Nat
  BY <1>1, MountedIsLeast DEF SideInv, TreeInv, Layer
<1>4. "layout" \in mask[v]
  BY <1>1, <1>2, <1>3 DEF NewReady
<1>5. parent' = [parent EXCEPT ![v] = p]
  BY DEF CreateView, InsertChild
<1>6. \A q \in Layer : \A x, y :
        x # v /\ y # v => (InOrder(children'[q], x, y) <=> InOrder(children[q], x, y))
  BY <1>1, <1>3, InsertLists
<1>7. \A l \in Layer :
       l # v => /\ parent'[l] = parent[l] /\ kind'[l] = kind[l] /\ frame'[l] = frame[l]
                /\ picture'[l] = picture[l] /\ scroll'[l] = scroll[l] /\ mask'[l] = mask[l]
  BY <1>2, <1>3, <1>5 DEF GeometryOK, TreeTypeOK
<1> QED BY <1>1, <1>2, <1>4, <1>6, <1>7 DEF Mutates

\* A view that is inserted again is marked, and keeps its parent.
LEMMA ReinsertMutates ==
  ASSUME TreeInv, SideInv, InPlace, NEW v \in Unplaced, NEW p \in Mounted,
         NEW i \in 0..Len(mounted[p]), NEW f \in Frame, ReinsertView(v, p, i, f)
  PROVE  Mutates(v)
<1>1. /\ v \in View /\ PlaceFor(v, p, i) /\ InsertChild(p, v, i) /\ phase = "mutate"
  BY DEF ReinsertView, Unplaced, PlaceFor, Mutation
<1>2. /\ frame' = [frame EXCEPT ![v] = f] /\ picture' = [picture EXCEPT ![v] = picture[v]]
      /\ mask' = [mask EXCEPT ![v] = @ \cup InvalidateAll]
      /\ UNCHANGED <<kind, scroll, origin, bounds, screen, phase>>
  BY DEF ReinsertView, UpdateAll, cacheVars
<1>3. GeometryOK /\ TreeTypeOK /\ HomesKept /\ v \in Layer /\ p \in Layer /\ i \in Nat
  BY <1>1, MountedIsLeast DEF SideInv, TreeInv, Layer
<1>4. "layout" \in mask'[v]
  BY <1>2, <1>3 DEF TreeTypeOK, InvalidateAll
<1>5. parent' = [parent EXCEPT ![v] = p]
  BY DEF ReinsertView, InsertChild
<1>6. \A q \in Layer : \A x, y :
        x # v /\ y # v => (InOrder(children'[q], x, y) <=> InOrder(children[q], x, y))
  BY <1>1, <1>3, InsertLists
<1>7. \A l \in Layer :
       l # v => /\ parent'[l] = parent[l] /\ kind'[l] = kind[l] /\ frame'[l] = frame[l]
                /\ picture'[l] = picture[l] /\ scroll'[l] = scroll[l] /\ mask'[l] = mask[l]
  BY <1>2, <1>3, <1>5 DEF GeometryOK, TreeTypeOK
<1>8. parent[v] # NoLayer => parent'[v] = parent[v]
  <2>1. <<v, p>> \in removed
    BY <1>1, <1>3, ReinsertHome
  <2>2. parent[v] = p \/ parent[v] = NoLayer
    BY <1>1, <1>3, <2>1 DEF HomesKept, Home
  <2> QED BY <1>3, <1>5, <2>2 DEF TreeTypeOK
<1> QED BY <1>1, <1>2, <1>4, <1>6, <1>7, <1>8 DEF Mutates

\* A removal marks the layer.
LEMMA RemoveMutates ==
  ASSUME TreeInv, SideInv, NEW v \in Mounted \ {Root}, RemoveView(v)
  PROVE  Mutates(v)
<1>1. /\ phase = "mutate" /\ mask' = [mask EXCEPT ![v] = @ \cup {"remove"}]
      /\ UNCHANGED <<kind, frame, picture, scroll, children, parent, origin, bounds, screen, phase>>
  BY DEF RemoveView, Mutation, treeVars, cacheVars
<1>2. TreeTypeOK /\ MountedOnce
  BY DEF TreeInv
<1>3. v \in View /\ v \in Layer
  BY <1>2, MountedInList DEF Layer
<1> QED BY <1>1, <1>2, <1>3 DEF Mutates, TreeTypeOK

\* An update marks the layer.
LEMMA UpdateMutates ==
  ASSUME TreeInv, SideInv, NEW v \in Mounted \ {Root}, NEW f \in Frame, NEW pic \in {0, 1},
         UpdateView(v, f, pic)
  PROVE  Mutates(v)
<1>1. /\ phase = "mutate" /\ mask' = [mask EXCEPT ![v] = @ \cup InvalidateAll]
      /\ frame' = [frame EXCEPT ![v] = f] /\ picture' = [picture EXCEPT ![v] = pic]
      /\ UNCHANGED <<kind, scroll, children, parent, origin, bounds, screen, phase>>
  BY DEF UpdateView, UpdateAll, Mutation, treeVars, cacheVars
<1>2. TreeTypeOK /\ MountedOnce /\ GeometryOK
  BY DEF TreeInv, SideInv
<1>3. v \in View /\ v \in Layer
  BY <1>2, MountedInList DEF Layer
<1> QED BY <1>1, <1>2, <1>3 DEF Mutates, TreeTypeOK, GeometryOK, InvalidateAll

\* Scrolling marks the scroll layer.
LEMMA ScrollMutates ==
  ASSUME TreeInv, SideInv, NEW v \in Mounted \ {Root}, NEW x \in Surface, HandleScroll(v, x)
  PROVE  Mutates(v)
<1>1. /\ phase = "mutate" /\ mask' = [mask EXCEPT ![v] = @ \cup {"paint"}]
      /\ scroll' = [scroll EXCEPT ![v] = x]
      /\ UNCHANGED <<kind, frame, picture, children, parent, origin, bounds, screen, phase>>
  BY DEF HandleScroll, Mutation, treeVars, cacheVars
<1>2. TreeTypeOK /\ MountedOnce /\ GeometryOK
  BY DEF TreeInv, SideInv
<1>3. v \in View /\ v \in Layer
  BY <1>2, MountedInList DEF Layer
<1> QED BY <1>1, <1>2, <1>3 DEF Mutates, TreeTypeOK, GeometryOK

\* The same in the next state.
LEMMA NextComputed == TreeInv' /\ SideInv' => Computed' /\ AboveOK'
<1>1. TreeInv /\ SideInv => Computed /\ AboveOK
  BY AllComputed, AboveFacts
<1> QED BY <1>1, PTL

\* What a step of a transaction leaves alone: the layers that v is not above.
Untouched(l) ==
  /\ parent'[l] = parent[l]
  /\ Above'[l] = Above[l]
  /\ ScrollOffset'[l] = ScrollOffset[l]
  /\ Region'[l] = Region[l]
  /\ Clean'[l] <=> Clean[l]
  /\ LaidOut'[l] <=> LaidOut[l]
  /\ l \in Reached' <=> l \in Reached

\* A step of a transaction reaches only what is below the layer it marks.
LEMMA MutationTouches ==
  ASSUME TreeInv, SideInv, TreeInv', SideInv', NEW v, Mutates(v)
  PROVE  /\ \A l \in Layer : v \notin Above[l] => Untouched(l)
         /\ \A l \in Layer : v \in Above[l] => v \in Above'[l]
<1>0. /\ Computed /\ Computed' /\ AboveOK /\ AboveOK' /\ Acyclic /\ NoLayer \notin Layer /\ v \in Layer
      /\ parent \in [Layer -> Layer \cup {NoLayer}] /\ Root \in Layer
  BY AllComputed, AboveFacts, NextComputed, LayerTreeAssumption
     DEF TreeInv, TreeTypeOK, SideInv, TreeEnds, Layer, Mutates
<1>r. \A l \in Layer :
        /\ Above[l] = {l} \cup IF parent[l] = NoLayer THEN {} ELSE Above[parent[l]]
        /\ Above'[l] = {l} \cup IF parent'[l] = NoLayer THEN {} ELSE Above'[parent'[l]]
        /\ Region[l] = {x + ScrollOffset[l] : x \in bounds[l]}
                         \cap IF parent[l] = NoLayer THEN Surface ELSE Region[parent[l]]
        /\ Region'[l] = {x + ScrollOffset'[l] : x \in bounds'[l]}
                          \cap IF parent'[l] = NoLayer THEN Surface ELSE Region'[parent'[l]]
  BY <1>0, Zenon DEF Computed, RegionsComputed
<1>1. \A l \in Layer : v \notin Above[l] => Untouched(l)
  <2> DEFINE T == {l \in Layer : v \notin Above[l] /\ ~Untouched(l)}
  <2> SUFFICES ASSUME T # {} PROVE FALSE
    OBVIOUS
  <2>1. PICK l \in T : parent[l] \notin T
    BY <1>0 DEF Acyclic
  <2>2. /\ l \in Layer /\ l # v /\ parent'[l] = parent[l] /\ mask'[l] = mask[l]
        /\ bounds'[l] = bounds[l]
    BY <1>0, <2>1 DEF AboveOK, Mutates
  <2>3. CASE parent[l] = NoLayer
    <3>1. /\ Above'[l] = {l} /\ Above[l] = {l}
          /\ ScrollOffset'[l] = 0 /\ ScrollOffset[l] = 0
      BY <1>0, <2>2, <2>3 DEF Computed, RegionsComputed, OffsetsComputed
    <3>2. Region'[l] = Region[l]
      <4>1. Region[l] = {x + ScrollOffset[l] : x \in bounds[l]} \cap Surface
        BY <1>r, <2>2, <2>3
      <4>2. Region'[l] = {x + ScrollOffset'[l] : x \in bounds'[l]} \cap Surface
        BY <1>r, <2>2, <2>3
      <4> QED BY <2>2, <3>1, <4>1, <4>2
    <3>3. (Clean'[l] <=> Clean[l]) /\ (LaidOut'[l] <=> LaidOut[l])
      BY <1>0, <2>2, <2>3 DEF Computed, FlagsComputed
    <3>4. l \in Reached' <=> l \in Reached
      BY <1>0, <2>2, <2>3 DEF Computed, ReachedUp
    <3> QED BY <2>1, <2>2, <3>1, <3>2, <3>3, <3>4 DEF Untouched
  <2>4. CASE parent[l] # NoLayer
    <3> DEFINE q == parent[l]
    <3>1. q \in Layer /\ v \notin Above[q] /\ q # v
      BY <1>0, <2>1, <2>4 DEF AboveOK
    <3>2. Untouched(q)
      BY <2>1, <3>1
    <3>3. kind'[q] = kind[q] /\ frame'[q] = frame[q] /\ scroll'[q] = scroll[q] /\ origin'[q] = origin[q]
      BY <3>1 DEF Mutates
    <3>4. Above'[l] = Above[l]
      <4>1. Above[l] = {l} \cup Above[q]
        BY <1>r, <2>2, <2>4
      <4>2. Above'[l] = {l} \cup Above'[q]
        BY <1>r, <2>2, <2>4
      <4> QED BY <3>2, <4>1, <4>2 DEF Untouched
    <3>5. ScrollOffset'[l] = ScrollOffset[l]
      <4>1. ScrollOffset[l] = ScrollOffset[q] +
              IF kind[q] = "scroll" THEN ScrollShift(q, origin[q] + frame[q].x) ELSE 0
        BY <1>0, <2>4 DEF Computed, OffsetsComputed
      <4>2. ScrollOffset'[l] = ScrollOffset'[q] +
              IF kind'[q] = "scroll" THEN (origin'[q] + frame'[q].x) - scroll'[q] ELSE 0
        BY <1>0, <2>2, <2>4 DEF Computed, OffsetsComputed, ScrollShift
      <4> QED BY <3>2, <3>3, <4>1, <4>2 DEF Untouched, ScrollShift
    <3>6. Region'[l] = Region[l]
      <4>1. Region[l] = {x + ScrollOffset[l] : x \in bounds[l]} \cap Region[q]
        BY <1>r, <2>2, <2>4
      <4>2. Region'[l] = {x + ScrollOffset'[l] : x \in bounds'[l]} \cap Region'[q]
        BY <1>r, <2>2, <2>4
      <4> QED BY <2>2, <3>2, <3>5, <4>1, <4>2 DEF Untouched
    <3>7. (Clean'[l] <=> Clean[l]) /\ (LaidOut'[l] <=> LaidOut[l])
      BY <1>0, <2>2, <2>4, <3>2 DEF Computed, FlagsComputed, Untouched
    <3>8. l \in Reached' <=> l \in Reached
      BY <1>0, <2>2, <2>4, <3>2 DEF Computed, ReachedUp, Untouched
    <3> QED BY <2>1, <2>2, <3>4, <3>5, <3>6, <3>7, <3>8 DEF Untouched
  <2> QED BY <2>3, <2>4
<1>2. \A l \in Layer : v \in Above[l] => v \in Above'[l]
  <2> DEFINE T == {l \in Layer : v \in Above[l] /\ v \notin Above'[l]}
  <2> SUFFICES ASSUME T # {} PROVE FALSE
    OBVIOUS
  <2>1. PICK l \in T : parent[l] \notin T
    BY <1>0 DEF Acyclic
  <2>2. l \in Layer /\ l # v
    BY <1>0, <2>1 DEF AboveOK
  <2>3. parent[l] # NoLayer /\ v \in Above[parent[l]] /\ parent[l] \in Layer
    BY <1>0, <2>1, <2>2 DEF AboveOK
  <2>4. v \in Above'[parent[l]] /\ parent'[l] = parent[l]
    BY <2>1, <2>2, <2>3 DEF Mutates
  <2> QED BY <1>0, <2>1, <2>2, <2>3, <2>4 DEF AboveOK
<1> QED BY <1>1, <1>2

\* Where v was, the tiles now count as out of date.
LEMMA MutationCovers ==
  ASSUME TreeInv, SideInv, TreeInv', SideInv', NEW v, Mutates(v),
         NEW l \in Reached, v \in Above[l], parent[l] # NoLayer => Clean[parent[l]],
         NEW t \in Region[l]
  PROVE  v \in Reached' /\ TopDirty(v)' /\ t \in Region'[v]
<1>0. /\ Computed /\ Computed' /\ AboveOK /\ AboveOK' /\ NoLayer \notin Layer /\ v \in Layer
      /\ parent \in [Layer -> Layer \cup {NoLayer}] /\ v # Root /\ l \in Layer
  BY AllComputed, AboveFacts, NextComputed, LayerTreeAssumption
     DEF TreeInv, TreeTypeOK, Layer, Mutates, Computed, ReachedUp
<1>r. \A k \in Layer :
        /\ Above[k] = {k} \cup IF parent[k] = NoLayer THEN {} ELSE Above[parent[k]]
        /\ Above'[k] = {k} \cup IF parent'[k] = NoLayer THEN {} ELSE Above'[parent'[k]]
        /\ Region[k] = {x + ScrollOffset[k] : x \in bounds[k]}
                         \cap IF parent[k] = NoLayer THEN Surface ELSE Region[parent[k]]
        /\ Region'[k] = {x + ScrollOffset'[k] : x \in bounds'[k]}
                          \cap IF parent'[k] = NoLayer THEN Surface ELSE Region'[parent'[k]]
  BY <1>0, Zenon DEF Computed, RegionsComputed
<1> DEFINE q == parent[v]
<1>1. v \in Reached /\ q \in Reached /\ q \in Layer /\ q # NoLayer
  BY <1>0 DEF AboveOK, Computed, ReachedUp
<1>2. parent'[v] = q /\ v \notin Above[q] /\ q # v
  BY <1>0, <1>1 DEF AboveOK, Mutates
<1>3. Untouched(q)
  BY <1>1, <1>2, MutationTouches
<1>4. Clean[q]
  <2>1. CASE l = v
    BY <1>1, <2>1
  <2>2. CASE l # v
    <3>1. parent[l] # NoLayer /\ v \in Above[parent[l]] /\ parent[l] \in Layer
      BY <1>0, <2>2 DEF AboveOK
    <3>2. Clean[v]
      BY <1>0, <3>1 DEF AboveOK
    <3> QED BY <1>0, <1>1, <3>2 DEF Computed, FlagsComputed
  <2> QED BY <2>1, <2>2
<1>5. v \in Reached'
  BY <1>0, <1>1, <1>2, <1>3 DEF Computed, ReachedUp, Untouched
<1>6. TopDirty(v)'
  BY <1>1, <1>2, <1>3, <1>4 DEF TopDirty, Untouched, Mutates
<1>7. ScrollOffset'[v] = ScrollOffset[v]
  <2>1. kind'[q] = kind[q] /\ frame'[q] = frame[q] /\ scroll'[q] = scroll[q] /\ origin'[q] = origin[q]
    BY <1>1, <1>2 DEF Mutates
  <2>2. ScrollOffset[v] = ScrollOffset[q] +
          IF kind[q] = "scroll" THEN ScrollShift(q, origin[q] + frame[q].x) ELSE 0
    BY <1>0, <1>1 DEF Computed, OffsetsComputed
  <2>3. ScrollOffset'[v] = ScrollOffset'[q] +
          IF kind'[q] = "scroll" THEN (origin'[q] + frame'[q].x) - scroll'[q] ELSE 0
    BY <1>0, <1>1, <1>2 DEF Computed, OffsetsComputed, ScrollShift
  <2> QED BY <1>3, <2>1, <2>2, <2>3 DEF Untouched, ScrollShift
<1>8. Region'[v] = Region[v]
  <2>1. bounds'[v] = bounds[v] /\ Region'[q] = Region[q]
    BY <1>3 DEF Mutates, Untouched
  <2>2. Region[v] = {x + ScrollOffset[v] : x \in bounds[v]} \cap Region[q]
    BY <1>0, <1>r, <1>1
  <2>3. Region'[v] = {x + ScrollOffset'[v] : x \in bounds'[v]} \cap Region'[q]
    BY <1>0, <1>r, <1>1, <1>2
  <2> QED BY <1>7, <2>1, <2>2, <2>3
<1>9. t \in Region[v]
  BY <1>0 DEF AboveOK
<1> QED BY <1>5, <1>6, <1>8, <1>9

\* What is drawn of layers that nothing changes.
LEMMA SameDrawing ==
  ASSUME NEW drawn,
         \A l \in drawn : l \in Layer /\ Above'[l] = Above[l] /\ picture'[l] = picture[l],
         \A l, m \in drawn : \A c \in Above[l], d \in Above[m], q \in Layer :
           InOrder(children'[q], c, d) <=> InOrder(children[q], c, d)
  PROVE  Drawing(drawn)' = Drawing(drawn)
<1>1. {<<l, picture'[l]>> : l \in drawn} = {<<l, picture[l]>> : l \in drawn}
  OBVIOUS
<1>2. \A l, m \in drawn : DrawnBefore(l, m)' <=> DrawnBefore(l, m)
  BY DEF DrawnBefore
<1>3. {o \in drawn \X drawn : DrawnBefore(o[1], o[2])'} = {o \in drawn \X drawn : DrawnBefore(o[1], o[2])}
  BY <1>2
<1>4. Drawing(drawn)' = [pictures |-> {<<l, picture'[l]>> : l \in drawn},
                         order |-> {o \in drawn \X drawn : DrawnBefore(o[1], o[2])'}]
  BY DEF Drawing
<1> QED BY <1>1, <1>3, <1>4 DEF Drawing

\* Bounds that need no layout are right, whatever a transaction does.
LEMMA MutationExact ==
  ASSUME TreeInv, SideInv, TreeInv', SideInv', NEW v, Mutates(v), Exact
  PROVE  Exact'
<1>0. /\ Computed /\ Computed' /\ AboveOK /\ AboveOK' /\ Acyclic /\ NoLayer \notin Layer /\ v \in Layer
      /\ parent \in [Layer -> Layer \cup {NoLayer}] /\ Root \in Layer /\ Reached' \subseteq Layer
  BY AllComputed, AboveFacts, NextComputed, LayerTreeAssumption
     DEF TreeInv, TreeTypeOK, SideInv, TreeEnds, Layer, Mutates, Computed, ReachedUp
<1> SUFFICES ASSUME NEW l \in Reached', ~LaidOut'[l] PROVE ExactAt(l)'
  BY DEF Exact
<1>1. l \in Layer
  BY <1>0
<1>2. CASE v \notin Above[l]
  <2>1. Untouched(l) /\ l # v
    BY <1>0, <1>1, <1>2, MutationTouches DEF AboveOK
  <2>2. ExactAt(l)
    BY <2>1 DEF Exact, Untouched
  <2>3. parent[l] # NoLayer => parent[l] \in Layer /\ parent[l] # v
    BY <1>0, <1>1, <1>2 DEF AboveOK
  <2>4. /\ parent'[l] = parent[l] /\ frame'[l] = frame[l] /\ origin' = origin /\ bounds' = bounds
        /\ parent[l] # NoLayer => /\ kind'[parent[l]] = kind[parent[l]]
                                  /\ frame'[parent[l]] = frame[parent[l]]
    BY <1>1, <2>1, <2>3 DEF Mutates
  <2> QED BY <2>2, <2>4 DEF ExactAt, Shift, Extent
<1>3. CASE v \in Above[l]
  <2>1. v \in Above'[l]
    BY <1>1, <1>3, MutationTouches
  <2>2. "layout" \notin mask'[v]
    BY <1>0, <1>1, <2>1 DEF AboveOK, Computed, FlagsComputed
  <2>3. /\ \A k \in Layer : /\ parent'[k] = parent[k] /\ kind'[k] = kind[k] /\ frame'[k] = frame[k]
                            /\ "layout" \in mask[k] => "layout" \in mask'[k]
        /\ origin' = origin /\ bounds' = bounds
    BY <2>2 DEF Mutates
  <2>4. \A k \in Layer : /\ LaidOut[k] => LaidOut'[k]
                         /\ k \in Reached' => k \in Reached
    <3> DEFINE Same(k) == (LaidOut[k] => LaidOut'[k]) /\ (k \in Reached' => k \in Reached)
               T == {k \in Layer : ~Same(k)}
    <3> SUFFICES ASSUME T # {} PROVE FALSE
      OBVIOUS
    <3>1. PICK k \in T : parent[k] \notin T
      BY <1>0 DEF Acyclic
    <3>2. parent[k] # NoLayer => parent[k] \in Layer /\ Same(parent[k])
      BY <1>0, <3>1
    <3>3. LaidOut[k] => LaidOut'[k]
      BY <1>0, <2>3, <3>2 DEF Computed, FlagsComputed
    <3>4. k \in Reached' => k \in Reached
      BY <1>0, <2>3, <3>2 DEF Computed, ReachedUp
    <3> QED BY <3>1, <3>3, <3>4
  <2>5. ExactAt(l)
    BY <1>1, <2>4 DEF Exact
  <2>6. parent[l] # NoLayer => parent[l] \in Layer
    BY <1>0, <1>1
  <2> QED BY <1>1, <2>3, <2>5, <2>6 DEF ExactAt, Shift, Extent
<1> QED BY <1>2, <1>3

\* What a transaction changes is out of date, and the rest is on the screen.
LEMMA MutationScreen ==
  ASSUME TreeInv, SideInv, TreeInv', SideInv', NEW v, Mutates(v), ScreenTrue
  PROVE  ScreenTrue'
<1>0. /\ Computed /\ Computed' /\ AboveOK /\ AboveOK' /\ NoLayer \notin Layer /\ v \in Layer
      /\ parent \in [Layer -> Layer \cup {NoLayer}]
      /\ Reached \subseteq Layer /\ Reached' \subseteq Layer
  BY AllComputed, AboveFacts, NextComputed, LayerTreeAssumption
     DEF TreeInv, TreeTypeOK, Layer, Mutates, Computed, ReachedUp
<1> SUFFICES ASSUME NEW t \in Surface, \A b \in Reached' : TopDirty(b)' => t \notin Region'[b]
             PROVE  screen'[t] = Drawing({l \in Reached : Clean[l] /\ t \in Region[l]})'
  BY DEF ScreenTrue
<1> DEFINE drawn == {l \in Reached : Clean[l] /\ t \in Region[l]}
\* Nothing that this tile shows is below v.
<1>1. ASSUME NEW l \in Reached, t \in Region[l], parent[l] # NoLayer => Clean[parent[l]]
      PROVE  v \notin Above[l]
  BY <1>1, MutationCovers
<1>2. ASSUME NEW b \in Reached, TopDirty(b) PROVE t \notin Region[b]
  <2> SUFFICES ASSUME t \in Region[b] PROVE FALSE
    OBVIOUS
  <2>1. v \notin Above[b] /\ b \in Layer
    BY <1>0, <1>1, <1>2 DEF TopDirty
  <2>2. Untouched(b) /\ b # v
    BY <1>0, <2>1, MutationTouches DEF AboveOK
  <2>3. parent[b] # NoLayer => Untouched(parent[b])
    <3>1. parent[b] # NoLayer => parent[b] \in Layer /\ v \notin Above[parent[b]]
      BY <1>0, <2>1 DEF AboveOK
    <3> QED BY <3>1, MutationTouches
  <2>4. TopDirty(b)'
    BY <1>2, <2>1, <2>2, <2>3 DEF TopDirty, Untouched, Mutates
  <2> QED BY <2>2, <2>4 DEF Untouched
<1>3. screen[t] = Drawing(drawn)
  BY <1>2 DEF ScreenTrue, Mutates
<1>4. \A l \in drawn : l \in Layer /\ v \notin Above[l] /\ Untouched(l) /\ l # v
  <2> SUFFICES ASSUME NEW l \in drawn PROVE l \in Layer /\ v \notin Above[l] /\ Untouched(l) /\ l # v
    OBVIOUS
  <2>1. l \in Layer
    BY <1>0
  <2>2. parent[l] # NoLayer => Clean[parent[l]]
    BY <1>0, <2>1 DEF Computed, FlagsComputed
  <2>3. v \notin Above[l]
    BY <1>1, <2>2
  <2> QED BY <1>0, <2>1, <2>3, MutationTouches DEF AboveOK
<1>5. drawn' = drawn
  <2>1. drawn' = {l \in Reached' : Clean'[l] /\ t \in Region'[l]}
    OBVIOUS
  <2>2. ASSUME NEW l \in Reached', Clean'[l], t \in Region'[l] PROVE l \in drawn
    <3>1. v \notin Above[l]
      <4> SUFFICES ASSUME v \in Above[l] PROVE FALSE
        OBVIOUS
      <4>1. v \in Above'[l]
        BY <1>0, MutationTouches
      <4>2. Clean'[v]
        BY <1>0, <2>2, <4>1 DEF AboveOK
      <4> QED BY <1>0, <4>2 DEF Computed, FlagsComputed, Mutates
    <3>2. Untouched(l)
      BY <1>0, <3>1, MutationTouches
    <3> QED BY <2>2, <3>2 DEF Untouched
  <2>3. ASSUME NEW l \in drawn PROVE l \in Reached' /\ Clean'[l] /\ t \in Region'[l]
    BY <1>4 DEF Untouched
  <2> HIDE DEF drawn
  <2> QED BY <2>1, <2>2, <2>3
<1>6. Drawing(drawn)' = Drawing(drawn)
  <2>1. \A l \in drawn : l \in Layer /\ Above'[l] = Above[l] /\ picture'[l] = picture[l]
    BY <1>4 DEF Untouched, Mutates
  <2>2. ASSUME NEW l \in drawn, NEW m \in drawn, NEW c \in Above[l], NEW d \in Above[m], NEW q \in Layer
        PROVE  InOrder(children'[q], c, d) <=> InOrder(children[q], c, d)
    BY <1>4 DEF Mutates
  <2> HIDE DEF drawn
  <2> QED BY <1>5, <2>1, <2>2, SameDrawing
<1>7. screen'[t] = screen[t]
  BY DEF Mutates
<1> QED BY <1>3, <1>6, <1>7

\* A step of a transaction keeps the invariant of the pixels.
LEMMA MutationPixels ==
  ASSUME TreeInv, SideInv, TreeInv', SideInv', NEW v, Mutates(v), PixelInv
  PROVE  PixelInv'
<1>1. Cleared'
  BY DEF Cleared, Mutates
<1> QED BY <1>1, MutationExact, MutationScreen DEF PixelInv

\* The layers that prePaint leaves in the tree.
LEMMA PrePaintReach ==
  ASSUME TreeInv, SideInv, TreeInv', SideInv', PrePainted
  PROVE  \A l \in Reached' :
           /\ l \in Reached /\ "remove" \notin mask[l] /\ parent'[l] = parent[l]
           /\ parent[l] # NoLayer => parent[l] \in Reached'
<1>0. /\ Computed /\ Computed' /\ Acyclic /\ NoLayer \notin Layer /\ RootUnmarked
      /\ parent \in [Layer -> Layer \cup {NoLayer}]
      /\ Reached \subseteq Layer /\ Reached' \subseteq Layer
  BY AllComputed, NextComputed, LayerTreeAssumption
     DEF TreeInv, TreeTypeOK, SideInv, TreeEnds, Layer, Computed, ReachedUp
<1>1. \A l \in Reached' : l # Root => parent'[l] = parent[l] /\ parent[l] \in Reached'
  <2> SUFFICES ASSUME NEW l \in Reached', l # Root
               PROVE  parent'[l] = parent[l] /\ parent[l] \in Reached'
    OBVIOUS
  <2>1. l \in Layer /\ parent'[l] \in Reached'
    BY <1>0 DEF Computed, ReachedUp
  <2>2. parent'[l] # NoLayer
    BY <1>0, <2>1
  <2>3. parent'[l] = parent[l]
    BY <2>1, <2>2 DEF PrePainted
  <2> QED BY <2>1, <2>3
<1>2. Reached' \subseteq Reached
  <2> DEFINE T == Reached' \ Reached
  <2> SUFFICES ASSUME T # {} PROVE FALSE
    OBVIOUS
  <2>1. PICK l \in T : parent[l] \notin T
    BY <1>0 DEF Acyclic
  <2>2. l # Root
    BY <1>0 DEF Computed, ReachedUp
  <2> QED BY <1>0, <1>1, <2>1, <2>2 DEF Computed, ReachedUp
<1> SUFFICES ASSUME NEW l \in Reached'
             PROVE  /\ "remove" \notin mask[l] /\ parent'[l] = parent[l]
                    /\ parent[l] # NoLayer => parent[l] \in Reached'
  BY <1>2
<1>3. CASE l = Root
  BY <1>0, <1>3 DEF RootUnmarked, Computed, ReachedUp
<1>4. CASE l # Root
  <2>1. parent'[l] = parent[l] /\ parent[l] \in Reached' /\ parent'[l] # NoLayer
    BY <1>0, <1>1, <1>4
  <2> QED BY <1>0, <1>2, <2>1 DEF PrePainted
<1> QED BY <1>3, <1>4

\* After prePaint nothing that is reached is out of date.
LEMMA PrePaintClears ==
  ASSUME TreeInv, SideInv, TreeInv', SideInv', PrePainted
  PROVE  /\ \A l \in Reached' : mask'[l] = {} /\ Clean'[l] /\ ~LaidOut'[l]
         /\ Cleared'
<1>0. /\ Computed' /\ Acyclic' /\ NoLayer \notin Layer
      /\ Reached \subseteq Layer /\ Reached' \subseteq Layer
      /\ mask \in [Layer -> SUBSET {"paint", "layout", "remove"}]
  BY AllComputed, NextComputed, LayerTreeAssumption
     DEF TreeInv, TreeTypeOK, SideInv, TreeEnds, Layer, Computed, ReachedUp
<1>1. \A l \in Reached' : mask'[l] = {}
  BY <1>0, PrePaintReach DEF PrePainted
<1>2. \A l \in Reached' : Clean'[l] /\ ~LaidOut'[l]
  <2> DEFINE T == {l \in Reached' : ~(Clean'[l] /\ ~LaidOut'[l])}
  <2> SUFFICES ASSUME T # {} PROVE FALSE
    OBVIOUS
  <2>0. \A S \in SUBSET Layer : S # {} => \E l \in S : parent'[l] \notin S
    BY <1>0 DEF Acyclic
  <2>1. PICK l \in T : parent'[l] \notin T
    BY <1>0, <2>0
  <2>2. parent'[l] # NoLayer => parent'[l] \in Reached'
    BY PrePaintReach
  <2>3. parent'[l] # NoLayer => Clean'[parent'[l]] /\ ~LaidOut'[parent'[l]]
    BY <2>1, <2>2
  <2> QED BY <1>0, <1>1, <2>1, <2>3 DEF Computed, FlagsComputed
<1> QED BY <1>1, <1>2 DEF Cleared

\* After prePaint every layer that is reached is in its place.
LEMMA PrePaintExact ==
  ASSUME TreeInv, SideInv, TreeInv', SideInv', PrePainted, Exact
  PROVE  Exact'
<1>0. /\ Computed /\ SkipsTrue /\ OriginsComputed /\ NoLayer \notin Layer
      /\ Reached \subseteq Layer /\ Reached' \subseteq Layer
  BY AllComputed, NextComputed, Origins, LayerTreeAssumption
     DEF TreeInv, TreeTypeOK, SideInv, TreeEnds, Layer, Computed, ReachedUp
<1> SUFFICES ASSUME NEW l \in Reached' PROVE ExactAt(l)'
  BY DEF Exact
<1> DEFINE q == parent[l]
<1>1. /\ l \in Layer /\ l \in Reached /\ parent'[l] = q
      /\ q # NoLayer => q \in Reached /\ q \in Layer
  BY <1>0, PrePaintReach
<1>2. /\ origin'[l] = NewOrigin[l] /\ bounds'[l] = NewBounds(l) /\ frame' = frame /\ kind' = kind
      /\ q # NoLayer => origin'[q] = NewOrigin[q]
  BY <1>1 DEF PrePainted
<1>3. /\ NewBounds(l) = Shift(Extent(frame[l]), NewOrigin[l])
      /\ NewOrigin[l] = IF q = NoLayer \/ kind[q] = "scroll" THEN 0 ELSE NewOrigin[q] + frame[q].x
  <2>1. CASE LaidOut[l]
    <3>1. Skips(l) => q = NoLayer \/ kind[q] = "scroll"
      BY <1>0, <1>1 DEF Skips, SkipsTrue
    <3>2. q # NoLayer /\ kind[q] = "scroll" => Skips(l)
      BY DEF Skips
    <3>3. NewOrigin[l] = IF q = NoLayer \/ Skips(l) THEN 0 ELSE NewOrigin[q] + frame[q].x
      BY <1>0, <1>1, <2>1 DEF OriginsComputed
    <3> QED BY <2>1, <3>1, <3>2, <3>3 DEF NewBounds
  <2>2. CASE ~LaidOut[l]
    <3>1. ExactAt(l)
      BY <1>1, <2>2 DEF Exact
    <3>2. NewOrigin[l] = origin[l] /\ NewBounds(l) = bounds[l]
      BY <1>0, <1>1, <2>2 DEF OriginsComputed, NewBounds
    <3>3. q # NoLayer => ~LaidOut[q]
      BY <1>0, <1>1, <2>2 DEF Computed, FlagsComputed
    <3>4. q # NoLayer => NewOrigin[q] = origin[q]
      BY <1>0, <1>1, <3>3 DEF OriginsComputed
    <3> QED BY <3>1, <3>2, <3>4 DEF ExactAt
  <2> QED BY <2>1, <2>2
<1> QED BY <1>1, <1>2, <1>3 DEF ExactAt, Shift, Extent

\* What is up to date is not laid out again.
LEMMA CleanNotLaidOut ==
  ASSUME TreeInv, SideInv
  PROVE  \A k \in Layer : Clean[k] => ~LaidOut[k]
<1>0. Computed /\ Acyclic /\ parent \in [Layer -> Layer \cup {NoLayer}]
  BY AllComputed DEF TreeInv, TreeTypeOK, SideInv, TreeEnds
<1> DEFINE T == {k \in Layer : Clean[k] /\ LaidOut[k]}
<1> SUFFICES ASSUME T # {} PROVE FALSE
  OBVIOUS
<1>1. PICK k \in T : parent[k] \notin T
  BY <1>0 DEF Acyclic
<1>2. mask[k] = {} /\ (parent[k] # NoLayer => Clean[parent[k]])
  BY <1>0, <1>1 DEF Computed, FlagsComputed
<1>3. parent[k] # NoLayer /\ LaidOut[parent[k]]
  BY <1>0, <1>1, <1>2 DEF Computed, FlagsComputed
<1>4. parent[k] \in Layer
  BY <1>0, <1>1, <1>3
<1> QED BY <1>1, <1>2, <1>3, <1>4

\* The tiles that the layers above l cover.
Up(l) == IF parent[l] = NoLayer THEN Surface ELSE Region[parent[l]]

\* Below layers that are up to date, damage reaches the surface.
LEMMA DamageClimbs ==
  ASSUME TreeInv, SideInv
  PROVE  \A l \in Reached : (parent[l] # NoLayer => Clean[parent[l]]) =>
           \A x \in Damage[l] : x + ScrollOffset[l] \in Up(l) => x + ScrollOffset[l] \in Damage[Root]
<1>0. /\ Computed /\ OriginsComputed /\ DamageComputed /\ NoLayer \notin Layer /\ Acyclic
      /\ Reached \subseteq Layer /\ LinksConsistent /\ Root \in Layer /\ GeometryOK
      /\ children \in [Layer -> Seq(View)]
  BY AllComputed, Origins, Damages, LayerTreeAssumption
     DEF TreeInv, TreeTypeOK, SideInv, TreeEnds, Layer, Computed, ReachedUp
<1>r. \A k \in Layer : Region[k] = {x + ScrollOffset[k] : x \in bounds[k]} \cap Up(k)
  BY <1>0, Zenon DEF Computed, RegionsComputed, Up
<1>d. /\ \A k \in Layer : Damage[k] \in SUBSET Int /\ ScrollOffset[k] \in Int
      /\ \A k \in Layer : frame[k].x \in Int /\ origin[k] \in Int /\ scroll[k] \in Int
                          /\ bounds[k] \in SUBSET Int
  BY <1>0 DEF DamageComputed, Computed, OffsetsComputed, GeometryOK
<1> DEFINE Climbs(l) ==
             (parent[l] # NoLayer => Clean[parent[l]]) =>
               \A x \in Damage[l] :
                 x + ScrollOffset[l] \in Up(l) => x + ScrollOffset[l] \in Damage[Root]
           T == {l \in Reached : ~Climbs(l)}
<1> SUFFICES ASSUME T # {} PROVE FALSE
  OBVIOUS
<1>1. PICK l \in T : parent[l] \notin T
  BY <1>0 DEF Acyclic
<1>2. PICK x \in Damage[l] : /\ parent[l] # NoLayer => Clean[parent[l]]
                             /\ x + ScrollOffset[l] \in Up(l)
                             /\ x + ScrollOffset[l] \notin Damage[Root]
  BY <1>1
<1>3. l \in Layer /\ l \in Reached /\ x \in Int
  BY <1>0, <1>d, <1>1
<1>4. CASE l = Root
  <2>1. ScrollOffset[l] = 0
    BY <1>0, <1>4 DEF Computed, ReachedUp, OffsetsComputed
  <2>2. x + 0 = x
    BY <1>3
  <2> QED BY <1>2, <1>4, <2>1, <2>2
<1>5. CASE l # Root
  <2> DEFINE p == parent[l]
             shift == IF kind[p] = "scroll" THEN ScrollShift(p, origin[p] + frame[p].x) ELSE 0
  <2>1. p \in Reached /\ p \in Layer /\ p # NoLayer
    BY <1>0, <1>3, <1>5 DEF Computed, ReachedUp
  <2>2. Clean[p] /\ mask[p] = {} /\ ~LaidOut[p] /\ (parent[p] # NoLayer => Clean[parent[p]])
    <3>1. Clean[p]
      BY <1>2, <2>1
    <3>2. mask[p] = {} /\ (parent[p] # NoLayer => Clean[parent[p]])
      BY <1>0, <2>1, <3>1 DEF Computed, FlagsComputed
    <3>3. ~LaidOut[p]
      BY <2>1, <3>1, CleanNotLaidOut
    <3> QED BY <3>1, <3>2, <3>3
  <2>3. Climbs(p)
    BY <1>1, <2>1
  <2>4. ScrollOffset[l] = ScrollOffset[p] + shift /\ shift \in Int
    BY <1>0, <1>3, <1>d, <2>1 DEF Computed, OffsetsComputed, ScrollShift
  <2>5. l \in Children(p)
    BY <1>0, <1>3, <2>1 DEF LinksConsistent
  <2>6. (x + shift) + ScrollOffset[p] = x + ScrollOffset[l]
    <3> HIDE DEF shift
    <3> QED BY <1>3, <1>d, <2>1, <2>4
  <2>7. x + ScrollOffset[l] \in Region[p]
    BY <1>2, <2>1 DEF Up
  <2>8. x + ScrollOffset[l] \in Up(p) /\ x + shift \in bounds[p]
    <3>1. PICK y \in bounds[p] : x + ScrollOffset[l] = y + ScrollOffset[p]
      BY <1>r, <2>1, <2>7
    <3>2. y = x + shift
      <4> HIDE DEF shift
      <4> QED BY <1>3, <1>d, <2>1, <2>4, <2>6, <3>1
    <3> QED BY <1>r, <2>1, <2>7, <3>1, <3>2
  <2>9. x + shift \in Damage[p]
    <3> DEFINE below == UNION {Damage[c] : c \in Children(p)}
    <3>1. x \in below
      BY <2>5
    <3>2. Damage[p] = PreRollDamage(p) \cup
             (IF kind[p] # "scroll" THEN below
             ELSE IF mask[p] # {} THEN {}
             ELSE Shift(pending[p] \cup below, ScrollShift(p, NewOrigin[p] + frame[p].x))
                    \cap NewBounds(p))
      BY <1>0, <2>1 DEF DamageComputed
    <3> HIDE DEF below
    <3>3. CASE kind[p] # "scroll"
      BY <1>3, <3>1, <3>2, <3>3
    <3>4. CASE kind[p] = "scroll"
      <4>1. NewOrigin[p] = origin[p] /\ NewBounds(p) = bounds[p]
        BY <1>0, <2>1, <2>2 DEF OriginsComputed, NewBounds
      <4>2. Damage[p] = PreRollDamage(p) \cup
              (Shift(pending[p] \cup below, shift) \cap bounds[p])
        BY <2>2, <3>2, <3>4, <4>1
      <4>3. x + shift \in Shift(pending[p] \cup below, shift)
        <5> HIDE DEF shift
        <5> QED BY <3>1 DEF Shift
      <4> QED BY <2>8, <4>2, <4>3
    <3> QED BY <3>3, <3>4
  <2> HIDE DEF shift
  <2>10. (x + shift) + ScrollOffset[p] \in Damage[Root]
    BY <2>2, <2>3, <2>6, <2>8, <2>9
  <2> QED BY <1>2, <2>6, <2>10
<1> QED BY <1>4, <1>5

\* The place that a layer leaves and the one that it gets are damaged.
LEMMA DirtyDamaged ==
  ASSUME TreeInv, SideInv, NEW b \in Reached, TopDirty(b),
         NEW x \in bounds[b] \cup NewBounds(b), x + ScrollOffset[b] \in Up(b)
  PROVE  x + ScrollOffset[b] \in Damage[Root]
<1>0. /\ Computed /\ DamageComputed /\ b \in Layer /\ NoLayer \notin Layer
      /\ parent \in [Layer -> Layer \cup {NoLayer}]
  BY AllComputed, Damages, LayerTreeAssumption
     DEF TreeInv, TreeTypeOK, SideInv, TreeEnds, Layer, Computed, ReachedUp
<1>1. x \in PreRollDamage(b)
  <2>1. CASE "layout" \in mask[b]
    BY <2>1 DEF PreRollDamage
  <2>2. CASE "layout" \notin mask[b]
    <3>1. parent[b] # NoLayer => ~LaidOut[parent[b]]
      BY <1>0, CleanNotLaidOut DEF TopDirty
    <3>2. ~LaidOut[b]
      BY <1>0, <2>2, <3>1 DEF Computed, FlagsComputed
    <3> QED BY <3>2 DEF PreRollDamage, NewBounds, TopDirty
  <2> QED BY <2>1, <2>2
<1>2. PreRollDamage(b) \subseteq Damage[b]
  BY <1>0 DEF DamageComputed
<1> QED BY <1>1, <1>2, DamageClimbs DEF TopDirty

\* A layer that is up to date keeps its place.
Stays(l) ==
  /\ l \in Reached'
  /\ parent'[l] = parent[l]
  /\ Above'[l] = Above[l]
  /\ ScrollOffset'[l] = ScrollOffset[l]
  /\ Region'[l] = Region[l]
  /\ origin'[l] = origin[l]

\* prePaint leaves a layer that is up to date where it is.
LEMMA CleanStays ==
  ASSUME TreeInv, SideInv, TreeInv', SideInv', PrePainted
  PROVE  \A l \in Reached : Clean[l] => Stays(l)
<1>0. /\ Computed /\ Computed' /\ Acyclic /\ NoLayer \notin Layer /\ OriginsComputed
      /\ Reached \subseteq Layer /\ Reached' \subseteq Layer /\ Root \in Layer
  BY AllComputed, NextComputed, Origins, LayerTreeAssumption
     DEF TreeInv, TreeTypeOK, SideInv, TreeEnds, Layer, Computed, ReachedUp
<1>r. \A k \in Layer :
        /\ Above[k] = {k} \cup IF parent[k] = NoLayer THEN {} ELSE Above[parent[k]]
        /\ Above'[k] = {k} \cup IF parent'[k] = NoLayer THEN {} ELSE Above'[parent'[k]]
        /\ Region[k] = {x + ScrollOffset[k] : x \in bounds[k]}
                         \cap IF parent[k] = NoLayer THEN Surface ELSE Region[parent[k]]
        /\ Region'[k] = {x + ScrollOffset'[k] : x \in bounds'[k]}
                          \cap IF parent'[k] = NoLayer THEN Surface ELSE Region'[parent'[k]]
  BY <1>0, Zenon DEF Computed, RegionsComputed
<1> DEFINE T == {l \in Reached : Clean[l] /\ ~Stays(l)}
<1> SUFFICES ASSUME T # {} PROVE FALSE
  OBVIOUS
<1>1. PICK l \in T : parent[l] \notin T
  BY <1>0 DEF Acyclic
<1> DEFINE q == parent[l]
<1>2. l \in Layer /\ l \in Reached /\ Clean[l] /\ mask[l] = {} /\ (q # NoLayer => Clean[q])
  BY <1>0, <1>1 DEF Computed, FlagsComputed
<1>3. ~LaidOut[l]
  BY <1>2, CleanNotLaidOut
<1>4. origin'[l] = origin[l] /\ bounds'[l] = bounds[l] /\ parent'[l] = q
  <2>1. origin'[l] = NewOrigin[l] /\ bounds'[l] = NewBounds(l) /\ parent'[l] = q
    BY <1>2 DEF PrePainted
  <2>2. NewOrigin[l] = origin[l] /\ NewBounds(l) = bounds[l]
    BY <1>0, <1>2, <1>3 DEF OriginsComputed, NewBounds
  <2> QED BY <2>1, <2>2
<1>5. CASE l = Root
  <2>1. q = NoLayer /\ l \in Reached'
    BY <1>0, <1>5 DEF Computed, ReachedUp
  <2>2. ScrollOffset[l] = 0 /\ ScrollOffset'[l] = 0
    BY <1>0, <1>2, <1>4, <2>1 DEF Computed, OffsetsComputed
  <2>3. Above'[l] = Above[l]
    <3>1. Above[l] = {l} \cup {}
      BY <1>r, <1>2, <2>1
    <3>2. Above'[l] = {l} \cup {}
      BY <1>r, <1>2, <1>4, <2>1
    <3> QED BY <3>1, <3>2
  <2>4. Region'[l] = Region[l]
    <3>1. Region[l] = {x + ScrollOffset[l] : x \in bounds[l]} \cap Surface
      BY <1>r, <1>2, <2>1
    <3>2. Region'[l] = {x + ScrollOffset'[l] : x \in bounds'[l]} \cap Surface
      BY <1>r, <1>2, <1>4, <2>1
    <3> QED BY <1>4, <2>2, <3>1, <3>2
  <2> QED BY <1>1, <1>4, <2>1, <2>2, <2>3, <2>4 DEF Stays
<1>6. CASE l # Root
  <2>1. q \in Reached /\ q \in Layer /\ q # NoLayer
    BY <1>0, <1>2, <1>6 DEF Computed, ReachedUp
  <2>2. Stays(q)
    BY <1>1, <1>2, <2>1
  <2>3. l \in Reached'
    BY <1>0, <1>2, <1>4, <1>6, <2>2 DEF Computed, ReachedUp, Stays
  <2>4. Above'[l] = Above[l]
    <3>1. Above[l] = {l} \cup Above[q]
      BY <1>r, <1>2, <2>1
    <3>2. Above'[l] = {l} \cup Above'[q]
      BY <1>r, <1>2, <1>4, <2>1
    <3> QED BY <2>2, <3>1, <3>2 DEF Stays
  <2>5. ScrollOffset'[l] = ScrollOffset[l]
    <3>1. ScrollOffset[l] = ScrollOffset[q] +
            IF kind[q] = "scroll" THEN ScrollShift(q, origin[q] + frame[q].x) ELSE 0
      BY <1>0, <1>2, <2>1 DEF Computed, OffsetsComputed
    <3>2. ScrollOffset'[l] = ScrollOffset'[q] +
            IF kind'[q] = "scroll" THEN (origin'[q] + frame'[q].x) - scroll'[q] ELSE 0
      BY <1>0, <1>2, <1>4, <2>1 DEF Computed, OffsetsComputed, ScrollShift
    <3> QED BY <2>2, <3>1, <3>2 DEF Stays, ScrollShift, PrePainted
  <2>6. Region'[l] = Region[l]
    <3>1. Region[l] = {x + ScrollOffset[l] : x \in bounds[l]} \cap Region[q]
      BY <1>r, <1>2, <2>1
    <3>2. Region'[l] = {x + ScrollOffset'[l] : x \in bounds'[l]} \cap Region'[q]
      BY <1>r, <1>2, <1>4, <2>1
    <3> QED BY <1>4, <2>2, <2>5, <3>1, <3>2 DEF Stays
  <2> QED BY <1>1, <1>4, <2>3, <2>4, <2>5, <2>6 DEF Stays
<1> QED BY <1>5, <1>6

\* The tiles of a layer that was out of date, where it is now, are damaged.
LEMMA DirtyRegion ==
  ASSUME TreeInv, SideInv, TreeInv', SideInv', PrePainted
  PROVE  \A l \in Reached' : ~Clean[l] => Region'[l] \subseteq Damage[Root]
<1>0. /\ Computed /\ Computed' /\ Acyclic /\ NoLayer \notin Layer
      /\ Reached \subseteq Layer /\ Reached' \subseteq Layer /\ Root \in Layer
      /\ parent \in [Layer -> Layer \cup {NoLayer}]
  BY AllComputed, NextComputed, LayerTreeAssumption
     DEF TreeInv, TreeTypeOK, SideInv, TreeEnds, Layer, Computed, ReachedUp
<1>r. \A k \in Layer :
        Region'[k] = {x + ScrollOffset'[k] : x \in bounds'[k]}
                       \cap IF parent'[k] = NoLayer THEN Surface ELSE Region'[parent'[k]]
  BY <1>0, Zenon DEF Computed, RegionsComputed
<1> DEFINE T == {l \in Reached' : ~Clean[l] /\ ~(Region'[l] \subseteq Damage[Root])}
<1> SUFFICES ASSUME T # {} PROVE FALSE
  OBVIOUS
<1>1. PICK l \in T : parent[l] \notin T
  BY <1>0 DEF Acyclic
<1> DEFINE q == parent[l]
<1>2. /\ l \in Layer /\ l \in Reached' /\ l \in Reached /\ parent'[l] = q /\ ~Clean[l]
      /\ q # NoLayer => q \in Reached' /\ q \in Reached /\ q \in Layer
  BY <1>0, <1>1, PrePaintReach
<1>3. CASE q # NoLayer /\ ~Clean[q]
  <2>1. Region'[q] \subseteq Damage[Root]
    BY <1>1, <1>2, <1>3
  <2>2. Region'[l] = {x + ScrollOffset'[l] : x \in bounds'[l]} \cap Region'[q]
    BY <1>r, <1>2, <1>3
  <2> QED BY <1>1, <2>1, <2>2
<1>4. CASE q = NoLayer \/ Clean[q]
  <2>1. TopDirty(l)
    BY <1>0, <1>2, <1>4 DEF TopDirty, Computed, FlagsComputed
  <2>2. q # NoLayer => Stays(q)
    BY <1>2, <1>4, CleanStays
  <2>3. ScrollOffset'[l] = ScrollOffset[l]
    <3>1. CASE q = NoLayer
      BY <1>0, <1>2, <3>1 DEF Computed, OffsetsComputed
    <3>2. CASE q # NoLayer
      <4>1. ScrollOffset[l] = ScrollOffset[q] +
              IF kind[q] = "scroll" THEN ScrollShift(q, origin[q] + frame[q].x) ELSE 0
        BY <1>0, <1>2, <3>2 DEF Computed, OffsetsComputed
      <4>2. ScrollOffset'[l] = ScrollOffset'[q] +
              IF kind'[q] = "scroll" THEN (origin'[q] + frame'[q].x) - scroll'[q] ELSE 0
        BY <1>0, <1>2, <3>2 DEF Computed, OffsetsComputed, ScrollShift
      <4> QED BY <2>2, <3>2, <4>1, <4>2 DEF Stays, ScrollShift, PrePainted
    <3> QED BY <3>1, <3>2
  <2>4. Region'[l] = {x + ScrollOffset[l] : x \in NewBounds(l)} \cap Up(l)
    <3>1. bounds'[l] = NewBounds(l)
      BY <1>2 DEF PrePainted
    <3>2. CASE q = NoLayer
      <4>1. Region'[l] = {x + ScrollOffset'[l] : x \in bounds'[l]} \cap Surface
        BY <1>r, <1>2, <3>2
      <4> QED BY <2>3, <3>1, <3>2, <4>1 DEF Up
    <3>3. CASE q # NoLayer
      <4>1. Region'[l] = {x + ScrollOffset'[l] : x \in bounds'[l]} \cap Region'[q]
        BY <1>r, <1>2, <3>3
      <4> QED BY <2>2, <2>3, <3>1, <3>3, <4>1 DEF Up, Stays
    <3> QED BY <3>2, <3>3
  <2>5. ASSUME NEW x \in NewBounds(l), x + ScrollOffset[l] \in Up(l)
        PROVE  x + ScrollOffset[l] \in Damage[Root]
    BY <1>2, <2>1, <2>5, DirtyDamaged
  <2> QED BY <1>1, <2>4, <2>5
<1> QED BY <1>3, <1>4

\* What prePaint changes is damaged: the rest of the screen is right.
LEMMA PrePaintScreen ==
  ASSUME TreeInv, SideInv, TreeInv', SideInv', PrePainted, ScreenTrue
  PROVE  ScreenTrue'
<1>0. /\ Computed /\ AboveOK /\ Reached \subseteq Layer /\ Reached' \subseteq Layer
      /\ NoLayer \notin Layer
  BY AllComputed, AboveFacts, NextComputed, LayerTreeAssumption DEF Computed, ReachedUp, Layer
<1> SUFFICES ASSUME NEW t \in Surface, t \notin damage'
             PROVE  screen'[t] = Drawing({l \in Reached : Clean[l] /\ t \in Region[l]})'
  BY DEF ScreenTrue, PrePainted
<1> DEFINE drawn == {l \in Reached : Clean[l] /\ t \in Region[l]}
<1>1. t \notin Damage[Root]
  BY DEF PrePainted
<1>2. ASSUME NEW b \in Reached, TopDirty(b) PROVE t \notin Region[b]
  <2> SUFFICES ASSUME t \in Region[b] PROVE FALSE
    OBVIOUS
  <2>1. Region[b] = {x + ScrollOffset[b] : x \in bounds[b]} \cap Up(b)
    BY <1>0, Zenon DEF Computed, RegionsComputed, Up
  <2>2. PICK x \in bounds[b] : t = x + ScrollOffset[b] /\ t \in Up(b)
    BY <2>1
  <2> QED BY <1>1, <1>2, <2>2, DirtyDamaged
<1>3. screen[t] = Drawing(drawn)
  BY <1>2 DEF ScreenTrue, PrePainted
<1>4. \A l \in drawn : l \in Layer /\ Stays(l) /\ \A a \in Above[l] : mask[a] = {}
  <2> SUFFICES ASSUME NEW l \in drawn
               PROVE  l \in Layer /\ Stays(l) /\ \A a \in Above[l] : mask[a] = {}
    OBVIOUS
  <2>1. \A a \in Above[l] : a \in Layer /\ Clean[a]
    BY <1>0 DEF AboveOK
  <2> QED BY <1>0, <2>1, CleanStays DEF Computed, FlagsComputed
<1>5. drawn' = drawn
  <2>1. drawn' = {l \in Reached' : Clean'[l] /\ t \in Region'[l]}
    OBVIOUS
  <2>2. ASSUME NEW l \in Reached', t \in Region'[l] PROVE l \in drawn
    <3>1. l \in Reached
      BY PrePaintReach
    <3>2. Clean[l]
      BY <1>1, <2>2, DirtyRegion
    <3>3. Stays(l)
      BY <3>1, <3>2, CleanStays
    <3> QED BY <2>2, <3>1, <3>2, <3>3 DEF Stays
  <2>3. ASSUME NEW l \in drawn PROVE l \in Reached' /\ Clean'[l] /\ t \in Region'[l]
    BY <1>4, PrePaintClears DEF Stays
  <2> HIDE DEF drawn
  <2> QED BY <2>1, <2>2, <2>3
<1>6. Drawing(drawn)' = Drawing(drawn)
  <2>1. \A l \in drawn : l \in Layer /\ Above'[l] = Above[l] /\ picture'[l] = picture[l]
    BY <1>4 DEF Stays, PrePainted
  <2>2. ASSUME NEW l \in drawn, NEW m \in drawn, NEW c \in Above[l], NEW d \in Above[m], NEW q \in Layer
        PROVE  InOrder(children'[q], c, d) <=> InOrder(children[q], c, d)
    <3>1. "remove" \notin mask[c] /\ "remove" \notin mask[d]
      BY <1>4
    <3> HIDE DEF drawn
    <3> QED BY <3>1 DEF PrePainted
  <2> HIDE DEF drawn
  <2> QED BY <1>5, <2>1, <2>2, SameDrawing
<1>7. screen'[t] = screen[t]
  BY DEF PrePainted
<1> QED BY <1>3, <1>6, <1>7

\* prePaint keeps the invariant of the pixels.
LEMMA PrePaintPixels ==
  TreeInv /\ SideInv /\ PixelInv /\ PrePaint /\ TreeInv' /\ SideInv' => PixelInv'
BY PrePaintLeaves, PrePaintClears, PrePaintExact, PrePaintScreen DEF PixelInv

\* The canvas clips a layer to what the cached bounds of the layers above it cover.
LEMMA Clipped ==
  ASSUME TreeInv, SideInv, Overflow = FALSE, phase # "mutate",
         \A l \in Reached : ExactAt(l),
         NEW frames \in [Layer -> SUBSET Int],
         \A l \in Reached : frames[l] = {x + ScrollOffset[l] : x \in bounds[l]}
  PROVE  \A l \in Reached : frames[l] \cap ClipTo(frames)[l] = Region[l]
<1>0. /\ Computed /\ Acyclic /\ NoLayer \notin Layer /\ Reached \subseteq Layer /\ SetsComputed
      /\ TreeTypeOK /\ MountedOnce /\ MountedLinked /\ Shown /\ GeometryOK /\ FitsMounted
      /\ Root \in Layer
  BY AllComputed, Sets, LayerTreeAssumption
     DEF TreeInv, TreeTypeOK, SideInv, TreeEnds, Layer, Computed, ReachedUp
<1> DEFINE clip == ClipTo(frames)
<1>c. \A l \in Layer :
        clip[l] = IF parent[l] = NoLayer THEN Surface
                  ELSE IF Clips(parent[l]) THEN clip[parent[l]] \cap frames[parent[l]]
                  ELSE clip[parent[l]]
  BY <1>0, Zenon DEF SetsComputed
<1>r. \A k \in Layer :
        Region[k] = {x + ScrollOffset[k] : x \in bounds[k]}
                      \cap IF parent[k] = NoLayer THEN Surface ELSE Region[parent[k]]
  BY <1>0, Zenon DEF Computed, RegionsComputed
<1> HIDE DEF clip
<1> DEFINE T == {l \in Reached : frames[l] \cap clip[l] # Region[l]}
<1> SUFFICES ASSUME T # {} PROVE FALSE
  BY DEF clip
<1>1. PICK l \in T : parent[l] \notin T
  BY <1>0 DEF Acyclic
<1> DEFINE q == parent[l]
<1>2. l \in Layer /\ l \in Reached /\ frames[l] = {x + ScrollOffset[l] : x \in bounds[l]}
  BY <1>0, <1>1
<1>3. CASE q = NoLayer
  BY <1>1, <1>2, <1>3, <1>c, <1>r
<1>4. CASE q # NoLayer
  <2>1. q \in Reached /\ q \in Layer /\ l # Root
    BY <1>0, <1>2, <1>4 DEF Computed, ReachedUp
  <2>2. frames[q] \cap clip[q] = Region[q]
    BY <1>1, <2>1
  <2>3. Region[l] = frames[l] \cap Region[q]
    BY <1>2, <1>4, <1>r
  <2>4. CASE Clips(q)
    <3>1. clip[l] = clip[q] \cap frames[q]
      BY <1>2, <1>4, <1>c, <2>4
    <3> QED BY <1>1, <2>2, <2>3, <3>1
  <2>5. CASE ~Clips(q)
    <3>1. clip[l] = clip[q]
      BY <1>2, <1>4, <1>c, <2>5
    \* The layer lies in the one above it.
    <3>2. l \in ToSet(mounted[q])
      <4>1. l \in Mounted
        BY <1>0, <1>2 DEF Shown
      <4>2. l \in View /\ Placed(l)
        BY <1>0, <2>1, <4>1, MountedInList
      <4>3. PICK p \in Layer : l \in ToSet(mounted[p])
        BY <4>2 DEF Placed
      <4> QED BY <1>0, <1>4, <4>2, <4>3 DEF MountedLinked
    <3>3. /\ frame[l].x \in Nat /\ frame[l].w \in Nat /\ frame[q].x \in Nat /\ frame[q].w \in Nat
          /\ frame[l].x + frame[l].w <= frame[q].w
      <4>1. Fits(frame[l], q, frame[q].w)
        BY <1>0, <2>1, <3>2 DEF FitsMounted, FitsAll
      <4> QED BY <1>0, <1>2, <2>1, <2>5, <4>1 DEF Fits, GeometryOK
    <3>4. kind[q] # "scroll"
      BY <2>5 DEF Clips
    <3>5. /\ ScrollOffset[l] = ScrollOffset[q] + 0 /\ origin[l] = origin[q] + frame[q].x
          /\ ScrollOffset[q] \in Int /\ origin[q] \in Int
          /\ bounds[l] = {x + origin[l] : x \in Extent(frame[l])}
          /\ bounds[q] = {x + origin[q] : x \in Extent(frame[q])}
      <4>1. ScrollOffset[l] = ScrollOffset[q] + 0 /\ ScrollOffset[q] \in Int
        BY <1>0, <1>2, <1>4, <2>1, <3>4 DEF Computed, OffsetsComputed
      <4>2. origin[q] \in Int
        BY <1>0, <2>1 DEF GeometryOK
      <4> QED BY <1>2, <1>4, <2>1, <3>4, <4>1, <4>2 DEF ExactAt, Shift
    <3>6. ASSUME NEW y \in frames[l] PROVE y \in frames[q]
      <4>1. PICK x \in Extent(frame[l]) : y = (x + origin[l]) + ScrollOffset[l]
        BY <1>2, <3>5
      <4>2. x \in Int /\ x + frame[q].x \in Extent(frame[q])
        BY <3>3 DEF Extent
      <4>3. y = ((x + frame[q].x) + origin[q]) + ScrollOffset[q]
        BY <3>3, <3>5, <4>1, <4>2
      <4>4. frames[q] = {z + ScrollOffset[q] : z \in bounds[q]}
        BY <2>1
      <4>5. (x + frame[q].x) + origin[q] \in bounds[q]
        BY <3>5, <4>2
      <4> HIDE DEF q
      <4> QED BY <4>3, <4>4, <4>5
    <3> QED BY <1>1, <2>2, <2>3, <3>1, <3>6
  <2> QED BY <2>4, <2>5
<1> QED BY <1>3, <1>4

\* Tiles that are shifted are tiles.
LEMMA ShiftOfTiles ==
  ASSUME NEW A \in SUBSET Int, NEW d \in Int
  PROVE  Shift(A, d) \in SUBSET Int
BY DEF Shift

\* On the tiles that are damaged, paint draws what the cached bounds cover.
LEMMA PaintDraws ==
  ASSUME TreeInv, SideInv, Overflow = FALSE, phase # "mutate",
         \A l \in Reached : ExactAt(l), NEW t \in damage
  PROVE  DrawnIn(Painted, FrameOnScreen, t) = {l \in Reached : t \in Region[l]}
<1>0. /\ Computed /\ Acyclic /\ NoLayer \notin Layer /\ Reached \subseteq Layer /\ GeometryOK
  BY AllComputed, LayerTreeAssumption DEF TreeInv, SideInv, TreeEnds, Layer, Computed, ReachedUp
<1>t. \A l \in Layer : origin[l] \in Int /\ ScrollOffset[l] \in Int /\ Extent(frame[l]) \subseteq Int
  BY <1>0 DEF GeometryOK, Computed, OffsetsComputed, Extent
<1>1. FrameOnScreen \in [Layer -> SUBSET Int]
  <2>1. \A l \in Layer : origin[l] + ScrollOffset[l] \in Int
    BY <1>t
  <2>2. \A l \in Layer : Shift(Extent(frame[l]), origin[l] + ScrollOffset[l]) \in SUBSET Int
    BY <1>t, <2>1, ShiftOfTiles
  <2> QED BY <2>2 DEF FrameOnScreen
<1>2. \A l \in Reached : FrameOnScreen[l] = {x + ScrollOffset[l] : x \in bounds[l]}
  <2> SUFFICES ASSUME NEW l \in Reached
               PROVE  FrameOnScreen[l] = {x + ScrollOffset[l] : x \in bounds[l]}
    OBVIOUS
  <2>1. l \in Layer /\ bounds[l] = {e + origin[l] : e \in Extent(frame[l])}
    BY <1>0 DEF ExactAt, Shift
  <2>2. FrameOnScreen[l] = {e + (origin[l] + ScrollOffset[l]) : e \in Extent(frame[l])}
    BY <2>1 DEF FrameOnScreen, Shift
  <2>3. \A e \in Extent(frame[l]) : e + (origin[l] + ScrollOffset[l]) = (e + origin[l]) + ScrollOffset[l]
    <3> SUFFICES ASSUME NEW e \in Extent(frame[l])
                 PROVE  e + (origin[l] + ScrollOffset[l]) = (e + origin[l]) + ScrollOffset[l]
      OBVIOUS
    <3>1. e \in Int /\ origin[l] \in Int /\ ScrollOffset[l] \in Int
      BY <1>t, <2>1
    <3> QED BY ONLY <3>1
  <2> QED BY <2>1, <2>2, <2>3
<1>3. \A l \in Reached : FrameOnScreen[l] \cap ClipTo(FrameOnScreen)[l] = Region[l]
  BY <1>1, <1>2, Clipped
<1>r. \A k \in Layer :
        Region[k] = {x + ScrollOffset[k] : x \in bounds[k]}
                      \cap IF parent[k] = NoLayer THEN Surface ELSE Region[parent[k]]
  BY <1>0, Zenon DEF Computed, RegionsComputed
<1>4. ASSUME NEW l \in Reached, t \in Region[l] PROVE Visited[l]
  <2> DEFINE T == {k \in Reached : t \in Region[k] /\ ~Visited[k]}
  <2> SUFFICES ASSUME T # {} PROVE FALSE
    BY <1>4
  <2>1. PICK k \in T : parent[k] \notin T
    BY <1>0 DEF Acyclic
  <2>2. k \in Layer /\ k \in Reached /\ t \in Region[k]
    BY <1>0, <2>1
  <2>3. NeedsPainting(k)
    BY <1>r, <2>2 DEF NeedsPainting, Shift
  <2>4. parent[k] # NoLayer => parent[k] \in Reached /\ t \in Region[parent[k]]
    <3>1. k = Root => parent[k] = NoLayer
      BY <1>0 DEF Computed, ReachedUp
    <3>2. k # Root => parent[k] \in Reached
      BY <1>0, <2>2 DEF Computed, ReachedUp
    <3> QED BY <1>r, <2>2, <3>1, <3>2
  <2> QED BY <1>0, <2>1, <2>2, <2>3, <2>4 DEF Computed, FlagsComputed
<1>5. DrawnIn(Painted, FrameOnScreen, t)
        = {l \in Painted : t \in FrameOnScreen[l] \cap ClipTo(FrameOnScreen)[l]}
  BY DEF DrawnIn
<1>6. \A l : l \in Painted <=> l \in Reached /\ Visited[l]
  BY DEF Painted
<1> QED BY <1>3, <1>4, <1>5, <1>6

\* The end of a frame moves nothing that is reached.
LEMMA FinishedStays ==
  ASSUME TreeInv, SideInv, TreeInv', SideInv', Finished
  PROVE  /\ Reached' = Reached /\ Reached \cap Dead = {}
         /\ \A l \in Reached : Stays(l)
<1>0. /\ Computed /\ Computed' /\ Acyclic /\ NoLayer \notin Layer
      /\ Reached \subseteq Layer /\ Root \in Layer /\ Root \notin View
  BY AllComputed, NextComputed, LayerTreeAssumption
     DEF TreeInv, TreeTypeOK, SideInv, TreeEnds, Layer, Computed, ReachedUp
<1>1. Reached' = Reached /\ parent' = parent
  BY DEF Finished, Reached
<1>2. Reached \cap Dead = {}
  BY <1>0 DEF Dead, Computed, ReachedUp
<1>r. \A k \in Layer :
        /\ Above[k] = {k} \cup IF parent[k] = NoLayer THEN {} ELSE Above[parent[k]]
        /\ Above'[k] = {k} \cup IF parent'[k] = NoLayer THEN {} ELSE Above'[parent'[k]]
        /\ Region[k] = {x + ScrollOffset[k] : x \in bounds[k]}
                         \cap IF parent[k] = NoLayer THEN Surface ELSE Region[parent[k]]
        /\ Region'[k] = {x + ScrollOffset'[k] : x \in bounds'[k]}
                          \cap IF parent'[k] = NoLayer THEN Surface ELSE Region'[parent'[k]]
  BY <1>0, Zenon DEF Computed, RegionsComputed
<1>3. \A l \in Reached : Stays(l)
  <2> DEFINE T == {l \in Reached : ~Stays(l)}
  <2> SUFFICES ASSUME T # {} PROVE FALSE
    OBVIOUS
  <2>1. PICK l \in T : parent[l] \notin T
    BY <1>0 DEF Acyclic
  <2> DEFINE q == parent[l]
  <2>2. /\ l \in Layer /\ l \in Reached /\ l \in Reached' /\ parent'[l] = q
        /\ origin'[l] = origin[l] /\ bounds'[l] = bounds[l]
    BY <1>0, <1>1, <1>2, <2>1 DEF Finished
  <2>3. CASE q = NoLayer
    <3>1. ScrollOffset[l] = 0 /\ ScrollOffset'[l] = 0
      BY <1>0, <2>2, <2>3 DEF Computed, OffsetsComputed
    <3>2. Above'[l] = Above[l]
      <4>1. Above[l] = {l} \cup {}
        BY <1>r, <2>2, <2>3
      <4>2. Above'[l] = {l} \cup {}
        BY <1>r, <2>2, <2>3
      <4> QED BY <4>1, <4>2
    <3>3. Region'[l] = Region[l]
      <4>1. Region[l] = {x + ScrollOffset[l] : x \in bounds[l]} \cap Surface
        BY <1>r, <2>2, <2>3
      <4>2. Region'[l] = {x + ScrollOffset'[l] : x \in bounds'[l]} \cap Surface
        BY <1>r, <2>2, <2>3
      <4> QED BY <2>2, <3>1, <4>1, <4>2
    <3> QED BY <2>1, <2>2, <3>1, <3>2, <3>3 DEF Stays
  <2>4. CASE q # NoLayer
    <3>1. q \in Reached /\ q \in Layer
      BY <1>0, <2>2, <2>4 DEF Computed, ReachedUp
    <3>2. Stays(q)
      BY <2>1, <3>1
    <3>3. /\ kind'[q] = kind[q] /\ frame'[q] = frame[q] /\ scroll'[q] = scroll[q]
          /\ origin'[q] = origin[q]
      BY <1>2, <3>1 DEF Finished
    <3>4. Above'[l] = Above[l]
      <4>1. Above[l] = {l} \cup Above[q]
        BY <1>r, <2>2, <2>4
      <4>2. Above'[l] = {l} \cup Above'[q]
        BY <1>r, <2>2, <2>4
      <4> QED BY <3>2, <4>1, <4>2 DEF Stays
    <3>5. ScrollOffset'[l] = ScrollOffset[l]
      <4>1. ScrollOffset[l] = ScrollOffset[q] +
              IF kind[q] = "scroll" THEN ScrollShift(q, origin[q] + frame[q].x) ELSE 0
        BY <1>0, <2>2, <2>4 DEF Computed, OffsetsComputed
      <4>2. ScrollOffset'[l] = ScrollOffset'[q] +
              IF kind'[q] = "scroll" THEN (origin'[q] + frame'[q].x) - scroll'[q] ELSE 0
        BY <1>0, <2>2, <2>4 DEF Computed, OffsetsComputed, ScrollShift
      <4> QED BY <3>2, <3>3, <4>1, <4>2 DEF Stays, ScrollShift
    <3>6. Region'[l] = Region[l]
      <4>1. Region[l] = {x + ScrollOffset[l] : x \in bounds[l]} \cap Region[q]
        BY <1>r, <2>2, <2>4
      <4>2. Region'[l] = {x + ScrollOffset'[l] : x \in bounds'[l]} \cap Region'[q]
        BY <1>r, <2>2, <2>4
      <4> QED BY <2>2, <3>2, <3>5, <4>1, <4>2 DEF Stays
    <3> QED BY <2>1, <2>2, <3>4, <3>5, <3>6 DEF Stays
  <2> QED BY <2>3, <2>4
<1> QED BY <1>1, <1>2, <1>3

\* Where nothing is out of date, all that is reached is clean and in its place.
LEMMA ClearedExact ==
  ASSUME TreeInv, SideInv, Exact, \A l \in Reached : mask[l] = {}
  PROVE  \A l \in Reached : Clean[l] /\ ExactAt(l) /\ ~TopDirty(l)
<1>0. Computed /\ Acyclic /\ Reached \subseteq Layer /\ NoLayer \notin Layer
  BY AllComputed, LayerTreeAssumption DEF SideInv, TreeEnds, Computed, ReachedUp, Layer
<1>1. \A l \in Reached : Clean[l]
  <2> DEFINE T == {l \in Reached : ~Clean[l]}
  <2> SUFFICES ASSUME T # {} PROVE FALSE
    OBVIOUS
  <2>1. PICK l \in T : parent[l] \notin T
    BY <1>0 DEF Acyclic
  <2>2. parent[l] # NoLayer => parent[l] \in Reached
    BY <1>0, <2>1 DEF Computed, ReachedUp
  <2> QED BY <1>0, <2>1, <2>2 DEF Computed, FlagsComputed
<1>2. \A l \in Reached : ~LaidOut[l]
  BY <1>0, <1>1, CleanNotLaidOut
<1> QED BY <1>1, <1>2 DEF Exact, TopDirty

AllClear == \A l \in Reached : mask[l] = {}
AllClean == \A l \in Reached : Clean[l]

\* Where no layer that is reached is out of date, all are clean: in the next state.
LEMMA ClearClean == TreeInv' /\ SideInv' /\ Exact' /\ AllClear' => AllClean'
<1>1. TreeInv /\ SideInv /\ Exact /\ AllClear => AllClean
  BY ClearedExact DEF AllClear, AllClean
<1> QED BY <1>1, PTL

\* paint draws in the damaged tiles what the rest of the screen shows already.
LEMMA PaintPixels ==
  ASSUME TreeInv, SideInv, PixelInv, Overflow = FALSE, Paint, TreeInv', SideInv'
  PROVE  PixelInv'
<1>0. /\ Finished /\ Computed /\ Computed' /\ NoLayer \notin Layer /\ Reached \subseteq Layer
      /\ Exact /\ Cleared /\ ScreenTrue /\ AboveOK
  BY PaintLeaves, AllComputed, NextComputed, AboveFacts, LayerTreeAssumption
     DEF SideInv, PixelInv, Computed, ReachedUp, Layer
<1>1. /\ Reached' = Reached /\ Reached \cap Dead = {} /\ phase = "paint" /\ phase' = "idle"
      /\ \A l \in Reached : Stays(l)
  BY <1>0, FinishedStays DEF Finished
<1>2. \A l \in Reached : mask[l] = {}
  BY <1>0, <1>1 DEF Cleared
<1>3. \A l \in Reached : Clean[l] /\ ExactAt(l) /\ ~TopDirty(l)
  BY <1>0, <1>2, ClearedExact
<1>4. \A l \in Reached : /\ l \in Layer /\ l \notin Dead
                         /\ parent[l] # NoLayer => parent[l] \in Reached /\ parent[l] \notin Dead
                                                   /\ parent[l] \in Layer
  BY <1>0, <1>1 DEF Computed, ReachedUp
<1>5. \A l \in Reached : mask'[l] = {}
  BY <1>0, <1>2, <1>4 DEF Finished
<1>6. Exact'
  <2> SUFFICES ASSUME NEW l \in Reached PROVE ExactAt(l)'
    BY <1>1 DEF Exact
  <2>1. ExactAt(l)
    BY <1>3
  <2>2. /\ bounds'[l] = bounds[l] /\ frame'[l] = frame[l] /\ origin'[l] = origin[l]
        /\ parent'[l] = parent[l]
        /\ parent[l] # NoLayer => /\ kind'[parent[l]] = kind[parent[l]]
                                  /\ origin'[parent[l]] = origin[parent[l]]
                                  /\ frame'[parent[l]] = frame[parent[l]]
    BY <1>0, <1>4 DEF Finished
  <2> QED BY <2>1, <2>2 DEF ExactAt, Shift, Extent
<1>7. Cleared'
  BY <1>1, <1>5 DEF Cleared
<1>8. \A l \in Reached' : Clean'[l]
  BY <1>1, <1>5, <1>6, ClearClean DEF AllClear, AllClean
<1>9. ScreenTrue'
  <2> SUFFICES ASSUME NEW t \in Surface
               PROVE  screen'[t] = Drawing({l \in Reached : Clean[l] /\ t \in Region[l]})'
    BY DEF ScreenTrue
  <2> DEFINE drawn == {l \in Reached : Clean[l] /\ t \in Region[l]}
  <2>1. drawn = {l \in Reached : t \in Region[l]}
    BY <1>3
  <2>2. screen'[t] = Drawing(drawn)
    <3>1. CASE t \in damage
      <4>1. DrawnIn(Painted, FrameOnScreen, t) = {l \in Reached : t \in Region[l]}
        BY <1>1, <1>3, <3>1, PaintDraws
      <4>2. screen'[t] = Drawing(DrawnIn(Painted, FrameOnScreen, t))
        BY <1>0, <3>1 DEF Finished
      <4> HIDE DEF drawn
      <4> QED BY <2>1, <4>1, <4>2
    <3>2. CASE t \notin damage
      <4>1. screen[t] = Drawing(drawn)
        BY <1>0, <1>3, <3>2 DEF ScreenTrue
      <4>2. screen'[t] = screen[t]
        BY <1>0, <3>2 DEF Finished
      <4> HIDE DEF drawn
      <4> QED BY <4>1, <4>2
    <3> QED BY <3>1, <3>2
  <2>3. drawn' = drawn
    <3>1. drawn' = {l \in Reached' : Clean'[l] /\ t \in Region'[l]}
      OBVIOUS
    <3>2. \A l \in Reached : Region'[l] = Region[l]
      BY <1>1 DEF Stays
    <3> QED BY <1>1, <1>3, <1>8, <3>1, <3>2
  <2>4. Drawing(drawn)' = Drawing(drawn)
    <3>1. \A l \in drawn : l \in Layer /\ Above'[l] = Above[l] /\ picture'[l] = picture[l]
      BY <1>0, <1>1, <1>4 DEF Stays, Finished
    <3>2. children' = children
      BY <1>0 DEF Finished
    <3> HIDE DEF drawn
    <3> QED BY <2>3, <3>1, <3>2, SameDrawing
  <2> HIDE DEF drawn
  <2> QED BY <2>2, <2>4 DEF drawn
<1> QED BY <1>6, <1>7, <1>9 DEF PixelInv

\* What the pixels depend on, apart from the phase and the damage.
pixelVars == <<children, parent, kind, frame, picture, scroll, mask, origin, bounds, screen>>

\* A step that touches nothing of it.
LEMMA QuietPixels ==
  ASSUME PixelInv, UNCHANGED pixelVars,
         UNCHANGED <<phase, damage, count>> \/ (phase = "idle" /\ phase' = "mutate")
  PROVE  PixelInv'
<1>0. UNCHANGED <<children, parent, kind, frame, picture, scroll, mask, origin, bounds, screen>>
  BY DEF pixelVars
<1>1. ScrollOffset' = ScrollOffset
  BY <1>0 DEF ScrollOffset, ScrollShift
<1>2. Region' = Region
  BY <1>0, <1>1 DEF Region
<1>3. Clean' = Clean /\ LaidOut' = LaidOut /\ Reached' = Reached /\ Above' = Above
  BY <1>0 DEF Clean, LaidOut, Reached, Above
<1>4. Exact'
  BY <1>0, <1>3 DEF PixelInv, Exact, ExactAt
<1>5. Cleared'
  BY <1>0, <1>3 DEF PixelInv, Cleared
<1>6. ScreenTrue'
  <2> SUFFICES ASSUME NEW t \in Surface,
                      phase' = "paint" => t \notin damage',
                      \A b \in Reached' : TopDirty(b)' => t \notin Region'[b]
               PROVE  screen'[t] = Drawing({l \in Reached : Clean[l] /\ t \in Region[l]})'
    BY DEF ScreenTrue
  <2> DEFINE drawn == {l \in Reached : Clean[l] /\ t \in Region[l]}
  <2>1. phase = "paint" => t \notin damage
    OBVIOUS
  <2>2. ASSUME NEW b \in Reached, TopDirty(b) PROVE t \notin Region[b]
    <3>1. TopDirty(b)'
      BY <1>0, <1>3, <2>2 DEF TopDirty
    <3> QED BY <1>2, <1>3, <3>1
  <2>3. screen[t] = Drawing(drawn)
    BY <2>1, <2>2 DEF PixelInv, ScreenTrue
  <2>4. drawn' = drawn
    BY <1>2, <1>3
  <2> HIDE DEF drawn
  <2>5. Drawing(drawn)' = Drawing(drawn)
    BY <1>0, <1>3, <2>4 DEF Drawing, DrawnBefore
  <2> QED BY <1>0, <2>3, <2>5 DEF drawn
<1> QED BY <1>4, <1>5, <1>6 DEF PixelInv

\* Before the first frame no layer is anywhere, and nothing is on the screen.
LEMMA PixelStart == Init => PixelInv
<1> SUFFICES ASSUME Init PROVE PixelInv
  OBVIOUS
<1>0. TreeInv /\ SideInv /\ Computed /\ Reached \subseteq Layer
  BY TreeStart, SideStart, AllComputed DEF Computed, ReachedUp
<1>1. /\ mask = [l \in Layer |-> InvalidateAll] /\ parent = [l \in Layer |-> NoLayer]
      /\ bounds = [l \in Layer |-> {}]
      /\ screen = [t \in Surface |-> Nothing] /\ count = 0 /\ phase = "idle"
  BY DEF Init
<1>2. \A l \in Reached : LaidOut[l] /\ ~Clean[l]
  BY <1>0, <1>1 DEF Computed, FlagsComputed, InvalidateAll
<1>3. Exact
  BY <1>2 DEF Exact
<1>4. Cleared
  BY <1>1 DEF Cleared
<1>5. ScreenTrue
  <2> SUFFICES ASSUME NEW t \in Surface
               PROVE  screen[t] = Drawing({l \in Reached : Clean[l] /\ t \in Region[l]})
    BY DEF ScreenTrue
  <2>1. {l \in Reached : Clean[l] /\ t \in Region[l]} = {}
    BY <1>2
  <2>2. Drawing({}) = Nothing
    BY DEF Drawing, Nothing
  <2> QED BY <1>1, <2>1, <2>2
<1> QED BY <1>3, <1>4, <1>5 DEF PixelInv

\* Nothing changes.
LEMMA SideStutter == SideInv /\ UNCHANGED vars => SideInv'
<1> SUFFICES ASSUME SideInv, UNCHANGED vars PROVE SideInv'
  OBVIOUS
<1>1. UNCHANGED <<mounted, children, parent, kind, frame, picture, scroll, mask, origin, bounds,
                  skips, pending, damage, phase, removed>>
  BY DEF vars, viewVars, treeVars, cacheVars
<1>2. GeometryOK' /\ HomesKept' /\ TreeEnds'
  BY <1>1 DEF SideInv, GeometryOK, HomesKept, Home, Known, Placed, TreeEnds, Acyclic, Founded, Children
<1>3. SkipsTrue' /\ NewReady' /\ FitsMounted' /\ RootUnmarked'
  BY <1>1 DEF SideInv, SkipsTrue, Home, NewReady, Placed, FitsMounted, FitsAll, Fits, Clips, RootUnmarked
<1> QED BY <1>2, <1>3 DEF SideInv

ShownInv == TreeInv /\ SideInv /\ PixelInv

\* Every step keeps the invariant.
LEMMA ShownStep == InPlace /\ ShownInv /\ [Next]_vars => ShownInv'
<1> SUFFICES ASSUME InPlace, ShownInv, [Next]_vars PROVE ShownInv'
  OBVIOUS
<1>0. TreeInv /\ SideInv /\ PixelInv /\ TreeInv' /\ Overflow = FALSE
  BY TreeStep DEF ShownInv, InPlace
<1>1. CASE BeginTransaction
  <2>1. SideInv'
    BY <1>0, <1>1, BeginSide
  <2>2. phase = "idle" /\ phase' = "mutate" /\ UNCHANGED pixelVars
    BY <1>1 DEF BeginTransaction, viewVars, treeVars, cacheVars, pixelVars
  <2> QED BY <1>0, <2>1, <2>2, QuietPixels DEF ShownInv
<1>2. ASSUME NEW v \in Unplaced, NEW p \in Mounted, NEW i \in 0..Len(mounted[p]),
             NEW f \in Frame, ReinsertView(v, p, i, f)
      PROVE  ShownInv'
  <2>1. SideInv' /\ Mutates(v)
    BY <1>0, <1>2, ReinsertSide, ReinsertMutates
  <2> QED BY <1>0, <2>1, MutationPixels DEF ShownInv
<1>3. ASSUME NEW v \in Unplaced, NEW p \in Mounted, NEW i \in 0..Len(mounted[p]),
             NEW f \in Frame, NEW k \in Kind, CreateView(v, p, i, f, k)
      PROVE  ShownInv'
  <2>1. SideInv' /\ Mutates(v)
    BY <1>0, <1>3, CreateSide, CreateMutates
  <2> QED BY <1>0, <2>1, MutationPixels DEF ShownInv
<1>4. ASSUME NEW v \in Mounted \ {Root}, RemoveView(v) PROVE ShownInv'
  <2>1. SideInv' /\ Mutates(v)
    BY <1>0, <1>4, RemoveSide, RemoveMutates
  <2> QED BY <1>0, <2>1, MutationPixels DEF ShownInv
<1>5. ASSUME NEW v \in Mounted \ {Root}, NEW f \in Frame, NEW pic \in {0, 1}, UpdateView(v, f, pic)
      PROVE  ShownInv'
  <2>1. SideInv' /\ Mutates(v)
    BY <1>0, <1>5, UpdateSide, UpdateMutates
  <2> QED BY <1>0, <2>1, MutationPixels DEF ShownInv
<1>6. ASSUME NEW v \in Mounted \ {Root}, NEW x \in Surface, HandleScroll(v, x) PROVE ShownInv'
  <2>1. SideInv' /\ Mutates(v)
    BY <1>0, <1>6, ScrollSide, ScrollMutates
  <2> QED BY <1>0, <2>1, MutationPixels DEF ShownInv
<1>7. CASE PrePaint
  <2>1. SideInv'
    BY <1>0, <1>7, PrePaintSide
  <2> QED BY <1>0, <1>7, <2>1, PrePaintPixels DEF ShownInv
<1>8. CASE Paint
  <2>1. SideInv'
    BY <1>0, <1>8, PaintSide
  <2> QED BY <1>0, <1>8, <2>1, PaintPixels DEF ShownInv
<1>9. CASE UNCHANGED vars
  <2>1. UNCHANGED pixelVars /\ UNCHANGED <<phase, damage, count>>
    BY <1>9 DEF vars, viewVars, treeVars, cacheVars, pixelVars
  <2>2. PixelInv'
    BY <1>0, <2>1, QuietPixels
  <2>3. SideInv'
    BY <1>0, <1>9, SideStutter
  <2> QED BY <1>0, <2>2, <2>3 DEF ShownInv
<1> QED BY <1>1, <1>2, <1>3, <1>4, <1>5, <1>6, <1>7, <1>8, <1>9 DEF Next

\* Where a layer is drawn, by the cached places and by the frames alone.
LEMMA BasesAgree ==
  ASSUME TreeInv, SideInv, \A l \in Reached : ExactAt(l)
  PROVE  \A l \in Reached : Base[l] = origin[l] + ScrollOffset[l]
<1>0. /\ Computed /\ BasesComputed /\ Acyclic /\ Reached \subseteq Layer /\ NoLayer \notin Layer
      /\ GeometryOK
  BY AllComputed, Bases, LayerTreeAssumption
     DEF TreeInv, SideInv, TreeEnds, Computed, ReachedUp, Layer
<1> DEFINE T == {l \in Reached : Base[l] # origin[l] + ScrollOffset[l]}
<1> SUFFICES ASSUME T # {} PROVE FALSE
  OBVIOUS
<1>1. PICK l \in T : parent[l] \notin T
  BY <1>0 DEF Acyclic
<1>2. l \in Layer /\ ExactAt(l) /\ origin[l] \in Int
  BY <1>0, <1>1 DEF GeometryOK
<1>3. CASE parent[l] = NoLayer
  <2>1. Base[l] = 0 /\ ScrollOffset[l] = 0 /\ origin[l] = 0
    BY <1>0, <1>2, <1>3 DEF Computed, OffsetsComputed, BasesComputed, ExactAt
  <2> QED BY <1>1, <2>1
<1>4. CASE parent[l] # NoLayer
  <2> DEFINE q == parent[l]
  <2>1. q \in Reached /\ q \in Layer
    BY <1>0, <1>1, <1>4 DEF Computed, ReachedUp
  <2>2. Base[q] = origin[q] + ScrollOffset[q]
    BY <1>1, <2>1
  <2>3. /\ origin[q] \in Int /\ scroll[q] \in Int /\ frame[q].x \in Int /\ ScrollOffset[q] \in Int
    BY <1>0, <2>1 DEF GeometryOK, Computed, OffsetsComputed
  <2>4. Base[l] = Base[q] + frame[q].x - IF kind[q] = "scroll" THEN scroll[q] ELSE 0
    BY <1>0, <1>2, <1>4 DEF BasesComputed
  <2>5. ScrollOffset[l] = ScrollOffset[q] +
          IF kind[q] = "scroll" THEN (origin[q] + frame[q].x) - scroll[q] ELSE 0
    BY <1>0, <1>2, <1>4 DEF Computed, OffsetsComputed, ScrollShift
  <2>6. origin[l] = IF kind[q] = "scroll" THEN 0 ELSE origin[q] + frame[q].x
    BY <1>2, <1>4 DEF ExactAt
  <2> HIDE DEF q
  <2> QED BY <1>1, <2>2, <2>3, <2>4, <2>5, <2>6
<1> QED BY <1>3, <1>4

\* What a repainting of the whole tree would put in a tile.
LEMMA WantedDraws ==
  ASSUME TreeInv, SideInv, Overflow = FALSE, phase # "mutate",
         \A l \in Reached : ExactAt(l), NEW t \in Surface
  PROVE  Wanted(t) = Drawing({l \in Reached : t \in Region[l]})
<1>0. /\ Computed /\ BasesComputed /\ Reached \subseteq Layer /\ GeometryOK
      /\ \A l \in Reached : Base[l] = origin[l] + ScrollOffset[l]
  BY AllComputed, Bases, BasesAgree
     DEF TreeInv, SideInv, TreeEnds, Computed, ReachedUp
<1>t. \A l \in Layer : /\ origin[l] \in Int /\ ScrollOffset[l] \in Int /\ Base[l] \in Int
                       /\ Extent(frame[l]) \subseteq Int
  BY <1>0 DEF GeometryOK, Computed, OffsetsComputed, BasesComputed, Extent
<1>1. FrameWanted \in [Layer -> SUBSET Int]
  <2>1. \A l \in Layer : Shift(Extent(frame[l]), Base[l]) \in SUBSET Int
    BY <1>t, ShiftOfTiles
  <2> QED BY <2>1 DEF FrameWanted
<1>2. \A l \in Reached : FrameWanted[l] = {x + ScrollOffset[l] : x \in bounds[l]}
  <2> SUFFICES ASSUME NEW l \in Reached
               PROVE  FrameWanted[l] = {x + ScrollOffset[l] : x \in bounds[l]}
    OBVIOUS
  <2>1. l \in Layer /\ bounds[l] = {e + origin[l] : e \in Extent(frame[l])}
    BY <1>0 DEF ExactAt, Shift
  <2>2. FrameWanted[l] = {e + (origin[l] + ScrollOffset[l]) : e \in Extent(frame[l])}
    BY <1>0, <2>1 DEF FrameWanted, Shift
  <2>3. \A e \in Extent(frame[l]) : e + (origin[l] + ScrollOffset[l]) = (e + origin[l]) + ScrollOffset[l]
    <3> SUFFICES ASSUME NEW e \in Extent(frame[l])
                 PROVE  e + (origin[l] + ScrollOffset[l]) = (e + origin[l]) + ScrollOffset[l]
      OBVIOUS
    <3>1. e \in Int /\ origin[l] \in Int /\ ScrollOffset[l] \in Int
      BY <1>t, <2>1
    <3> QED BY ONLY <3>1
  <2> QED BY <2>1, <2>2, <2>3
<1>3. \A l \in Reached : FrameWanted[l] \cap ClipTo(FrameWanted)[l] = Region[l]
  BY <1>1, <1>2, Clipped
<1>4. DrawnIn(Reached, FrameWanted, t)
        = {l \in Reached : t \in FrameWanted[l] \cap ClipTo(FrameWanted)[l]}
  BY DEF DrawnIn
<1>5. DrawnIn(Reached, FrameWanted, t) = {l \in Reached : t \in Region[l]}
  BY <1>3, <1>4
<1> QED BY <1>5 DEF Wanted

\* Between two transactions the invariant says that the screen is right.
LEMMA ShownCurrent == InPlace /\ ShownInv => ScreenCurrent
<1> SUFFICES ASSUME InPlace, ShownInv, phase = "idle", count > 0, NEW t \in Surface
             PROVE  screen[t] = Wanted(t)
  BY DEF ScreenCurrent
<1>0. TreeInv /\ SideInv /\ Exact /\ Cleared /\ ScreenTrue /\ Overflow = FALSE
  BY DEF ShownInv, PixelInv, InPlace
<1>1. \A l \in Reached : mask[l] = {}
  BY <1>0 DEF Cleared
<1>2. \A l \in Reached : Clean[l] /\ ExactAt(l) /\ ~TopDirty(l)
  BY <1>0, <1>1, ClearedExact
<1>3. screen[t] = Drawing({l \in Reached : Clean[l] /\ t \in Region[l]})
  BY <1>0, <1>2 DEF ScreenTrue
<1>4. {l \in Reached : Clean[l] /\ t \in Region[l]} = {l \in Reached : t \in Region[l]}
  BY <1>2
<1>5. Wanted(t) = Drawing({l \in Reached : t \in Region[l]})
  BY <1>0, <1>2, WantedDraws
<1> QED BY <1>3, <1>4, <1>5

(***************************************************************************)
(* When every view stays below the parent it has and no child sticks out   *)
(* of a parent that does not clip it, the screen shows after every frame   *)
(* what a repainting of the whole tree would.                              *)
(***************************************************************************)
THEOREM ScreenCurrentHolds == InPlace => (Spec => []ScreenCurrent)
<1> SUFFICES ASSUME InPlace PROVE Spec => []ScreenCurrent
  OBVIOUS
<1>1. Init => ShownInv
  BY TreeStart, SideStart, PixelStart DEF ShownInv
<1>2. ShownInv /\ [Next]_vars => ShownInv'
  BY ShownStep
<1>3. ShownInv => ScreenCurrent
  BY ShownCurrent
<1> QED BY <1>1, <1>2, <1>3, PTL DEF Spec

=============================================================================
