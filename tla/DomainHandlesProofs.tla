-------------------------- MODULE DomainHandlesProofs --------------------------
(***************************************************************************)
(* The example domain is right for plain handles of any length.            *)
(***************************************************************************)
EXTENDS DomainHandles, WellFoundedInduction, SequenceTheorems, FiniteSetTheorems, TLAPS

\* Of some positions there is a last one: what follows it is the least of the
\* ranges that begin at a position.
LEMMA LastPosition ==
    ASSUME NEW n \in Nat, NEW P \in SUBSET (1..n), P # {}
    PROVE  \E p \in P : \A q \in P : q <= p
<1> DEFINE Order == StrictSubsetOrdering(1..n)
           Rest == {p..n : p \in P}
<1>1. IsWellFoundedOn(Order, FiniteSubsetsOf(1..n))
  BY FS_StrictSubsetOrderingWellFounded
<1>2. FiniteSubsetsOf(1..n) = SUBSET (1..n)
  <2>1. IsFiniteSet(1..n)
    BY FS_Interval
  <2> QED
    BY <2>1, FS_FiniteSubsetsOfFinite
<1>3. Rest \in SUBSET SUBSET (1..n) /\ Rest # {}
  <2>1. \A p \in P : p..n \subseteq 1..n
    OBVIOUS
  <2>2. PICK p : p \in P
    OBVIOUS
  <2> QED
    BY <2>1, <2>2
<1>4. \E R \in Rest : \A Q \in Rest : <<Q, R>> \notin Order
  <2> HIDE DEF Order, Rest
  <2> QED
    BY <1>1, <1>2, <1>3, WFMin
<1>5. PICK p \in P : \A q \in P : <<q..n, p..n>> \notin Order
  BY <1>4
<1>6. ASSUME NEW q \in P, p < q PROVE FALSE
  <2>1. q..n \subseteq p..n /\ p \in p..n /\ p \notin q..n
    BY <1>6
  <2>2. <<q..n, p..n>> \in Order
    BY <2>1 DEF StrictSubsetOrdering
  <2> QED
    BY <2>2, <1>5
<1> QED
  BY <1>6

-----------------------------------------------------------------------------
(* The last two labels of a handle with too many. *)

\* h[i..j] is the last label, h[a..(i - 2)] the label before it, and something
\* precedes both.
LastLabels(h, a, i, j) ==
    /\ a \in 2..(i - 2) /\ i \in 4..j /\ j \in GroupEnds(h) /\ j \in DOMAIN h
    /\ h[a - 1] = "." /\ h[i - 1] = "."
    /\ \A k \in a..(i - 2) : ~IsDot(h[k])
    /\ \A k \in i..j : h[k] = "w"

\* Nothing begins after the last label.
LEMMA NothingFollows ==
    ASSUME NEW h \in Seq(Chars), NEW j \in GroupEnds(h), NEW i \in 1..j,
           \A k \in i..j : h[k] = "w",
           NEW s \in Starts(h)
    PROVE  s <= i
<1>1. s \in DOMAIN h /\ h[s] # "." /\ (s > 1 => IsDot(h[s - 1]))
  BY DEF Starts, IsDot
<1>2. s <= j /\ j \in Int
  BY <1>1 DEF GroupEnds
<1>3. CASE s > i
  <2>1. s - 1 \in i..j
    BY <1>1, <1>2, <1>3
  <2>2. h[s - 1] = "w"
    BY <2>1
  <2> QED
    BY <1>1, <1>3, <2>2 DEF IsDot
<1> QED
  BY <1>1, <1>2, <1>3

\* Where a handle has more than two labels, there are two before which a full
\* stop comes.
LEMMA PlainHasLastLabels ==
    ASSUME NEW h \in Seq(Chars), TooManyLabels(h), Plain(h)
    PROVE  \E a, i, j \in Nat : LastLabels(h, a, i, j)
<1>0. PICK j \in GroupEnds(h) : \E i \in 1..j :
          h[i] # "." /\ (i > 1 => h[i - 1] = ".") /\ \A k \in i..j : h[k] = "w"
  BY DEF Plain
<1>1. PICK i \in 1..j :
          h[i] # "." /\ (i > 1 => h[i - 1] = ".") /\ \A k \in i..j : h[k] = "w"
  BY <1>0
<1>2. /\ h # <<>> /\ ~IsDot(h[1])
      /\ \A k \in 1..(Len(h) - 1) : ~(IsDot(h[k]) /\ IsDot(h[k + 1]))
      /\ Cardinality(Starts(h)) > 2
  <2>1. PICK zone \in ZoneLabels : Cardinality(Starts(h)) > zone + 1
    BY DEF TooManyLabels, LabelCount
  <2>2. Cardinality(Starts(h)) \in Nat
    <3>1. IsFiniteSet(1..Len(h)) /\ Starts(h) \subseteq 1..Len(h)
      BY FS_Interval DEF Starts
    <3> QED
      BY <3>1, FS_Subset, FS_CardinalityType
  <2>3. zone \in Nat /\ zone > 0
    BY ZonesAssumption
  <2> QED
    BY <2>1, <2>2, <2>3 DEF TooManyLabels, Encodes
<1>3. Len(h) \in Nat /\ DOMAIN h = 1..Len(h) /\ j \in DOMAIN h /\ i \in DOMAIN h
  BY DEF GroupEnds
<1>4. \A k \in DOMAIN h : IsDot(h[k]) => h[k] = "."
  BY DEF Plain, IsDot
<1>5. Starts(h) \subseteq 1..i
  BY <1>1, <1>3, NothingFollows DEF Starts
<1>6. \A x, y : ~(Starts(h) \subseteq {x, y})
  <2> SUFFICES ASSUME NEW x, NEW y, Starts(h) \subseteq {x, y} PROVE FALSE
    OBVIOUS
  <2>1. IsFiniteSet({x}) /\ Cardinality({x}) = 1
    BY FS_Singleton
  <2>2. /\ IsFiniteSet({x} \cup {y})
        /\ Cardinality({x} \cup {y}) = IF y \in {x} THEN 1 ELSE 1 + 1
    BY <2>1, FS_AddElement
  <2>3. Starts(h) \in SUBSET ({x} \cup {y})
    OBVIOUS
  <2>4. Cardinality(Starts(h)) <= Cardinality({x} \cup {y})
    BY <2>2, <2>3, FS_Subset
  <2>5. IsFiniteSet(Starts(h))
    BY <2>2, <2>3, FS_Subset
  <2>6. Cardinality(Starts(h)) \in Nat
    BY <2>5, FS_CardinalityType
  <2>7. Cardinality({x} \cup {y}) \in {1, 2}
    BY <2>2
  <2> QED
    BY ONLY <1>2, <2>4, <2>6, <2>7
<1>7. i > 1
  BY <1>5, <1>6, <1>3
<1>8. h[i - 1] = "." /\ i > 2 /\ ~IsDot(h[i - 2])
  <2>1. h[i - 1] = "."
    BY <1>1, <1>7
  <2>2. i > 2
    BY <2>1, <1>2, <1>7, <1>3 DEF IsDot
  <2>3. i - 2 \in 1..(Len(h) - 1) /\ (i - 2) + 1 = i - 1
    BY <2>2, <1>3
  <2> QED
    BY <2>1, <2>2, <2>3, <1>2 DEF IsDot
<1> DEFINE Dots == {k \in 1..(i - 2) : h[k] = "."}
<1>9. Dots # {}
  <2> SUFFICES ASSUME Dots = {} PROVE FALSE
    OBVIOUS
  <2>1. ASSUME NEW s \in Starts(h), s # 1, s # i PROVE FALSE
    <3>1. s \in 1..i /\ s \in DOMAIN h /\ ~IsDot(h[s]) /\ (s > 1 => IsDot(h[s - 1]))
      BY <2>1, <1>5 DEF Starts
    <3>2. s # i - 1
      BY <3>1, <1>8 DEF IsDot
    <3>3. s - 1 \in 1..(i - 2) /\ s - 1 \in DOMAIN h /\ IsDot(h[s - 1])
      BY <3>1, <3>2, <2>1, <1>3
    <3> QED
      BY <3>3, <1>4
  <2> QED
    BY <2>1, <1>6
<1>10. PICK d \in Dots : \A k \in Dots : k <= d
  <2>1. i - 2 \in Nat /\ Dots \in SUBSET (1..(i - 2))
    BY <1>8, <1>3
  <2> HIDE DEF Dots
  <2> QED
    BY <2>1, <1>9, LastPosition
<1>11. d \in 1..(i - 2) /\ h[d] = "." /\ d # i - 2
  BY <1>10, <1>8 DEF IsDot
<1>12. d # 1
  BY <1>11, <1>2 DEF IsDot
<1>13. ASSUME NEW k \in (d + 1)..(i - 2) PROVE ~IsDot(h[k])
  <2>1. k \in DOMAIN h /\ k \in 1..(i - 2) /\ k > d
    BY <1>3, <1>11, <1>13
  <2>2. k \notin Dots
    BY <2>1, <1>10, <1>11
  <2> QED
    BY <2>1, <2>2, <1>4
<1>14. LastLabels(h, d + 1, i, j)
  BY <1>1, <1>3, <1>8, <1>11, <1>12, <1>13 DEF LastLabels
<1> QED
  BY <1>14, <1>3, <1>11

\* The group of the leftmost match is the last two labels: a match cannot begin
\* before a, where there is a full stop, and it ends where the last label does.
LEMMA ExampleIsGroup ==
    ASSUME NEW h \in Seq(Chars), NEW a \in Nat, NEW i \in Nat, NEW j \in Nat,
           LastLabels(h, a, i, j)
    PROVE  ExampleDomain(h) = SubSeq(h, a, j)
<1> DEFINE groups == {g \in (1..Len(h)) \X GroupEnds(h) : Matches(h, g[1], g[2])}
<1>1. /\ a \in 2..(i - 2) /\ i \in 4..j /\ j \in GroupEnds(h) /\ j \in 1..Len(h)
      /\ h[a - 1] = "." /\ h[i - 1] = "."
      /\ \A k \in a..(i - 2) : h[k] # "."
      /\ \A k \in i..j : h[k] = "w"
  BY DEF LastLabels, IsDot
<1>2. Matches(h, a, j)
  <2>1. i - 1 \in (a + 1)..(j - 1) /\ (i - 1) + 1 = i /\ (i - 1) - 1 = i - 2
    BY <1>1
  <2> QED
    BY <1>1, <2>1 DEF Matches
<1>3. <<a, j>> \in groups
  BY <1>1, <1>2
<1>4. ASSUME NEW b \in 1..Len(h), NEW e \in GroupEnds(h), Matches(h, b, e)
      PROVE  e = j /\ a <= b
  <2>1. PICK m \in (b + 1)..(e - 1) :
            /\ \A k \in b..(m - 1) : h[k] # "."
            /\ h[m] = "."
            /\ \A k \in (m + 1)..e : h[k] = "w"
    BY <1>4 DEF Matches
  <2>2. e \in Int /\ Len(h) \in Nat /\ m \in Int /\ m < e /\ b < m
    BY <2>1, <1>1 DEF GroupEnds
  <2>3. h[e] = "w" /\ h[j] = "w"
    BY <2>1, <2>2, <1>1
  <2>4. e = j
    BY <2>2, <2>3, <1>1 DEF GroupEnds
  <2>5. m = i - 1
    <3>1. ~(m < i - 1)
      <4> SUFFICES ASSUME m < i - 1 PROVE FALSE
        OBVIOUS
      <4>1. i - 1 \in (m + 1)..e
        BY <2>2, <2>4, <1>1
      <4> QED
        BY <4>1, <2>1, <1>1
    <3>2. ~(m > i - 1)
      <4> SUFFICES ASSUME m > i - 1 PROVE FALSE
        OBVIOUS
      <4>1. m \in i..j
        BY <2>2, <2>4, <1>1
      <4> QED
        BY <4>1, <2>1, <1>1
    <3> QED
      BY <3>1, <3>2, <2>2
  <2>6. a <= b
    <3> SUFFICES ASSUME b < a PROVE FALSE
      BY <1>1
    <3>1. a - 1 \in b..(m - 1)
      BY <2>5, <1>1
    <3> QED
      BY <3>1, <2>1, <1>1
  <2> QED
    BY <2>4, <2>6
<1>5. \A g \in groups : g[2] = j /\ a <= g[1] /\ g[1] \in Nat
  BY <1>4
<1>6. \A other \in groups : <<a, j>>[1] <= other[1]
  BY <1>5
<1>7. PICK first : first = CHOOSE g \in groups : \A other \in groups : g[1] <= other[1]
  OBVIOUS
<1>8. first \in groups /\ \A other \in groups : first[1] <= other[1]
  <2> HIDE DEF groups
  <2> QED
    BY <1>3, <1>6, <1>7
<1>9. first[1] = a /\ first[2] = j
  <2>1. first[1] <= a
    BY <1>3, <1>8
  <2> QED
    BY <2>1, <1>5, <1>8, <1>1
<1>10. ExampleDomain(h) = SubSeq(h, first[1], first[2])
  BY <1>3, <1>7 DEF ExampleDomain
<1> QED
  BY <1>9, <1>10

\* Two labels at the end of a name are a name of two labels.
LEMMA GroupIsName ==
    ASSUME NEW h \in Seq(Chars), Encodes(h),
           NEW a \in Nat, NEW i \in Nat, NEW j \in Nat, LastLabels(h, a, i, j),
           NEW e, e = SubSeq(h, a, j)
    PROVE  /\ e \in Seq(Chars) /\ Len(e) = j - a + 1
           /\ Encodes(e) /\ LabelCount(e) = 2
<1>1. /\ a \in 2..(i - 2) /\ i \in 4..j /\ j \in GroupEnds(h) /\ j \in 1..Len(h)
      /\ h[a - 1] = "." /\ h[i - 1] = "."
      /\ \A k \in a..(i - 2) : ~IsDot(h[k])
      /\ \A k \in i..j : h[k] = "w"
  BY DEF LastLabels
<1>2. \A k \in a..j : h[k] \in Chars
  BY <1>1
<1>3. /\ e \in Seq(Chars) /\ Len(e) = j - a + 1
      /\ \A x \in 1..(j - a + 1) : e[x] = h[a + x - 1]
  BY <1>1, <1>2, SubSeqProperties
<1>4. DOMAIN e = 1..Len(e) /\ Len(e) \in Nat /\ DOMAIN h = 1..Len(h) /\ Len(h) \in Nat
  BY <1>3
<1>5. /\ \A k \in 1..(Len(h) - 1) : ~(IsDot(h[k]) /\ IsDot(h[k + 1]))
      /\ \A k \in Starts(h) \cup Ends(h) : h[k] # "-"
  BY DEF Encodes
<1>6. ASSUME NEW x \in Starts(e) PROVE a + x - 1 \in Starts(h) /\ x \in {1, i - a + 1}
  <2>1. x \in 1..Len(e) /\ ~IsDot(e[x]) /\ (x > 1 => IsDot(e[x - 1]))
    BY <1>4 DEF Starts
  <2>2. a + x - 1 \in a..j /\ e[x] = h[a + x - 1]
    BY <2>1, <1>1, <1>3
  <2>3. CASE x = 1
    <3>1. a + x - 1 = a /\ a \in DOMAIN h /\ IsDot(h[a - 1])
      BY <2>3, <1>1, <1>4 DEF IsDot
    <3>2. ~IsDot(h[a])
      BY <2>1, <2>2, <3>1
    <3>3. a \in Starts(h)
      BY <3>1, <3>2 DEF Starts
    <3> QED
      BY <2>3, <3>1, <3>3
  <2>4. CASE x > 1
    <3>1. e[x - 1] = h[a + x - 2] /\ (a + x - 1) - 1 = a + x - 2 /\ a + x - 2 \in a..j
      <4>1. x - 1 \in 1..(j - a + 1) /\ a + (x - 1) - 1 = a + x - 2
        BY <2>1, <2>4, <1>1, <1>3
      <4>2. e[x - 1] = h[a + x - 2]
        BY <4>1, <1>3
      <4>3. (a + x - 1) - 1 = a + x - 2 /\ a + x - 2 \in a..j
        BY <2>1, <2>4, <1>1, <1>3
      <4> QED
        BY <4>2, <4>3
    <3>2. IsDot(h[a + x - 2])
      BY <2>1, <2>4, <3>1
    <3>3. a + x - 2 \notin a..(i - 2) /\ a + x - 2 \notin i..j
      BY <3>2, <1>1 DEF IsDot
    <3>4. a + x - 2 = i - 1
      BY <3>1, <3>3, <1>1
    <3>5. x = i - a + 1
      BY <3>4, <2>1, <1>1
    <3>6. a + x - 1 \in Starts(h)
      <4>1. PICK k \in a..j : k = a + x - 1
        BY <2>2
      <4>2. ~IsDot(h[k]) /\ IsDot(h[k - 1])
        <5>1. k - 1 = a + x - 2 /\ h[k] = e[x]
          BY <4>1, <3>1, <2>2
        <5> QED
          BY <5>1, <2>1, <3>2
      <4>3. k \in DOMAIN h
        BY <4>1, <1>1, <1>4
      <4>4. k \in Starts(h)
        BY <4>2, <4>3 DEF Starts
      <4> QED
        BY <4>1, <4>4
    <3> QED
      BY <3>5, <3>6
  <2> QED
    BY <2>1, <2>3, <2>4
<1>7. ASSUME NEW x \in Ends(e) PROVE h[a + x - 1] # "-" /\ e[x] = h[a + x - 1]
  <2>1. x \in 1..Len(e) /\ ~IsDot(e[x]) /\ (x < Len(e) => IsDot(e[x + 1]))
    BY <1>4 DEF Ends
  <2>2. a + x - 1 \in a..j /\ e[x] = h[a + x - 1]
    BY <2>1, <1>1, <1>3
  <2>3. CASE x = Len(e)
    <3>1. a + x - 1 = j
      BY <2>3, <1>1, <1>3
    <3> QED
      BY <3>1, <2>2, <1>1
  <2>4. CASE x < Len(e)
    <3>1. e[x + 1] = h[a + x] /\ (a + x - 1) + 1 = a + x
      <4>1. x + 1 \in 1..(j - a + 1) /\ a + (x + 1) - 1 = a + x
        BY <2>1, <2>4, <1>1, <1>3
      <4> QED
        BY <4>1, <1>3, <1>1, <2>1
    <3>2. a + x - 1 \in Ends(h)
      BY <2>1, <2>2, <2>4, <3>1, <1>1, <1>4 DEF Ends
    <3> QED
      BY <3>2, <2>2, <1>5
  <2> QED
    BY <2>1, <2>3, <2>4, <1>4
<1>8. e # <<>> /\ ~IsDot(e[1]) /\ 1 \in Starts(e)
  <2>1. 1 \in 1..(j - a + 1) /\ a + 1 - 1 = a /\ a \in a..(i - 2)
    BY <1>1
  <2>2. e[1] = h[a] /\ ~IsDot(h[a])
    BY <2>1, <1>1, <1>3
  <2>3. 1 \in DOMAIN e /\ e # <<>>
    <3>1. 1 \in DOMAIN e
      BY <2>1, <1>3, <1>4
    <3>2. e = <<>> => DOMAIN e = {}
      OBVIOUS
    <3> QED
      BY <3>1, <3>2
  <2> QED
    BY <2>2, <2>3 DEF Starts
<1>9. i - a + 1 \in Starts(e) /\ i - a + 1 # 1
  <2>1. /\ i - a + 1 \in 1..(j - a + 1) /\ a + (i - a + 1) - 1 = i
        /\ i - a \in 1..(j - a + 1) /\ a + (i - a) - 1 = i - 1 /\ (i - a + 1) - 1 = i - a
    BY <1>1
  <2>2. e[i - a + 1] = h[i] /\ e[i - a] = h[i - 1]
    BY <2>1, <1>3
  <2>3. ~IsDot(h[i]) /\ IsDot(h[i - 1])
    BY <1>1 DEF IsDot
  <2> QED
    BY <2>1, <2>2, <2>3, <1>1, <1>3, <1>4 DEF Starts
<1>10. Starts(e) = {1, i - a + 1}
  BY <1>6, <1>8, <1>9
<1>11. LabelCount(e) = 2
  <2>1. IsFiniteSet({1}) /\ Cardinality({1}) = 1 /\ i - a + 1 \notin {1}
    BY <1>9, FS_Singleton
  <2>2. Cardinality({1} \cup {i - a + 1}) = 1 + 1
    BY <2>1, FS_AddElement
  <2>3. Starts(e) = {1} \cup {i - a + 1}
    BY <1>10
  <2>4. Cardinality(Starts(e)) = 1 + 1
    BY <2>2, <2>3, Zenon
  <2>5. Cardinality(Starts(e)) = 2
    BY <2>4
  <2> QED
    BY <2>5 DEF LabelCount
<1>12. ASSUME NEW x \in 1..(Len(e) - 1) PROVE ~(IsDot(e[x]) /\ IsDot(e[x + 1]))
  <2>1. /\ x \in 1..(j - a + 1) /\ x + 1 \in 1..(j - a + 1)
        /\ a + (x + 1) - 1 = (a + x - 1) + 1 /\ a + x - 1 \in 1..(Len(h) - 1)
    BY <1>1, <1>3, <1>4
  <2> QED
    BY <2>1, <1>3, <1>5
<1>13. ASSUME NEW x \in Starts(e) \cup Ends(e) PROVE e[x] # "-"
  <2>1. CASE x \in Starts(e)
    <3>1. x \in 1..(j - a + 1)
      BY <2>1, <1>3, <1>4 DEF Starts
    <3> QED
      BY <3>1, <2>1, <1>6, <1>5, <1>3
  <2>2. CASE x \in Ends(e)
    BY <2>2, <1>7
  <2> QED
    BY <2>1, <2>2
<1>14. Encodes(e)
  BY <1>8, <1>12, <1>13 DEF Encodes
<1> QED
  BY <1>3, <1>11, <1>14

-----------------------------------------------------------------------------

\* What a user types are characters.
LEMMA Typed == Spec => [](handle \in Seq(Chars))
<1>1. Init => handle \in Seq(Chars)
  BY DEF Init
<1>2. handle \in Seq(Chars) /\ [Next]_handle => (handle \in Seq(Chars))'
  BY DEF Next, Type
<1> QED
  BY <1>1, <1>2, PTL DEF Spec

\* The example a page shows for a plain handle with too many labels for some zone
\* is its last two labels, whatever its length and whatever zones there are: in
\* particular there is one, and the assertion of load_registry_object holds.
THEOREM ExamplesAreLastLabels == Spec => []ExampleIsLastLabels
<1>1. ASSUME handle \in Seq(Chars), TooManyLabels(handle), Plain(handle)
      PROVE  ExampleIsLastLabels
  <2>1. PICK a \in Nat, i \in Nat, j \in Nat : LastLabels(handle, a, i, j)
    BY <1>1, PlainHasLastLabels
  <2>2. PICK example : example = ExampleDomain(handle)
    OBVIOUS
  <2>3. example = SubSeq(handle, a, j)
    BY <1>1, <2>1, <2>2, ExampleIsGroup
  <2>4. /\ example \in Seq(Chars) /\ Len(example) = j - a + 1
        /\ Encodes(example) /\ LabelCount(example) = 2
    BY <1>1, <2>1, <2>3, GroupIsName DEF TooManyLabels
  <2>5. example # NULL
    BY <2>4, NullIsNoExample DEF Chars
  <2>6. j \in GroupEnds(handle) /\ handle[a - 1] = "."
    BY <2>1 DEF LastLabels
  <2>7. j - Len(example) + 1 = a /\ j - Len(example) = a - 1
    BY <2>4
  <2> QED
    BY <2>2, <2>3, <2>4, <2>5, <2>6, <2>7 DEF ExampleIsLastLabels
<1>2. handle \in Seq(Chars) => ExampleIsLastLabels
  <2>1. CASE TooManyLabels(handle) /\ Plain(handle)
    BY <1>1, <2>1
  <2>2. CASE ~(TooManyLabels(handle) /\ Plain(handle))
    BY <2>2 DEF ExampleIsLastLabels
  <2> QED
    BY <2>1, <2>2
<1> QED
  BY <1>2, Typed, PTL

=============================================================================
