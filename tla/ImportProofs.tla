---------------------------- MODULE ImportProofs ----------------------------
(***************************************************************************)
(* Theorems about the imports (module SnapshotImport) and the intake of     *)
(* Linear's ready work (module ReadyWork).                                  *)
(*                                                                         *)
(* A plan is the plan of its snapshot on the workflow it was made for.  Its  *)
(* events are a finite set put in the canonical order, and carrying them out *)
(* is a recursive function of their number: what holds of its values is      *)
(* proved by induction on that number.  Three theorems rest on what one      *)
(* event does to a workflow:                                                *)
(*   - a link stays and only advances (LinksOnlyAdvance);                   *)
(*   - what was processed has left its link, so that a snapshot that was     *)
(*     applied has nothing to add (AppliedSnapshotsAreRepresented);          *)
(*   - an item has one manager of its title, and the title it last observed  *)
(*     (TitlesFollowTheirSource).                                           *)
(* The fourth, OnlyReadyWorkIsTakenIn, is about what a listing has seen.     *)
(***************************************************************************)
EXTENDS ReadyWork, FiniteSetTheorems, SequenceTheorems, WellFoundedInduction, TLAPS

-----------------------------------------------------------------------------
(* Recursion over the naturals, and sets in order.                         *)

\* A set of naturals that has 0 and the successors of its members has them all.
LEMMA InductiveSet ==
    ASSUME NEW S, 0 \in S, \A n \in Nat : n \in S => n + 1 \in S
    PROVE  Nat \subseteq S
<1> DEFINE R == {ss \in Nat \X Nat : ss[1] < ss[2]}
<1>1. IsWellFoundedOn(R, Nat)
    BY NatLessThanWellFounded DEF OpToRel
<1>2. \A x, y \in Nat : y < x => <<y, x>> \in R
    OBVIOUS
<1> HIDE DEF R
<1> SUFFICES ASSUME Nat \ S # {} PROVE FALSE
    OBVIOUS
<1>3. PICK x \in Nat \ S : \A y \in Nat \ S : ~(<<y, x>> \in R)
    BY <1>1, WFMin
<1>4. x # 0 /\ x - 1 \in Nat /\ x - 1 < x /\ (x - 1) + 1 = x
    OBVIOUS
<1>5. x - 1 \in S
    BY <1>2, <1>3, <1>4
<1> QED BY <1>4, <1>5

\* A strict total order R of a finite set S.
Below(S, R, x) == {y \in S : <<y, x>> \in R}
IsOrder(S, R) ==
    /\ IsFiniteSet(S)
    /\ \A x \in S : <<x, x>> \notin R
    /\ \A x, y \in S : x # y => <<x, y>> \in R \/ <<y, x>> \in R
    /\ \A x, y, z \in S : <<x, y>> \in R /\ <<y, z>> \in R => <<x, z>> \in R

\* Every place in an order is taken once.
LEMMA OrderPlaces ==
    ASSUME NEW S, NEW R, IsOrder(S, R)
    PROVE  /\ Cardinality(S) \in Nat
           /\ \A k \in 1..Cardinality(S) : \E x \in S : Cardinality(Below(S, R, x)) = k - 1
           /\ \A x \in S : Cardinality(Below(S, R, x)) \in 0..(Cardinality(S) - 1)
           /\ \A x, y \in S : <<x, y>> \in R =>
                Cardinality(Below(S, R, x)) < Cardinality(Below(S, R, y))
<1> DEFINE N == Cardinality(S)
           rank(x) == Cardinality(Below(S, R, x))
<1>1. IsFiniteSet(S) /\ N \in Nat
    BY FS_CardinalityType DEF IsOrder
<1>2. ASSUME NEW x \in S
      PROVE  IsFiniteSet(Below(S, R, x)) /\ rank(x) \in Nat /\ rank(x) < N
    <2>1. Below(S, R, x) \in SUBSET S /\ Below(S, R, x) # S
        BY DEF Below, IsOrder
    <2>2. IsFiniteSet(Below(S, R, x)) /\ rank(x) <= N /\ (N = rank(x) => S = Below(S, R, x))
        BY <1>1, <2>1, FS_Subset
    <2>3. rank(x) \in Nat
        BY <2>2, FS_CardinalityType
    <2> QED BY <1>1, <2>1, <2>2, <2>3
<1>3. ASSUME NEW x \in S, NEW y \in S, <<x, y>> \in R PROVE rank(x) < rank(y)
    <2>1. Below(S, R, x) \in SUBSET Below(S, R, y) /\ x \in Below(S, R, y) /\ x \notin Below(S, R, x)
        BY <1>3 DEF Below, IsOrder
    <2>2. rank(x) <= rank(y) /\ (rank(y) = rank(x) => Below(S, R, y) = Below(S, R, x))
        BY <1>2, <2>1, FS_Subset
    <2>3. rank(x) \in Nat /\ rank(y) \in Nat
        BY <1>2
    <2> QED BY <2>1, <2>2, <2>3
<1> DEFINE ranks == [x \in S |-> rank(x)]
<1>4. ranks \in Injection(S, 0..(N - 1))
    <2>1. ranks \in [S -> 0..(N - 1)]
        BY <1>1, <1>2
    <2>2. ASSUME NEW x \in S, NEW y \in S, ranks[x] = ranks[y] PROVE x = y
        <3>1. rank(x) = rank(y) /\ rank(x) \in Nat /\ rank(y) \in Nat
            BY <1>2, <2>2
        <3>2. ~(rank(x) < rank(y)) /\ ~(rank(y) < rank(x))
            BY <3>1
        <3>3. ~(<<x, y>> \in R) /\ ~(<<y, x>> \in R)
            BY <1>3, <3>2
        <3> QED BY <3>3 DEF IsOrder
    <2> HIDE DEF ranks
    <2> QED BY <2>1, <2>2 DEF Injection, IsInjective
<1>5. IsFiniteSet(0..(N - 1)) /\ Cardinality(0..(N - 1)) = N
    <2>1. 0 \in Int /\ N - 1 \in Int
        BY <1>1
    <2> HIDE DEF N
    <2>2. /\ IsFiniteSet(0..(N - 1))
          /\ Cardinality(0..(N - 1)) = IF 0 > N - 1 THEN 0 ELSE (N - 1) - 0 + 1
        BY <2>1, FS_Interval
    <2> QED BY <1>1, <2>2
<1>6. ranks \in Surjection(S, 0..(N - 1))
    BY <1>4, <1>5, FS_Injection
<1>7. ASSUME NEW k \in 1..N PROVE \E x \in S : rank(x) = k - 1
    <2>1. k - 1 \in 0..(N - 1)
        BY <1>1
    <2>2. PICK x \in S : ranks[x] = k - 1
        BY <1>6, <2>1 DEF Surjection
    <2> QED BY <2>2
<1>8. \A x \in S : rank(x) \in 0..(N - 1)
    BY <1>1, <1>2
<1> QED BY <1>1, <1>3, <1>7, <1>8

\* A sequence that has the members of an order in their places.
IsInOrder(q, S, R) ==
    q = [k \in 1..Cardinality(S) |-> CHOOSE x \in S : Cardinality(Below(S, R, x)) = k - 1]

\* It has all of them, each once, the smaller ones first.
LEMMA OrderedSequence ==
    ASSUME NEW S, NEW R, IsOrder(S, R), NEW q, IsInOrder(q, S, R)
    PROVE  /\ Len(q) = Cardinality(S) /\ Len(q) \in Nat
           /\ DOMAIN q = 1..Len(q) /\ q \in Seq(S)
           /\ \A k \in 1..Len(q) : q[k] \in S /\ Below(S, R, q[k]) = {q[j] : j \in 1..(k - 1)}
           /\ \A x \in S : \E k \in 1..Len(q) : q[k] = x
           /\ \A j, k \in 1..Len(q) : j < k <=> <<q[j], q[k]>> \in R
           /\ \A j, k \in 1..Len(q) : q[j] = q[k] => j = k
<1> DEFINE N == Cardinality(S)
           rank(x) == Cardinality(Below(S, R, x))
<1>1. N \in Nat /\ DOMAIN q = 1..N
    BY OrderPlaces DEF IsInOrder
<1>2. \A k \in 1..N : q[k] \in S /\ rank(q[k]) = k - 1
    <2> TAKE k \in 1..N
    <2>1. \E x \in S : rank(x) = k - 1
        BY OrderPlaces
    <2>2. q[k] = CHOOSE x \in S : rank(x) = k - 1
        BY DEF IsInOrder
    <2> QED BY <2>1, <2>2
<1>3. \A x, y \in S : rank(x) = rank(y) => x = y
    <2> SUFFICES ASSUME NEW x \in S, NEW y \in S, rank(x) = rank(y) PROVE x = y
        OBVIOUS
    <2>1. rank(x) \in Nat /\ rank(y) \in Nat
        BY OrderPlaces
    <2>2. ~(rank(x) < rank(y)) /\ ~(rank(y) < rank(x))
        BY <2>1
    <2>3. ~(<<x, y>> \in R) /\ ~(<<y, x>> \in R)
        BY <2>2, OrderPlaces
    <2> QED BY <2>3 DEF IsOrder
<1>4. \A x \in S : rank(x) + 1 \in 1..N /\ q[rank(x) + 1] = x
    <2> TAKE x \in S
    <2>1. rank(x) \in 0..(N - 1)
        BY OrderPlaces
    <2>2. rank(x) + 1 \in 1..N /\ (rank(x) + 1) - 1 = rank(x)
        BY <1>1, <2>1
    <2>3. q[rank(x) + 1] \in S /\ rank(q[rank(x) + 1]) = rank(x)
        BY <1>2, <2>2
    <2> QED BY <1>3, <2>2, <2>3
<1>5. Len(q) = N /\ q \in Seq(S)
    <2>1. q = [k \in 1..N |-> q[k]]
        BY DEF IsInOrder
    <2>2. q \in [1..N -> S]
        BY <1>2, <2>1
    <2> QED BY <1>1, <2>2
<1>6. \A x, y \in S : <<x, y>> \in R <=> rank(x) < rank(y)
    <2> SUFFICES ASSUME NEW x \in S, NEW y \in S PROVE <<x, y>> \in R <=> rank(x) < rank(y)
        OBVIOUS
    <2>1. rank(x) \in Nat /\ rank(y) \in Nat
        BY OrderPlaces
    <2>2. <<x, y>> \in R => rank(x) < rank(y)
        BY OrderPlaces
    <2>3. <<y, x>> \in R => rank(y) < rank(x)
        BY OrderPlaces
    <2>4. x = y => ~(rank(x) < rank(y))
        BY <2>1
    <2>5. x # y => <<x, y>> \in R \/ <<y, x>> \in R
        BY DEF IsOrder
    <2>6. x = y => <<x, y>> \notin R
        BY DEF IsOrder
    <2> QED BY <2>1, <2>2, <2>3, <2>4, <2>5, <2>6
<1> HIDE DEF rank, N
<1>7. \A j, k \in 1..N : j < k <=> <<q[j], q[k]>> \in R
    BY <1>1, <1>2, <1>6
<1>8. \A j, k \in 1..N : q[j] = q[k] => j = k
    BY <1>1, <1>2
<1>9. \A k \in 1..N : Below(S, R, q[k]) = {q[j] : j \in 1..(k - 1)}
    <2> TAKE k \in 1..N
    <2>1. ASSUME NEW x \in Below(S, R, q[k]) PROVE x \in {q[j] : j \in 1..(k - 1)}
        <3>1. x \in S /\ <<x, q[k]>> \in R
            BY <2>1 DEF Below
        <3>2. PICK j \in 1..N : q[j] = x
            BY <1>4, <3>1
        <3>3. j < k
            BY <1>7, <3>1, <3>2
        <3>4. j \in 1..(k - 1)
            BY <1>1, <3>3
        <3> QED BY <3>2, <3>4
    <2>2. ASSUME NEW j \in 1..(k - 1) PROVE q[j] \in Below(S, R, q[k])
        <3>1. j \in 1..N /\ j < k
            BY <1>1
        <3> QED BY <1>2, <1>7, <3>1 DEF Below
    <2> QED BY <2>1, <2>2
<1>10. \A k \in 1..N : q[k] \in S
    BY <1>2
<1>11. \A x \in S : \E k \in 1..N : q[k] = x
    BY <1>4
<1> QED BY <1>1, <1>5, <1>7, <1>8, <1>9, <1>10, <1>11 DEF N

-----------------------------------------------------------------------------
(* The canonical order of events.                                          *)

LEMMA EventPositions ==
    /\ Position("work_item.created", EventType) = 1
    /\ Position("external_link.linked", EventType) = 2
    /\ Position("external_link.observed", EventType) = 3
    /\ Position("work_item.updated", EventType) = 4
    /\ Position("artifact.linked", EventType) = 5
    /\ Position("evidence.recorded", EventType) = 6
<1>1. /\ Len(EventType) = 6 /\ 1..6 = {1, 2, 3, 4, 5, 6}
      /\ EventType[1] = "work_item.created" /\ EventType[2] = "external_link.linked"
      /\ EventType[3] = "external_link.observed" /\ EventType[4] = "work_item.updated"
      /\ EventType[5] = "artifact.linked" /\ EventType[6] = "evidence.recorded"
    BY DEF EventType
<1> QED BY <1>1 DEF Position

ImportType == {"work_item.created", "external_link.linked", "external_link.observed",
               "work_item.updated", "artifact.linked", "evidence.recorded"}

\* Events that can be put in order: no two of one type say something of one object.
AreOrderable(E) ==
    /\ IsFiniteSet(E)
    /\ \A e \in E : e.type \in ImportType /\ e.at \in Nat /\ e.id[3] \in Nat
    /\ \A e, f \in E : e.type = f.type /\ e.id[3] = f.id[3] => e = f

EventOrder(E) == {ss \in E \X E : EventBefore(ss[1], ss[2])}

LEMMA EventsAreOrdered ==
    ASSUME NEW E, AreOrderable(E)
    PROVE  /\ IsOrder(E, EventOrder(E))
           /\ IsInOrder(Sorted(E, EventBefore), E, EventOrder(E))
<1> DEFINE R == EventOrder(E)
           pos(e) == Position(e.type, EventType)
<1>1. \A e \in E : pos(e) \in Nat /\ e.at \in Nat /\ e.id[3] \in Nat
    BY EventPositions DEF AreOrderable, ImportType
<1>2. \A e, f \in E : pos(e) = pos(f) => e.type = f.type
    BY EventPositions DEF AreOrderable, ImportType
<1>3. \A e, f \in E : <<e, f>> \in R <=>
        \/ pos(e) - pos(f) < 0
        \/ pos(e) - pos(f) = 0 /\ e.at < f.at
        \/ pos(e) - pos(f) = 0 /\ e.at = f.at /\ e.id[3] < f.id[3]
    BY DEF EventOrder, EventBefore
<1> HIDE DEF pos, R
<1>4. \A e \in E : <<e, e>> \notin R
    BY <1>1, <1>3
<1>5. \A e, f \in E : e # f => <<e, f>> \in R \/ <<f, e>> \in R
    <2> SUFFICES ASSUME NEW e \in E, NEW f \in E, e # f PROVE <<e, f>> \in R \/ <<f, e>> \in R
        OBVIOUS
    <2>1. pos(e) = pos(f) => e.id[3] # f.id[3]
        BY <1>2 DEF AreOrderable
    <2> QED BY <1>1, <1>3, <2>1
<1>6. \A e, f, g \in E : <<e, f>> \in R /\ <<f, g>> \in R => <<e, g>> \in R
    BY <1>1, <1>3
<1>7. IsOrder(E, R)
    BY <1>4, <1>5, <1>6 DEF IsOrder, AreOrderable
<1>8. \A x \in E : {y \in E : EventBefore(y, x)} = Below(E, R, x)
    BY DEF R, EventOrder, Below
<1>9. IsInOrder(Sorted(E, EventBefore), E, R)
    BY <1>8 DEF Sorted, IsInOrder
<1> QED BY <1>7, <1>9 DEF R

FactOrder(S) == {ss \in S \X S : FactBefore(ss[1], ss[2])}

LEMMA FactsAreOrdered ==
    ASSUME NEW S, IsFiniteSet(S), S \subseteq Nat
    PROVE  /\ IsOrder(S, FactOrder(S))
           /\ IsInOrder(Sorted(S, FactBefore), S, FactOrder(S))
<1> DEFINE R == FactOrder(S)
           first(o) == TypeOf[o] = "issue"
<1>1. \A o, p \in S : <<o, p>> \in R <=> \/ first(o) /\ ~first(p)
                                         \/ (first(o) <=> first(p)) /\ o < p
    BY DEF FactOrder, FactBefore
<1> HIDE DEF first, R
<1>2. IsOrder(S, R)
    <2>1. \A o \in S : o \in Nat
        OBVIOUS
    <2>2. \A o \in S : <<o, o>> \notin R
        BY <1>1, <2>1
    <2>3. \A o, p \in S : o # p => <<o, p>> \in R \/ <<p, o>> \in R
        BY <1>1, <2>1
    <2>4. \A o, p, r \in S : <<o, p>> \in R /\ <<p, r>> \in R => <<o, r>> \in R
        BY <1>1, <2>1
    <2> QED BY <2>2, <2>3, <2>4 DEF IsOrder
<1>3. \A x \in S : {y \in S : FactBefore(y, x)} = Below(S, R, x)
    BY DEF R, FactOrder, Below
<1>4. IsInOrder(Sorted(S, FactBefore), S, R)
    <2>1. Sorted(S, FactBefore) = [k \in 1..Cardinality(S) |->
                CHOOSE x \in S : Cardinality({y \in S : FactBefore(y, x)}) = k - 1]
        BY DEF Sorted
    <2>2. \A k : (CHOOSE x \in S : Cardinality({y \in S : FactBefore(y, x)}) = k - 1)
                 = (CHOOSE x \in S : Cardinality(Below(S, R, x)) = k - 1)
        BY <1>3
    <2> QED BY <2>1, <2>2 DEF IsInOrder
<1> QED BY <1>2, <1>4 DEF R

\* The order in which the facts of a snapshot are planned.
FactSequence(s) == Sorted(DOMAIN s.facts, FactBefore)

LEMMA FactsInSequence ==
    ASSUME NEW s, IsFiniteSet(DOMAIN s.facts), DOMAIN s.facts \subseteq Nat
    PROVE  /\ Len(FactsOf(s)) \in Nat /\ DOMAIN FactsOf(s) = 1..Len(FactsOf(s))
           /\ \A n \in 1..Len(FactsOf(s)) :
                FactSequence(s)[n] \in DOMAIN s.facts /\ FactsOf(s)[n] = s.facts[FactSequence(s)[n]]
           /\ \A o \in DOMAIN s.facts : \E n \in 1..Len(FactsOf(s)) : FactSequence(s)[n] = o
           /\ \A n, k \in 1..Len(FactsOf(s)) : FactSequence(s)[n] = FactSequence(s)[k] => n = k
<1> DEFINE q == FactSequence(s)
           S == DOMAIN s.facts
<1>1. IsOrder(S, FactOrder(S)) /\ IsInOrder(q, S, FactOrder(S))
    BY FactsAreOrdered DEF FactSequence
<1> HIDE DEF q
<1>2. /\ Len(q) \in Nat /\ DOMAIN q = 1..Len(q)
      /\ \A n \in 1..Len(q) : q[n] \in S
      /\ \A o \in S : \E n \in 1..Len(q) : q[n] = o
      /\ \A n, k \in 1..Len(q) : q[n] = q[k] => n = k
    BY <1>1, OrderedSequence
<1>3. FactsOf(s) = [n \in 1..Len(q) |-> s.facts[q[n]]]
    BY <1>2 DEF FactsOf, FactSequence, q
<1>4. Len(FactsOf(s)) = Len(q)
    BY <1>2, <1>3
<1> QED BY <1>2, <1>3, <1>4 DEF q

\* The workflows between the events of a sequence.
LEMMA AppliedOneByOne ==
    ASSUME NEW w, NEW events, Len(events) \in Nat
    PROVE  /\ AppliedUpTo(w, events)[0] = w
           /\ \A n \in 1..Len(events) :
                AppliedUpTo(w, events)[n] = Applied(AppliedUpTo(w, events)[n - 1], events[n])
<1> DEFINE m == Len(events)
           Run(f, k) == [n \in 0..k |-> IF n = 0 THEN w ELSE Applied(f[n - 1], events[n])]
           S == {k \in Nat : k <= m => \E f : f = Run(f, k)}
<1>1. 0 \in S
    <2> DEFINE f == [i \in 0..0 |-> w]
    <2>1. f = Run(f, 0)
        OBVIOUS
    <2> QED BY <2>1
<1>2. ASSUME NEW k \in Nat, k \in S PROVE k + 1 \in S
    <2> SUFFICES ASSUME k + 1 <= m PROVE \E f : f = Run(f, k + 1)
        OBVIOUS
    <2>1. PICK f : f = Run(f, k)
        BY <1>2
    <2> DEFINE g == [n \in 0..(k + 1) |-> IF n = k + 1 THEN Applied(f[k], events[k + 1]) ELSE f[n]]
    <2>2. ASSUME NEW n \in 0..(k + 1)
          PROVE  g[n] = IF n = 0 THEN w ELSE Applied(g[n - 1], events[n])
        <3>1. CASE n = k + 1
            <4>1. n # 0 /\ n - 1 = k /\ k \in 0..(k + 1) /\ k # k + 1
                BY <3>1
            <4>2. g[k] = f[k]
                BY <4>1
            <4>3. g[n] = Applied(f[k], events[k + 1])
                BY <3>1
            <4> QED BY <3>1, <4>1, <4>2, <4>3
        <3>2. CASE n = 0
            <4>1. 0 \in 0..k /\ 0 \in 0..(k + 1) /\ 0 # k + 1
                OBVIOUS
            <4>2. f[0] = w
                BY <2>1, <4>1
            <4> QED BY <3>2, <4>1, <4>2
        <3>3. CASE n \in 1..k
            <4>1. n \in 0..k /\ n - 1 \in 0..(k + 1) /\ n - 1 # k + 1 /\ n # k + 1 /\ n # 0
                BY <3>3
            <4>2. f[n] = Applied(f[n - 1], events[n])
                BY <2>1, <4>1
            <4>3. g[n] = f[n] /\ g[n - 1] = f[n - 1]
                BY <4>1
            <4> QED BY <4>1, <4>2, <4>3
        <3> QED BY <3>1, <3>2, <3>3
    <2>3. g = Run(g, k + 1)
        <3>1. g = [n \in 0..(k + 1) |-> g[n]]
            OBVIOUS
        <3> HIDE DEF g
        <3> QED BY <2>2, <3>1
    <2> QED BY <2>3
<1>3. Nat \subseteq S
    <2> HIDE DEF S
    <2> QED BY <1>1, <1>2, InductiveSet
<1>4. \E f : f = Run(f, m)
    BY <1>3
<1>5. AppliedUpTo(w, events) = CHOOSE f : f = Run(f, m)
    BY DEF AppliedUpTo
<1>6. AppliedUpTo(w, events) = Run(AppliedUpTo(w, events), m)
    BY <1>4, <1>5
<1> DEFINE r == AppliedUpTo(w, events)
<1> HIDE DEF r
<1>7. r = [n \in 0..m |-> IF n = 0 THEN w ELSE Applied(r[n - 1], events[n])]
    BY <1>6 DEF r
<1>8. 0 \in 0..m /\ \A n \in 1..m : n \in 0..m /\ n # 0
    OBVIOUS
<1> QED BY <1>7, <1>8 DEF r

\* What the events of one fact would leave.
FactApplied(w, s, n) == Replayed(w, EventsOf(StepsOf(w, s.mapping, FactsOf(s)[n])))

\* The workflows between the facts of a snapshot.
LEMMA PlannedOneByOne ==
    ASSUME NEW w, NEW s, Len(FactsOf(s)) \in Nat
    PROVE  /\ PlannedUpTo(w, s)[0] = w
           /\ \A n \in 1..Len(FactsOf(s)) :
                PlannedUpTo(w, s)[n] = FactApplied(PlannedUpTo(w, s)[n - 1], s, n)
<1> DEFINE m == Len(FactsOf(s))
           Run(f, k) == [n \in 0..k |-> IF n = 0 THEN w ELSE FactApplied(f[n - 1], s, n)]
           S == {k \in Nat : k <= m => \E f : f = Run(f, k)}
<1>1. 0 \in S
    <2> DEFINE f == [i \in 0..0 |-> w]
    <2>1. f = Run(f, 0)
        OBVIOUS
    <2> QED BY <2>1
<1>2. ASSUME NEW k \in Nat, k \in S PROVE k + 1 \in S
    <2> SUFFICES ASSUME k + 1 <= m PROVE \E f : f = Run(f, k + 1)
        OBVIOUS
    <2>1. PICK f : f = Run(f, k)
        BY <1>2
    <2> DEFINE g == [n \in 0..(k + 1) |-> IF n = k + 1 THEN FactApplied(f[k], s, k + 1) ELSE f[n]]
    <2>2. ASSUME NEW n \in 0..(k + 1)
          PROVE  g[n] = IF n = 0 THEN w ELSE FactApplied(g[n - 1], s, n)
        <3>1. CASE n = k + 1
            <4>1. n # 0 /\ n - 1 = k /\ k \in 0..(k + 1) /\ k # k + 1
                BY <3>1
            <4>2. g[k] = f[k]
                BY <4>1
            <4>3. g[n] = FactApplied(f[k], s, k + 1)
                BY <3>1
            <4> QED BY <3>1, <4>1, <4>2, <4>3
        <3>2. CASE n = 0
            <4>1. 0 \in 0..k /\ 0 \in 0..(k + 1) /\ 0 # k + 1
                OBVIOUS
            <4>2. f[0] = w
                BY <2>1, <4>1
            <4> QED BY <3>2, <4>1, <4>2
        <3>3. CASE n \in 1..k
            <4>1. n \in 0..k /\ n - 1 \in 0..(k + 1) /\ n - 1 # k + 1 /\ n # k + 1 /\ n # 0
                BY <3>3
            <4>2. f[n] = FactApplied(f[n - 1], s, n)
                BY <2>1, <4>1
            <4>3. g[n] = f[n] /\ g[n - 1] = f[n - 1]
                BY <4>1
            <4> QED BY <4>1, <4>2, <4>3
        <3> QED BY <3>1, <3>2, <3>3
    <2>3. g = Run(g, k + 1)
        <3>1. g = [n \in 0..(k + 1) |-> g[n]]
            OBVIOUS
        <3> HIDE DEF g
        <3> QED BY <2>2, <3>1
    <2> QED BY <2>3
<1>3. Nat \subseteq S
    <2> HIDE DEF S
    <2> QED BY <1>1, <1>2, InductiveSet
<1>4. \E f : f = Run(f, m)
    BY <1>3
<1>5. PlannedUpTo(w, s) = CHOOSE f : f = Run(f, m)
    BY DEF PlannedUpTo, FactApplied
<1>6. PlannedUpTo(w, s) = Run(PlannedUpTo(w, s), m)
    BY <1>4, <1>5
<1> DEFINE r == PlannedUpTo(w, s)
<1> HIDE DEF r
<1>7. r = [n \in 0..m |-> IF n = 0 THEN w ELSE FactApplied(r[n - 1], s, n)]
    BY <1>6 DEF r
<1>8. 0 \in 0..m /\ \A n \in 1..m : n \in 0..m /\ n # 0
    OBVIOUS
<1> QED BY <1>7, <1>8 DEF r

-----------------------------------------------------------------------------
(* Links: what an event makes of them.                                     *)

\* None is no work item, no event and no id.
NoneIsApart == DOMAIN None \cap {"links", "type", 1} = {}

ItemFields == {"title", "required", "links", "delivery"}
LinkFields == {"object", "legacy", "scope", "managed", "last"}

IsRich(l) == DOMAIN l = LinkFields /\ ~l.legacy /\ l.last.at \in Nat

\* An item has one link to an object, and knows when it last observed it.
IsItem(x) ==
    /\ DOMAIN x = ItemFields
    /\ \A l, k \in x.links : l.object = k.object => l = k
    /\ \A l \in x.links : l.legacy \/ IsRich(l)

IsWorkflow(w) ==
    /\ DOMAIN w.items = ItemId
    /\ \A i \in Known(w) : IsItem(w.items[i])

\* What an event says of a link.
SaysWhen(e) ==
    /\ e.type = "work_item.created" => e.payload.link.legacy \/ IsRich(e.payload.link)
    /\ e.type = "external_link.linked" => IsRich(e.payload.link)
    /\ e.type = "external_link.observed" => e.payload.observation.at \in Nat

LinkStays(l, k) ==
    /\ k.object = l.object
    /\ ~l.legacy => /\ ~k.legacy /\ k.scope = l.scope /\ k.managed = l.managed
                    /\ k.last = l.last \/ k.last.at > l.last.at

LinksStay(x, y) == \A l \in x.links : \E k \in y.links : LinkStays(l, k)

\* v is what became of w.
Follows(w, v) ==
    \A i \in Known(w) :
        /\ i \in Known(v)
        /\ v.items[i].required = w.items[i].required
        /\ LinksStay(w.items[i], v.items[i])

LEMMA AcceptedEvent ==
    ASSUME NEW w, NEW e, e \notin w.processed, Refusal(w, e) = "none"
    PROVE  /\ Applied(w, e).items = [w.items EXCEPT ![e.item] = ItemAfter(w, e)]
           /\ Applied(w, e).processed = w.processed \cup {e}
           /\ \A p \in w.processed : p.id # e.id
           /\ e.type = "work_item.created" => CreateRefusal(w, e) = "none" /\ e.item \notin Known(w)
           /\ e.type # "work_item.created" => e.item \in Known(w)
           /\ e.type = "external_link.linked" => LinkRefusal(w, e) = "none"
           /\ e.type = "external_link.observed" => ObserveRefusal(w, e) = "none"
           /\ e.type = "work_item.updated" => UpdateRefusal(w, e) = "none"
<1>1. Classified(w, e) = "none" /\ \A p \in w.processed : p.id # e.id
    BY DEF Refusal, Classified
<1>2. e.type = "work_item.created" => Refusal(w, e) = CreateRefusal(w, e)
    BY <1>1 DEF Refusal
<1>3. e.type # "work_item.created" => e.item \in Known(w)
    BY <1>1 DEF Refusal
<1>4. e.type = "external_link.linked" => Refusal(w, e) = LinkRefusal(w, e)
    BY <1>1, <1>3 DEF Refusal
<1>5. e.type = "external_link.observed" => Refusal(w, e) = ObserveRefusal(w, e)
    BY <1>1, <1>3 DEF Refusal
<1>6. e.type = "work_item.updated" => Refusal(w, e) = UpdateRefusal(w, e)
    BY <1>1, <1>3 DEF Refusal
<1>7. CreateRefusal(w, e) = "none" => e.item \notin Known(w)
    BY DEF CreateRefusal
<1>8. Applied(w, e) = [items |-> [w.items EXCEPT ![e.item] = ItemAfter(w, e)],
                       processed |-> w.processed \cup {e}]
    BY DEF Applied
<1> QED BY <1>1, <1>2, <1>3, <1>4, <1>5, <1>6, <1>7, <1>8

LEMMA LinkStaysItself == \A l : LinkStays(l, l)
    BY DEF LinkStays

LEMMA ItemIsNotNone ==
    ASSUME NoneIsApart, NEW x, IsItem(x) PROVE x # None
    BY DEF NoneIsApart, IsItem, ItemFields

\* An observation replaces one link of an item.
LEMMA ObservationKeepsLinks ==
    ASSUME NEW w, NEW e, IsWorkflow(w), SaysWhen(e), e.item \in Known(w),
           e.type = "external_link.observed", ObserveRefusal(w, e) = "none"
    PROVE  /\ IsItem(ItemAfter(w, e)) /\ LinksStay(w.items[e.item], ItemAfter(w, e))
           /\ ItemAfter(w, e).required = w.items[e.item].required
           /\ ItemAfter(w, e).title = w.items[e.item].title
           /\ \E l \in w.items[e.item].links : \E k :
                /\ l.object = e.payload.object /\ k.object = e.payload.object
                /\ ~k.legacy /\ k.last = e.payload.observation
                /\ k.managed = IF e.payload.expected = None THEN e.payload.managed ELSE l.managed
                /\ ItemAfter(w, e).links = (w.items[e.item].links \ {l}) \cup {k}
<1> DEFINE x == w.items[e.item]
           o == e.payload.object
           y == ItemAfter(w, e)
<1>1. IsItem(x)
    BY DEF IsWorkflow
<1>2. PICK link \in x.links : link.object = o /\ LinkOf(w, e.item, o) = {link}
    BY <1>1 DEF ObserveRefusal, LinkOf, IsItem
<1>3. (CHOOSE l \in LinkOf(w, e.item, o) : TRUE) = link
    BY <1>2
<1>4. y = [x EXCEPT !.links = {IF l.object = o THEN Observed(l, e) ELSE l : l \in x.links}]
    BY DEF ItemAfter
<1>5. DOMAIN y = ItemFields /\ y.required = x.required /\ y.title = x.title
      /\ y.links = {IF l.object = o THEN Observed(l, e) ELSE l : l \in x.links}
    BY <1>1, <1>4 DEF IsItem, ItemFields
<1> DEFINE seen == Observed(link, e)
<1>6. /\ IsRich(seen) /\ seen.object = o /\ LinkStays(link, seen)
      /\ seen.last = e.payload.observation
      /\ seen.managed = IF e.payload.expected = None THEN e.payload.managed ELSE link.managed
    <2>1. CASE e.payload.expected = None
        <3>1. seen = RichLink(link.object, e.payload.scope, e.payload.managed, e.payload.observation)
            BY <2>1 DEF Observed
        <3>2. link.legacy
            BY <1>2, <2>1 DEF ObserveRefusal, BaselineRefusal
        <3> QED BY <1>2, <2>1, <3>1, <3>2 DEF RichLink, IsRich, LinkFields, SaysWhen, LinkStays
    <2>2. CASE e.payload.expected # None
        <3>1. ~link.legacy /\ AdvanceRefusal(link.last, e) = "none"
            BY <1>2, <1>3, <2>2 DEF ObserveRefusal
        <3>2. IsRich(link)
            BY <1>1, <3>1 DEF IsItem
        <3>3. e.payload.observation.at \in Nat /\ link.last.at \in Nat
            BY <3>2 DEF SaysWhen, IsRich
        <3>4. e.payload.observation.at > link.last.at
            BY <3>1, <3>3 DEF AdvanceRefusal
        <3>5. seen = [link EXCEPT !.last = e.payload.observation]
            BY <2>2 DEF Observed
        <3>6. /\ DOMAIN seen = LinkFields /\ seen.last = e.payload.observation
              /\ seen.object = link.object /\ seen.legacy = link.legacy /\ seen.scope = link.scope
              /\ seen.managed = link.managed
            BY <3>2, <3>5 DEF IsRich, LinkFields
        <3> HIDE DEF seen
        <3> QED BY <1>2, <2>2, <3>1, <3>3, <3>4, <3>6 DEF IsRich, LinkStays
    <2> QED BY <2>1, <2>2
<1> HIDE DEF seen, y
<1>7. \A l \in x.links : l.object = o => l = link
    BY <1>1, <1>2 DEF IsItem
<1>8. y.links = {IF l = link THEN seen ELSE l : l \in x.links}
    BY <1>2, <1>5, <1>7 DEF seen
<1>9. \A l, k \in y.links : l.object = k.object => l = k
    BY <1>1, <1>2, <1>6, <1>8 DEF IsItem
<1>10. \A l \in y.links : l.legacy \/ IsRich(l)
    BY <1>1, <1>6, <1>8 DEF IsItem
<1>11. LinksStay(x, y)
    <2> SUFFICES ASSUME NEW l \in x.links PROVE \E k \in y.links : LinkStays(l, k)
        BY DEF LinksStay
    <2>1. CASE l = link
        BY <1>6, <1>8, <2>1
    <2>2. CASE l # link
        BY <1>8, <2>2, LinkStaysItself
    <2> QED BY <2>1, <2>2
<1>12. y.links = (x.links \ {link}) \cup {seen}
    BY <1>2, <1>8
<1>13. IsItem(y)
    BY <1>5, <1>9, <1>10 DEF IsItem
<1>14. \E k : /\ k.object = o /\ ~k.legacy /\ k.last = e.payload.observation
              /\ k.managed = IF e.payload.expected = None THEN e.payload.managed ELSE link.managed
              /\ y.links = (x.links \ {link}) \cup {k}
    BY <1>6, <1>12 DEF IsRich
<1> QED BY <1>2, <1>5, <1>11, <1>13, <1>14 DEF y

LEMMA CreationKeepsLinks ==
    ASSUME NEW w, NEW e, SaysWhen(e), e.type = "work_item.created"
    PROVE  /\ IsItem(ItemAfter(w, e))
           /\ ItemAfter(w, e).links = {e.payload.link} /\ ItemAfter(w, e).title = e.payload.title
           /\ ItemAfter(w, e).required = e.payload.required
<1> DEFINE y == ItemAfter(w, e)
<1>1. y = [title |-> e.payload.title, required |-> e.payload.required,
           links |-> {e.payload.link}, delivery |-> CreatedItem]
    BY DEF ItemAfter, NewItem
<1>2. /\ DOMAIN y = ItemFields /\ y.links = {e.payload.link} /\ y.title = e.payload.title
      /\ y.required = e.payload.required
    BY <1>1 DEF ItemFields
<1> HIDE DEF y
<1> QED BY <1>2 DEF IsItem, SaysWhen, y

LEMMA LinkingKeepsLinks ==
    ASSUME NEW w, NEW e, IsWorkflow(w), SaysWhen(e), e.item \in Known(w),
           e.type = "external_link.linked", LinkRefusal(w, e) = "none"
    PROVE  /\ IsItem(ItemAfter(w, e)) /\ LinksStay(w.items[e.item], ItemAfter(w, e))
           /\ ItemAfter(w, e).required = w.items[e.item].required
           /\ ItemAfter(w, e).title = w.items[e.item].title
           /\ ItemAfter(w, e).links = w.items[e.item].links \cup {e.payload.link}
<1> DEFINE x == w.items[e.item]
           y == ItemAfter(w, e)
<1>1. IsItem(x)
    BY DEF IsWorkflow
<1>2. y = [x EXCEPT !.links = @ \cup {e.payload.link}]
    BY DEF ItemAfter
<1>3. /\ DOMAIN y = ItemFields /\ y.required = x.required /\ y.title = x.title
      /\ y.links = x.links \cup {e.payload.link}
    BY <1>1, <1>2 DEF IsItem, ItemFields
<1>4. \A l \in x.links : l.object # e.payload.link.object
    BY DEF LinkRefusal, Owners, LinkOf
<1> HIDE DEF y
<1>5. \A l, k \in y.links : l.object = k.object => l = k
    BY <1>1, <1>3, <1>4 DEF IsItem
<1>6. \A l \in y.links : l.legacy \/ IsRich(l)
    BY <1>1, <1>3 DEF IsItem, SaysWhen
<1>7. LinksStay(x, y)
    BY <1>3, LinkStaysItself DEF LinksStay
<1> QED BY <1>3, <1>5, <1>6, <1>7 DEF IsItem, y

\* The other events leave the links alone.
IsLinkEvent(e) ==
    e.type \in {"work_item.created", "external_link.linked", "external_link.observed"}

LEMMA OthersKeepLinks ==
    ASSUME NEW w, NEW e, IsWorkflow(w), e.item \in Known(w), ~IsLinkEvent(e)
    PROVE  /\ IsItem(ItemAfter(w, e)) /\ LinksStay(w.items[e.item], ItemAfter(w, e))
           /\ ItemAfter(w, e).required = w.items[e.item].required
           /\ ItemAfter(w, e).links = w.items[e.item].links
           /\ e.type # "work_item.updated" => ItemAfter(w, e).title = w.items[e.item].title
           /\ e.type = "work_item.updated" => ItemAfter(w, e).title = e.payload.after
<1> DEFINE x == w.items[e.item]
           y == ItemAfter(w, e)
<1>1. IsItem(x)
    BY DEF IsWorkflow
<1>2. \/ e.type = "work_item.updated" /\ y = [x EXCEPT !.title = e.payload.after]
      \/ e.type # "work_item.updated" /\ y = [x EXCEPT !.delivery = Delivered(@, e)]
    BY DEF ItemAfter, IsLinkEvent
<1>3. /\ DOMAIN y = ItemFields /\ y.required = x.required /\ y.links = x.links
      /\ e.type # "work_item.updated" => y.title = x.title
      /\ e.type = "work_item.updated" => y.title = e.payload.after
    BY <1>1, <1>2 DEF IsItem, ItemFields
<1> HIDE DEF y
<1>4. IsItem(y) /\ LinksStay(x, y)
    BY <1>1, <1>3, LinkStaysItself DEF IsItem, LinksStay
<1> QED BY <1>3, <1>4 DEF y

LEMMA FollowsItself == \A w : Follows(w, w)
    BY LinkStaysItself DEF Follows, LinksStay

LEMMA FollowsOn ==
    ASSUME NEW u, NEW v, NEW w, IsWorkflow(u), IsWorkflow(v), IsWorkflow(w), Follows(u, v), Follows(v, w)
    PROVE  Follows(u, w)
<1> SUFFICES ASSUME NEW i \in Known(u) PROVE /\ i \in Known(w) /\ w.items[i].required = u.items[i].required
                                             /\ LinksStay(u.items[i], w.items[i])
    BY DEF Follows
<1>1. i \in Known(v) /\ i \in Known(w) /\ w.items[i].required = u.items[i].required
    BY DEF Follows
<1>2. ASSUME NEW l \in u.items[i].links PROVE \E k \in w.items[i].links : LinkStays(l, k)
    <2>1. PICK m \in v.items[i].links : LinkStays(l, m)
        BY DEF Follows, LinksStay
    <2>2. PICK k \in w.items[i].links : LinkStays(m, k)
        BY <1>1 DEF Follows, LinksStay
    <2>3. /\ l.legacy \/ l.last.at \in Nat
          /\ m.legacy \/ m.last.at \in Nat
          /\ k.legacy \/ k.last.at \in Nat
        BY <1>1 DEF IsWorkflow, IsItem, IsRich
    <2>4. LinkStays(l, k)
        BY <2>1, <2>2, <2>3 DEF LinkStays
    <2> QED BY <2>4
<1> QED BY <1>1, <1>2 DEF LinksStay

LEMMA EventKeepsLinks ==
    ASSUME NoneIsApart, NEW w, NEW e, IsWorkflow(w), SaysWhen(e)
    PROVE  IsWorkflow(Applied(w, e)) /\ Follows(w, Applied(w, e))
<1> DEFINE v == Applied(w, e)
<1>1. CASE e \in w.processed \/ Refusal(w, e) # "none"
    <2>1. v = w
        BY <1>1 DEF Applied
    <2> QED BY <2>1, FollowsItself
<1>2. CASE e \notin w.processed /\ Refusal(w, e) = "none"
    <2>1. v.items = [w.items EXCEPT ![e.item] = ItemAfter(w, e)]
        BY <1>2, AcceptedEvent
    <2>2. CASE e.type = "work_item.created"
        <3>1. e.item \notin Known(w) /\ IsItem(ItemAfter(w, e)) /\ ItemAfter(w, e) # None
            BY <1>2, <2>2, AcceptedEvent, CreationKeepsLinks, ItemIsNotNone
        <3> HIDE DEF v
        <3>2. \A i \in Known(w) : i # e.item /\ i \in ItemId
            BY <3>1 DEF Known
        <3>3. \A i \in ItemId : v.items[i] = IF i = e.item THEN ItemAfter(w, e) ELSE w.items[i]
            BY <2>1 DEF IsWorkflow
        <3>4. IsWorkflow(v)
            BY <2>1, <3>1, <3>3 DEF IsWorkflow, Known
        <3>5. Follows(w, v)
            BY <3>2, <3>3, LinkStaysItself DEF Follows, Known, LinksStay
        <3> QED BY <3>4, <3>5 DEF v
    <2>3. CASE e.type # "work_item.created"
        <3>1. e.item \in Known(w)
            BY <1>2, <2>3, AcceptedEvent
        <3>2. /\ IsItem(ItemAfter(w, e)) /\ LinksStay(w.items[e.item], ItemAfter(w, e))
              /\ ItemAfter(w, e).required = w.items[e.item].required
            <4>1. CASE e.type = "external_link.linked"
                <5>1. LinkRefusal(w, e) = "none"
                    BY <1>2, <4>1, AcceptedEvent
                <5> QED BY <3>1, <4>1, <5>1, LinkingKeepsLinks
            <4>2. CASE e.type = "external_link.observed"
                <5>1. ObserveRefusal(w, e) = "none"
                    BY <1>2, <4>2, AcceptedEvent
                <5> QED BY <3>1, <4>2, <5>1, ObservationKeepsLinks
            <4>3. CASE ~IsLinkEvent(e)
                BY <3>1, <4>3, OthersKeepLinks
            <4> QED BY <2>3, <4>1, <4>2, <4>3 DEF IsLinkEvent
        <3>3. ItemAfter(w, e) # None
            BY <3>2, ItemIsNotNone
        <3> HIDE DEF v
        <3>4. \A i \in ItemId : v.items[i] = IF i = e.item THEN ItemAfter(w, e) ELSE w.items[i]
            BY <2>1 DEF IsWorkflow
        <3>5. IsWorkflow(v)
            BY <2>1, <3>2, <3>3, <3>4 DEF IsWorkflow, Known
        <3>6. Follows(w, v)
            BY <3>2, <3>3, <3>4, LinkStaysItself DEF Follows, Known, LinksStay
        <3> QED BY <3>5, <3>6 DEF v
    <2> QED BY <2>2, <2>3
<1> QED BY <1>1, <1>2

\* Events one after the other.
LEMMA EventsKeepLinks ==
    ASSUME NoneIsApart, NEW w, IsWorkflow(w), NEW events, Len(events) \in Nat,
           \A n \in 1..Len(events) : SaysWhen(events[n])
    PROVE  \A n \in 0..Len(events) :
                IsWorkflow(AppliedUpTo(w, events)[n]) /\ Follows(w, AppliedUpTo(w, events)[n])
<1> DEFINE r == AppliedUpTo(w, events)
           m == Len(events)
           S == {k \in Nat : k <= m => IsWorkflow(r[k]) /\ Follows(w, r[k])}
<1>1. r[0] = w /\ \A n \in 1..m : r[n] = Applied(r[n - 1], events[n])
    BY AppliedOneByOne
<1> HIDE DEF r
<1>2. 0 \in S
    BY <1>1, FollowsItself
<1>3. ASSUME NEW k \in Nat, k \in S PROVE k + 1 \in S
    <2> SUFFICES ASSUME k + 1 <= m PROVE IsWorkflow(r[k + 1]) /\ Follows(w, r[k + 1])
        OBVIOUS
    <2>1. k + 1 \in 1..m /\ (k + 1) - 1 = k /\ IsWorkflow(r[k]) /\ Follows(w, r[k])
        BY <1>3
    <2>2. r[k + 1] = Applied(r[k], events[k + 1]) /\ SaysWhen(events[k + 1])
        BY <1>1, <2>1
    <2> QED BY <2>1, <2>2, EventKeepsLinks, FollowsOn
<1>4. Nat \subseteq S
    <2> HIDE DEF S
    <2> QED BY <1>2, <1>3, InductiveSet
<1> QED BY <1>4 DEF r

-----------------------------------------------------------------------------
(* Plans: the events of a snapshot.                                        *)

\* What is known of one fact, and of a snapshot.
IsFact(f) ==
    /\ f.object \in Object /\ f.at \in Nat
    /\ TypeOf[f.object] = "issue" => f.createdAt \in Nat

IsSnapshot(s) ==
    /\ s.mapping.item \in ItemId
    /\ IsFiniteSet(DOMAIN s.facts) /\ DOMAIN s.facts \subseteq Object
    /\ \A o \in DOMAIN s.facts : s.facts[o].object = o /\ IsFact(s.facts[o])

LEMMA FactFields ==
    ASSUME NEW o \in Object, IsHistory(o), NEW k \in DOMAIN Versions[o]
    PROVE  /\ IsFact(Fact(o, k)) /\ Fact(o, k).object = o /\ Fact(o, k).k = k
           /\ Fact(o, k).rev = Versions[o][k].rev
<1> DEFINE known == [object |-> o, k |-> k, under |-> None, evidence |-> EvidenceOf(o, 0)]
           read == Versions[o][k]
           F == DOMAIN known \cup DOMAIN read
           f == Fact(o, k)
<1>1. f = [x \in F |-> IF x \in DOMAIN known THEN known[x] ELSE read[x]]
    BY DEF Fact
<1>2. DOMAIN known = {"object", "k", "under", "evidence"} /\ known.object = o /\ known.k = k
    OBVIOUS
<1> HIDE DEF known
<1>3. \A x \in DOMAIN known : f[x] = known[x]
    BY <1>1
<1>4. \A x \in DOMAIN read : x \notin DOMAIN known => f[x] = read[x]
    BY <1>1
<1>5. f.object = o /\ f.k = k
    BY <1>2, <1>3
<1>6. f.at = read.at /\ f.rev = read.rev /\ read.at \in Nat
    BY <1>2, <1>4 DEF IsHistory
<1>7. TypeOf[o] = "issue" => f.createdAt = read.createdAt /\ read.createdAt \in Nat
    BY <1>2, <1>4 DEF IsHistory
<1> QED BY <1>5, <1>6, <1>7 DEF IsFact

LEMMA SnapshotsAreTyped ==
    ASSUME \A o \in Object : version[o] \in 1..Len(Versions[o]), NEW s \in Snapshots
    PROVE  IsSnapshot(s)
<1> DEFINE Chosen(m) == {g \in [m.objects -> UNION {DOMAIN Versions[o] : o \in m.objects}] :
                          \A o \in m.objects : g[o] <= version[o] /\ IsFactOf(m, o, g[o])}
<1>0. PICK m \in Mappings : \E g \in Chosen(m) :
        s = [mapping |-> m, facts |-> [o \in m.objects |-> Fact(o, g[o])]]
    BY DEF Snapshots
<1>1. PICK f \in Chosen(m) : s = [mapping |-> m, facts |-> [o \in m.objects |-> Fact(o, f[o])]]
    BY <1>0
<1>2. /\ f \in [m.objects -> UNION {DOMAIN Versions[o] : o \in m.objects}]
      /\ \A o \in m.objects : f[o] <= version[o]
    BY <1>1
<1>3. m.item \in ItemId /\ IsFiniteSet(m.objects) /\ m.objects \subseteq Object
    BY SnapshotAssumption
<1>4. ASSUME NEW o \in m.objects PROVE f[o] \in DOMAIN Versions[o] /\ IsHistory(o)
    <2>1. PICK p \in m.objects : f[o] \in DOMAIN Versions[p]
        BY <1>2
    <2>2. f[o] \in 1..Len(Versions[p]) /\ Len(Versions[p]) \in Nat
        BY <2>1, <1>3, SnapshotAssumption
    <2>3. version[o] \in 1..Len(Versions[o]) /\ Len(Versions[o]) \in Nat /\ f[o] <= version[o]
        BY <1>2, <1>3, SnapshotAssumption
    <2>4. f[o] \in 1..Len(Versions[o])
        BY <2>2, <2>3
    <2> QED BY <1>3, <2>4, SnapshotAssumption
<1>5. ASSUME NEW o \in m.objects PROVE IsFact(Fact(o, f[o])) /\ Fact(o, f[o]).object = o
    <2>1. o \in Object
        BY <1>3
    <2> QED BY <1>4, <2>1, FactFields
<1>6. s.mapping = m /\ DOMAIN s.facts = m.objects /\ \A o \in m.objects : s.facts[o] = Fact(o, f[o])
    BY <1>1
<1> QED BY <1>3, <1>5, <1>6 DEF IsSnapshot

\* One step of an issue: with which event, and when.
TitleStep(w, m, f) ==
    Step(m, f, "update", "MANAGED_TITLE_CHANGED", "work-item-title",
         ImportedEvent(m, f, "work_item.updated", "work-item-title", f.at,
             [object |-> f.object, rev |-> f.rev, before |-> w.items[m.item].title, after |-> f.title]))

LEMMA TitleStepsAre ==
    ASSUME NEW w, NEW m, NEW f
    PROVE  TitleSteps(w, m, f) =
             IF ~m.managed \/ w.items[m.item].title = f.title THEN {} ELSE {TitleStep(w, m, f)}
    BY DEF TitleSteps, TitleStep

IsAlone(t) == t.event = None /\ t.action.event = None
LinkIn(w, m, f) == CHOOSE l \in LinkOf(w, m.item, f.object) : TRUE

\* What planWorkItemFact makes of an issue.
LEMMA IssueCases ==
    ASSUME NEW w, NEW m, NEW f
    PROVE  LET steps == IssueSteps(w, m, f)
               owners == Owners(w, f.object)
               link == LinkIn(w, m, f)
           IN  \/ /\ \E t : steps = {t} /\ IsAlone(t)
                  /\ \A t \in steps : t.action.kind = "skip" =>
                        /\ m.item \in Known(w) /\ owners \ {m.item} = {} /\ owners # {}
                        /\ ~link.legacy /\ link.managed = m.managed /\ link.scope = m.scope
                        /\ w.items[m.item].required = RequiredEvidence
                        /\ \/ f.rev = link.last.rev /\ f.title = link.last.title
                           \/ f.at < link.last.at
                  /\ \A t \in steps : t.action.kind \in {"skip", "conflict"}
               \/ /\ m.item \notin Known(w) /\ owners \ {m.item} = {}
                  /\ steps = {CreateStep(m, f)}
               \/ /\ m.item \in Known(w) /\ owners = {}
                  /\ w.items[m.item].required = RequiredEvidence
                  /\ steps = {LinkStep(m, f)} \cup TitleSteps(w, m, f)
               \/ /\ m.item \in Known(w) /\ owners \ {m.item} = {} /\ owners # {} /\ link.legacy
                  /\ w.items[m.item].required = RequiredEvidence
                  /\ steps = {BaselineStep(m, f)} \cup TitleSteps(w, m, f)
               \/ /\ m.item \in Known(w) /\ owners \ {m.item} = {} /\ owners # {} /\ ~link.legacy
                  /\ link.managed = m.managed /\ link.scope = m.scope
                  /\ w.items[m.item].required = RequiredEvidence
                  /\ f.rev # link.last.rev /\ ~(f.at < link.last.at) /\ f.at # link.last.at
                  /\ steps = {AdvanceStep(m, f, link.last)} \cup TitleSteps(w, m, f)
<1> DEFINE steps == IssueSteps(w, m, f)
           owners == Owners(w, f.object)
           link == LinkIn(w, m, f)
           conflict(reason, target) == {Alone(m, f, "conflict", reason, target)}
           alone(kind, reason) == {Alone(m, f, kind, reason, "external-link-observation")}
<1>1. \A kind, reason, target :
        LET t == Alone(m, f, kind, reason, target) IN IsAlone(t) /\ t.action.kind = kind
    BY DEF Alone, Action, IsAlone
<1>2. ASSUME NEW reason, NEW target, steps = conflict(reason, target)
      PROVE  /\ \E t : steps = {t} /\ IsAlone(t)
             /\ \A t \in steps : t.action.kind = "conflict"
    BY <1>1, <1>2
<1>3. steps =
        IF owners \ {m.item} # {} THEN conflict("PROVIDER_OBJECT_ALREADY_LINKED", "work-item")
        ELSE IF m.item \notin Known(w) THEN {CreateStep(m, f)}
        ELSE IF w.items[m.item].required # RequiredEvidence
        THEN conflict("WORK_ITEM_MAPPING_CONFLICT", "work-item")
        ELSE IF owners = {}
        THEN IF m.managed /\ TitleManagedBeside(w, m.item, f.object)
             THEN conflict("FIELD_AUTHORITY_CONFLICT", "external-link")
             ELSE {LinkStep(m, f)} \cup TitleSteps(w, m, f)
        ELSE IF link.legacy THEN {BaselineStep(m, f)} \cup TitleSteps(w, m, f)
        ELSE IF link.managed # m.managed THEN conflict("FIELD_AUTHORITY_CONFLICT", "external-link")
        ELSE IF link.scope # m.scope THEN conflict("SNAPSHOT_SCOPE_MISMATCH", "external-link")
        ELSE RefreshSteps(w, m, f, link.last)
    BY DEF IssueSteps, LinkIn
<1>4. RefreshSteps(w, m, f, link.last) =
        IF f.rev = link.last.rev
        THEN IF f.title = link.last.title THEN alone("skip", "EXACT_DUPLICATE")
             ELSE alone("conflict", "SOURCE_REVISION_CONTENT_CONFLICT")
        ELSE IF f.at < link.last.at THEN alone("skip", "STALE_SOURCE_REVISION")
        ELSE IF f.at = link.last.at THEN alone("conflict", "SOURCE_REVISION_ORDER_AMBIGUOUS")
        ELSE {AdvanceStep(m, f, link.last)} \cup TitleSteps(w, m, f)
    BY DEF RefreshSteps
<1> HIDE DEF link, owners
<1>5. CASE \E reason, target : steps = conflict(reason, target)
    <2>1. PICK reason, target : steps = conflict(reason, target)
        BY <1>5
    <2>2. (\E t : steps = {t} /\ IsAlone(t)) /\ \A t \in steps : t.action.kind = "conflict"
        BY <1>2, <2>1
    <2> HIDE DEF steps
    <2>3. \A t \in steps : t.action.kind # "skip" /\ t.action.kind \in {"skip", "conflict"}
        BY <2>2
    <2> QED BY <2>2, <2>3 DEF steps, link, owners
<1>6. CASE ~\E reason, target : steps = conflict(reason, target)
    <2>1. \A reason, target : steps # conflict(reason, target)
        BY <1>6
    <2> HIDE DEF conflict, steps
    <2>2. owners \ {m.item} = {}
        BY <1>3, <2>1
    <2>3. CASE m.item \notin Known(w)
        BY <1>3, <2>2, <2>3 DEF steps, owners
    <2>4. CASE m.item \in Known(w)
        <3>1. w.items[m.item].required = RequiredEvidence
            BY <1>3, <2>1, <2>2, <2>4
        <3>2. CASE owners = {}
            <4>1. steps = {LinkStep(m, f)} \cup TitleSteps(w, m, f)
                BY <1>3, <2>1, <2>2, <2>4, <3>1, <3>2
            <4> QED BY <2>4, <3>1, <3>2, <4>1 DEF steps, owners
        <3>3. CASE owners # {} /\ link.legacy
            <4>1. steps = {BaselineStep(m, f)} \cup TitleSteps(w, m, f)
                BY <1>3, <2>1, <2>2, <2>4, <3>1, <3>3
            <4> QED BY <2>2, <2>4, <3>1, <3>3, <4>1 DEF steps, owners, link
        <3>4. CASE owners # {} /\ ~link.legacy
            <4>1. link.managed = m.managed /\ link.scope = m.scope
                BY <1>3, <2>1, <2>2, <2>4, <3>1, <3>4
            <4>2. steps = RefreshSteps(w, m, f, link.last)
                BY <1>3, <2>1, <2>2, <2>4, <3>1, <3>4, <4>1
            <4>3. \A reason : alone("conflict", reason) = conflict(reason, "external-link-observation")
                BY DEF conflict
            <4>4. \/ /\ \E reason : steps = alone("skip", reason)
                     /\ \/ f.rev = link.last.rev /\ f.title = link.last.title
                        \/ f.at < link.last.at
                  \/ /\ f.rev # link.last.rev /\ ~(f.at < link.last.at) /\ f.at # link.last.at
                     /\ steps = {AdvanceStep(m, f, link.last)} \cup TitleSteps(w, m, f)
                <5> HIDE DEF alone
                <5> QED BY <1>4, <2>1, <4>2, <4>3
            <4>5. CASE \E reason : steps = alone("skip", reason)
                <5>1. PICK reason : steps = {Alone(m, f, "skip", reason, "external-link-observation")}
                    BY <4>5
                <5>2. \E t : steps = {t} /\ IsAlone(t)
                    BY <1>1, <5>1
                <5>3. \A t \in steps : t.action.kind = "skip"
                    BY <1>1, <5>1
                <5> QED BY <2>2, <2>4, <3>1, <3>4, <4>1, <4>4, <4>5, <5>2, <5>3 DEF steps, owners, link
            <4>6. CASE ~\E reason : steps = alone("skip", reason)
                BY <2>2, <2>4, <3>1, <3>4, <4>1, <4>4, <4>6 DEF steps, owners, link
            <4> QED BY <4>5, <4>6
        <3> QED BY <3>2, <3>3, <3>4
    <2> QED BY <2>3, <2>4
<1> QED BY <1>5, <1>6

\* What an event of a fact is.
IsEventOf(e, m, f) ==
    /\ e.type \in ImportType /\ e.item = m.item /\ e.at \in Nat
    /\ e.id = <<e.type, m.item, f.object, f.rev, e.id[5]>>
    /\ e.type \in {"work_item.created", "external_link.linked"} => e.payload.link.object = f.object
    /\ e.type \in {"external_link.observed", "work_item.updated"} => e.payload.object = f.object
    /\ SaysWhen(e)

LEMMA ImportedEventFields ==
    ASSUME NEW m, NEW f, NEW type, NEW target, NEW at, NEW payload
    PROVE  LET e == ImportedEvent(m, f, type, target, at, payload)
           IN  /\ e.type = type /\ e.item = m.item /\ e.at = at /\ e.payload = payload
               /\ e.id = <<type, m.item, f.object, f.rev, target>> /\ e.id[5] = target
               /\ "type" \in DOMAIN e
    BY DEF ImportedEvent, EventId

LEMMA StepFields ==
    ASSUME NoneIsApart, NEW m, NEW f, NEW kind, NEW reason, NEW target, NEW e,
           "type" \in DOMAIN e
    PROVE  LET t == Step(m, f, kind, reason, target, e)
           IN  /\ t.event = e /\ t.event # None /\ t.action.event = e.id
               /\ t.action.kind = kind /\ t.action.reason = reason
               /\ t.action.id = <<m.item, f.object, f.rev, target>>
    BY DEF Step, Action, ActionId, NoneIsApart

LEMMA RichLinkFields ==
    ASSUME NEW m, NEW f, f.at \in Nat
    PROVE  LET l == RichLinkOf(m, f)
           IN  /\ IsRich(l) /\ l.object = f.object /\ l.scope = m.scope /\ l.managed = m.managed
               /\ l.last = ObservationOf(f) /\ l.last.rev = f.rev /\ l.last.at = f.at
               /\ l.last.title = f.title
    BY DEF RichLinkOf, RichLink, ObservationOf, IsRich, LinkFields

LEMMA CreateStepIs ==
    ASSUME NoneIsApart, NEW m, NEW f, IsFact(f), TypeOf[f.object] = "issue"
    PROVE  LET t == CreateStep(m, f)
           IN  /\ t.event # None /\ t.event.type = "work_item.created" /\ IsEventOf(t.event, m, f)
               /\ t.event.payload.link = RichLinkOf(m, f) /\ t.event.payload.title = f.title
               /\ t.event.payload.required = RequiredEvidence
               /\ t.action.event = t.event.id
<1> DEFINE p == [title |-> f.title, required |-> RequiredEvidence, link |-> RichLinkOf(m, f)]
           e == ImportedEvent(m, f, "work_item.created", "work-item", f.createdAt, p)
           t == CreateStep(m, f)
<1>1. t = Step(m, f, "create", "NEW_WORK_ITEM", "work-item", e)
    BY DEF CreateStep
<1>2. /\ e.type = "work_item.created" /\ e.item = m.item /\ e.at = f.createdAt /\ e.payload = p
      /\ e.id = <<e.type, m.item, f.object, f.rev, e.id[5]>> /\ "type" \in DOMAIN e
    BY ImportedEventFields
<1> HIDE DEF e
<1>3. t.event = e /\ t.event # None /\ t.action.event = e.id
    BY <1>1, <1>2, StepFields
<1> HIDE DEF t
<1>4. p.link = RichLinkOf(m, f) /\ p.title = f.title /\ p.required = RequiredEvidence
    OBVIOUS
<1>5. IsRich(RichLinkOf(m, f)) /\ RichLinkOf(m, f).object = f.object
    BY RichLinkFields DEF IsFact
<1> HIDE DEF p
<1>6. SaysWhen(e)
    BY <1>2, <1>4, <1>5 DEF SaysWhen
<1>7. IsEventOf(e, m, f)
    BY <1>2, <1>4, <1>5, <1>6 DEF IsEventOf, IsFact, ImportType
<1> QED BY <1>2, <1>3, <1>4, <1>7 DEF t

LEMMA LinkStepIs ==
    ASSUME NoneIsApart, NEW m, NEW f, IsFact(f)
    PROVE  LET t == LinkStep(m, f)
           IN  /\ t.event # None /\ t.event.type = "external_link.linked" /\ IsEventOf(t.event, m, f)
               /\ t.event.payload.link = RichLinkOf(m, f)
               /\ t.action.event = t.event.id
<1> DEFINE p == [link |-> RichLinkOf(m, f)]
           e == ImportedEvent(m, f, "external_link.linked", "external-link", f.at, p)
           t == LinkStep(m, f)
<1>1. t = Step(m, f, "link", "NEW_EXTERNAL_LINK", "external-link", e)
    BY DEF LinkStep
<1>2. /\ e.type = "external_link.linked" /\ e.item = m.item /\ e.at = f.at /\ e.payload = p
      /\ e.id = <<e.type, m.item, f.object, f.rev, e.id[5]>> /\ "type" \in DOMAIN e
    BY ImportedEventFields
<1> HIDE DEF e
<1>3. t.event = e /\ t.event # None /\ t.action.event = e.id
    BY <1>1, <1>2, StepFields
<1> HIDE DEF t
<1>4. p.link = RichLinkOf(m, f)
    OBVIOUS
<1>5. IsRich(RichLinkOf(m, f)) /\ RichLinkOf(m, f).object = f.object
    BY RichLinkFields DEF IsFact
<1> HIDE DEF p
<1>6. SaysWhen(e)
    BY <1>2, <1>4, <1>5 DEF SaysWhen
<1>7. IsEventOf(e, m, f)
    BY <1>2, <1>4, <1>5, <1>6 DEF IsEventOf, IsFact, ImportType
<1> QED BY <1>2, <1>3, <1>4, <1>7 DEF t

LEMMA ObserveStepIs ==
    ASSUME NoneIsApart, NEW m, NEW f, IsFact(f), NEW reason, NEW payload,
           payload.object = f.object, payload.observation = ObservationOf(f)
    PROVE  LET t == ObserveStep(m, f, reason, payload)
           IN  /\ t.event # None /\ t.event.type = "external_link.observed" /\ IsEventOf(t.event, m, f)
               /\ t.event.payload = payload
               /\ t.action.event = t.event.id
<1> DEFINE e == ImportedEvent(m, f, "external_link.observed", "external-link-observation", f.at, payload)
           t == ObserveStep(m, f, reason, payload)
<1>1. t = Step(m, f, "refresh", reason, "external-link-observation", e)
    BY DEF ObserveStep
<1>2. /\ e.type = "external_link.observed" /\ e.item = m.item /\ e.at = f.at /\ e.payload = payload
      /\ e.id = <<e.type, m.item, f.object, f.rev, e.id[5]>> /\ "type" \in DOMAIN e
    BY ImportedEventFields
<1> HIDE DEF e
<1>3. t.event = e /\ t.event # None /\ t.action.event = e.id
    BY <1>1, <1>2, StepFields
<1> HIDE DEF t
<1>4. SaysWhen(e)
    BY <1>2 DEF SaysWhen, ObservationOf, IsFact
<1>5. IsEventOf(e, m, f)
    BY <1>2, <1>4 DEF IsEventOf, IsFact, ImportType
<1> QED BY <1>2, <1>3, <1>5 DEF t

LEMMA BaselineStepIs ==
    ASSUME NoneIsApart, NEW m, NEW f, IsFact(f)
    PROVE  LET t == BaselineStep(m, f)
           IN  /\ t.event # None /\ t.event.type = "external_link.observed" /\ IsEventOf(t.event, m, f)
               /\ t.event.payload.object = f.object /\ t.event.payload.observation = ObservationOf(f)
               /\ t.event.payload.expected = None
               /\ t.event.payload.scope = m.scope /\ t.event.payload.managed = m.managed
               /\ t.action.event = t.event.id
<1> DEFINE p == [object |-> f.object, observation |-> ObservationOf(f),
                 expected |-> None, scope |-> m.scope, managed |-> m.managed]
<1>1. BaselineStep(m, f) = ObserveStep(m, f, "LEGACY_LINK_BASELINE", p)
    BY DEF BaselineStep
<1>2. /\ p.object = f.object /\ p.observation = ObservationOf(f) /\ p.expected = None
      /\ p.scope = m.scope /\ p.managed = m.managed
    OBVIOUS
<1> HIDE DEF p
<1> QED BY <1>1, <1>2, ObserveStepIs

LEMMA AdvanceStepIs ==
    ASSUME NoneIsApart, NEW m, NEW f, IsFact(f), NEW current
    PROVE  LET t == AdvanceStep(m, f, current)
           IN  /\ t.event # None /\ t.event.type = "external_link.observed" /\ IsEventOf(t.event, m, f)
               /\ t.event.payload.object = f.object /\ t.event.payload.observation = ObservationOf(f)
               /\ t.event.payload.expected = current.rev
               /\ t.action.event = t.event.id
<1> DEFINE p == [object |-> f.object, observation |-> ObservationOf(f), expected |-> current.rev]
<1>1. AdvanceStep(m, f, current) = ObserveStep(m, f, "NEW_SOURCE_REVISION", p)
    BY DEF AdvanceStep
<1>2. p.object = f.object /\ p.observation = ObservationOf(f) /\ p.expected = current.rev
    OBVIOUS
<1> HIDE DEF p
<1> QED BY <1>1, <1>2, ObserveStepIs

LEMMA TitleStepIs ==
    ASSUME NoneIsApart, NEW w, NEW m, NEW f, IsFact(f)
    PROVE  LET t == TitleStep(w, m, f)
           IN  /\ t.event # None /\ t.event.type = "work_item.updated" /\ IsEventOf(t.event, m, f)
               /\ t.event.payload.object = f.object /\ t.event.payload.rev = f.rev
               /\ t.event.payload.before = w.items[m.item].title /\ t.event.payload.after = f.title
               /\ t.action.event = t.event.id
<1> DEFINE p == [object |-> f.object, rev |-> f.rev, before |-> w.items[m.item].title, after |-> f.title]
           e == ImportedEvent(m, f, "work_item.updated", "work-item-title", f.at, p)
           t == TitleStep(w, m, f)
<1>1. t = Step(m, f, "update", "MANAGED_TITLE_CHANGED", "work-item-title", e)
    BY DEF TitleStep
<1>2. /\ e.type = "work_item.updated" /\ e.item = m.item /\ e.at = f.at /\ e.payload = p
      /\ e.id = <<e.type, m.item, f.object, f.rev, e.id[5]>> /\ "type" \in DOMAIN e
    BY ImportedEventFields
<1> HIDE DEF e
<1>3. t.event = e /\ t.event # None /\ t.action.event = e.id
    BY <1>1, <1>2, StepFields
<1> HIDE DEF t
<1>4. /\ p.object = f.object /\ p.rev = f.rev /\ p.before = w.items[m.item].title
      /\ p.after = f.title
    OBVIOUS
<1> HIDE DEF p
<1>5. IsEventOf(e, m, f)
    BY <1>2, <1>4 DEF IsEventOf, IsFact, ImportType, SaysWhen
<1> QED BY <1>2, <1>3, <1>4, <1>5 DEF t

\* What planCandidateFact makes of another fact.
CandidateTarget(m, f) == IF CandidateEvent(m, f).type = "artifact.linked" THEN "artifact" ELSE "evidence"
CandidateImported(m, f) ==
    ImportedEvent(m, f, CandidateEvent(m, f).type, CandidateTarget(m, f), f.at,
                  CandidateEvent(m, f).payload)

LEMMA CandidateCases ==
    ASSUME NoneIsApart, NEW w, NEW m, NEW f, IsFact(f)
    PROVE  LET steps == CandidateSteps(w, m, f)
               e == CandidateImported(m, f)
           IN  /\ IsEventOf(e, m, f) /\ e.type \in {"artifact.linked", "evidence.recorded"}
               /\ \/ /\ \E t : steps = {t} /\ IsAlone(t)
                     /\ \A t \in steps : t.action.kind \in {"skip", "conflict"}
                     /\ \/ Classified(w, CandidateEvent(m, f)) # "none"
                        \/ Classified(w, e) # "none"
                  \/ /\ Classified(w, CandidateEvent(m, f)) = "none" /\ Classified(w, e) = "none"
                     /\ \E t : /\ steps = {t} /\ t.event = e /\ t.event # None
                               /\ t.action.event = t.event.id
<1> DEFINE candidate == CandidateEvent(m, f)
           target == CandidateTarget(m, f)
           e == CandidateImported(m, f)
           link == candidate.type = "artifact.linked"
           steps == CandidateSteps(w, m, f)
<1>1. candidate.type \in {"artifact.linked", "evidence.recorded"}
    BY DEF CandidateEvent
<1> HIDE DEF candidate
<1>2. /\ e.type = candidate.type /\ e.item = m.item /\ e.at = f.at
      /\ e.id = <<e.type, m.item, f.object, f.rev, e.id[5]>> /\ "type" \in DOMAIN e
    BY ImportedEventFields DEF CandidateImported, candidate
<1>3. IsEventOf(e, m, f)
    <2> HIDE DEF e
    <2> QED BY <1>1, <1>2 DEF IsEventOf, IsFact, ImportType, SaysWhen
<1>4. ASSUME NEW c, Classified(w, c) # "none",
             steps = {Alone(m, f, IF Classified(w, c) = "EXACT_EVENT_DUPLICATE" THEN "skip"
                                  ELSE "conflict", Classified(w, c), target)}
      PROVE  /\ \E t : steps = {t} /\ IsAlone(t)
             /\ \A t \in steps : t.action.kind \in {"skip", "conflict"}
    <2> DEFINE t == Alone(m, f, IF Classified(w, c) = "EXACT_EVENT_DUPLICATE" THEN "skip"
                                ELSE "conflict", Classified(w, c), target)
    <2>1. IsAlone(t) /\ t.action.kind \in {"skip", "conflict"}
        BY DEF Alone, Action, IsAlone
    <2> HIDE DEF t, steps
    <2>2. steps = {t}
        BY <1>4 DEF t, steps
    <2> QED BY <2>1, <2>2
<1>5. CASE Classified(w, candidate) # "none"
    <2>1. steps = {Alone(m, f, IF Classified(w, candidate) = "EXACT_EVENT_DUPLICATE" THEN "skip"
                                  ELSE "conflict", Classified(w, candidate), target)}
        BY <1>5 DEF CandidateSteps, CandidateTarget, candidate
    <2> QED BY <1>1, <1>2, <1>3, <1>4, <1>5, <2>1 DEF candidate
<1>6. CASE Classified(w, candidate) = "none" /\ Classified(w, e) # "none"
    <2>1. steps = {Alone(m, f, IF Classified(w, e) = "EXACT_EVENT_DUPLICATE" THEN "skip"
                                  ELSE "conflict", Classified(w, e), target)}
        BY <1>6 DEF CandidateSteps, CandidateTarget, CandidateImported, candidate
    <2> QED BY <1>1, <1>2, <1>3, <1>4, <1>6, <2>1
<1>7. CASE Classified(w, candidate) = "none" /\ Classified(w, e) = "none"
    <2> DEFINE t == Step(m, f, IF link THEN "link" ELSE "update",
                   IF link THEN "NEW_ARTIFACT" ELSE "NEW_EVIDENCE", target, e)
    <2>1. steps = {t}
        BY <1>7 DEF CandidateSteps, CandidateTarget, CandidateImported, candidate
    <2>2. t.event = e /\ t.event # None /\ t.action.event = e.id
        BY <1>2, StepFields
    <2> HIDE DEF t, steps
    <2> QED BY <1>1, <1>2, <1>3, <1>7, <2>1, <2>2 DEF steps, candidate
<1> QED BY <1>5, <1>6, <1>7

LEMMA TitleStepsAreTyped ==
    ASSUME NoneIsApart, NEW w, NEW m, NEW f, IsFact(f), NEW t \in TitleSteps(w, m, f)
    PROVE  t = TitleStep(w, m, f)
    BY TitleStepsAre

\* A fact has one event of a type at most, and it is the fact's.
LEMMA StepsAreTyped ==
    ASSUME NoneIsApart, NEW w, NEW m, NEW f, IsFact(f)
    PROVE  /\ \A t \in StepsOf(w, m, f) :
                IF t.event = None THEN t.action.event = None
                ELSE IsEventOf(t.event, m, f) /\ t.action.event = t.event.id
           /\ \A t, u \in StepsOf(w, m, f) :
                t.event # None /\ u.event # None /\ t.event.type = u.event.type => t.event = u.event
<1> DEFINE Fine(steps) ==
        /\ \A t \in steps :
                IF t.event = None THEN t.action.event = None
                ELSE IsEventOf(t.event, m, f) /\ t.action.event = t.event.id
        /\ \A t, u \in steps :
                t.event # None /\ u.event # None /\ t.event.type = u.event.type => t.event = u.event
<1>1. ASSUME NEW s, s.event # None, s.event.type # "work_item.updated", IsEventOf(s.event, m, f),
             s.action.event = s.event.id
      PROVE  Fine({s} \cup TitleSteps(w, m, f))
    <2>1. ASSUME NEW t \in {s} \cup TitleSteps(w, m, f)
          PROVE  /\ t = s \/ t = TitleStep(w, m, f)
                 /\ t.event # None /\ IsEventOf(t.event, m, f) /\ t.action.event = t.event.id
        BY <1>1, <2>1, TitleStepsAreTyped, TitleStepIs
    <2>2. TitleStep(w, m, f).event.type = "work_item.updated"
        BY TitleStepIs
    <2> QED BY <1>1, <2>1, <2>2
<1>2. ASSUME NEW t, IsAlone(t) PROVE Fine({t})
    BY <1>2 DEF IsAlone
<1>3. ASSUME NEW t, t.event # None, IsEventOf(t.event, m, f), t.action.event = t.event.id
      PROVE  Fine({t})
    BY <1>3
<1>4. CASE TypeOf[f.object] = "issue"
    <2>1. StepsOf(w, m, f) = IssueSteps(w, m, f)
        BY <1>4 DEF StepsOf
    <2> DEFINE steps == IssueSteps(w, m, f)
    <2>2. \/ \E t : steps = {t} /\ IsAlone(t)
          \/ steps = {CreateStep(m, f)}
          \/ steps = {LinkStep(m, f)} \cup TitleSteps(w, m, f)
          \/ steps = {BaselineStep(m, f)} \cup TitleSteps(w, m, f)
          \/ \E c : steps = {AdvanceStep(m, f, c)} \cup TitleSteps(w, m, f)
        BY IssueCases
    <2> HIDE DEF steps, Fine
    <2>3. CASE \E t : steps = {t} /\ IsAlone(t)
        BY <2>1, <2>3, <1>2 DEF steps, Fine
    <2>4. CASE steps = {CreateStep(m, f)}
        <3>1. Fine({CreateStep(m, f)})
            BY <1>3, <1>4, CreateStepIs
        <3> QED BY <2>1, <2>4, <3>1 DEF steps, Fine
    <2>5. CASE steps = {LinkStep(m, f)} \cup TitleSteps(w, m, f)
        <3>1. Fine({LinkStep(m, f)} \cup TitleSteps(w, m, f))
            BY <1>1, LinkStepIs
        <3> QED BY <2>1, <2>5, <3>1 DEF steps, Fine
    <2>6. CASE steps = {BaselineStep(m, f)} \cup TitleSteps(w, m, f)
        <3>1. Fine({BaselineStep(m, f)} \cup TitleSteps(w, m, f))
            BY <1>1, BaselineStepIs
        <3> QED BY <2>1, <2>6, <3>1 DEF steps, Fine
    <2>7. CASE \E c : steps = {AdvanceStep(m, f, c)} \cup TitleSteps(w, m, f)
        <3>1. PICK c : steps = {AdvanceStep(m, f, c)} \cup TitleSteps(w, m, f)
            BY <2>7
        <3>2. Fine({AdvanceStep(m, f, c)} \cup TitleSteps(w, m, f))
            BY <1>1, AdvanceStepIs
        <3> QED BY <2>1, <3>1, <3>2 DEF steps, Fine
    <2> QED BY <2>2, <2>3, <2>4, <2>5, <2>6, <2>7
<1>5. CASE TypeOf[f.object] # "issue"
    <2>1. StepsOf(w, m, f) = CandidateSteps(w, m, f)
        BY <1>5 DEF StepsOf
    <2> DEFINE steps == CandidateSteps(w, m, f)
    <2>2. \/ \E t : steps = {t} /\ IsAlone(t)
          \/ \E t : steps = {t} /\ t.event # None /\ IsEventOf(t.event, m, f) /\ t.action.event = t.event.id
        BY CandidateCases
    <2> HIDE DEF steps, Fine
    <2>3. \E t : steps = {t} /\ Fine({t})
        BY <2>2, <1>2, <1>3
    <2> QED BY <2>1, <2>3 DEF steps, Fine
<1> QED BY <1>4, <1>5

\* Events of finitely many objects can be put in order.
LEMMA FewAreOrderable ==
    ASSUME NEW E, NEW O, IsFiniteSet(O), O \subseteq Nat,
           \A e \in E : e.type \in ImportType /\ e.at \in Nat /\ e.id[3] \in O,
           \A e, f \in E : e.type = f.type /\ e.id[3] = f.id[3] => e = f
    PROVE  AreOrderable(E)
<1> DEFINE key == [e \in E |-> <<e.type, e.id[3]>>]
<1>1. key \in Injection(E, ImportType \X O)
    <2>1. key \in [E -> ImportType \X O]
        OBVIOUS
    <2>2. \A e, f \in E : key[e] = key[f] => e = f
        OBVIOUS
    <2> HIDE DEF key
    <2> QED BY <2>1, <2>2 DEF Injection, IsInjective
<1>2. IsFiniteSet(ImportType)
    <2>1. ImportType = {"work_item.created"} \cup {"external_link.linked"}
                \cup {"external_link.observed"} \cup {"work_item.updated"} \cup {"artifact.linked"}
                \cup {"evidence.recorded"}
        BY DEF ImportType
    <2> QED BY <2>1, FS_Singleton, FS_Union
<1>3. IsFiniteSet(ImportType \X O)
    BY <1>2, FS_Product
<1> HIDE DEF key
<1>4. IsFiniteSet(E)
    BY <1>1, <1>3, FS_Injection
<1> QED BY <1>4 DEF AreOrderable

LEMMA EventsOfMembers ==
    ASSUME NEW steps
    PROVE  \A e : e \in EventsOf(steps) <=> \E t \in steps : t.event # None /\ e = t.event
    BY DEF EventsOf

LEMMA ObjectsAreNaturals == Object \subseteq Nat
    BY ImportAssumption

LEMMA StepsAreOrderable ==
    ASSUME NoneIsApart, NEW w, NEW m, NEW f, IsFact(f)
    PROVE  /\ AreOrderable(EventsOf(StepsOf(w, m, f)))
           /\ \A e \in EventsOf(StepsOf(w, m, f)) : IsEventOf(e, m, f)
<1> DEFINE E == EventsOf(StepsOf(w, m, f))
<1>1. \A e \in E : IsEventOf(e, m, f)
    BY EventsOfMembers, StepsAreTyped
<1>2. \A e, g \in E : e.type = g.type => e = g
    BY EventsOfMembers, StepsAreTyped
<1> HIDE DEF E
<1>3. \A e \in E : e.type \in ImportType /\ e.at \in Nat /\ e.id[3] \in {f.object}
    BY <1>1 DEF IsEventOf
<1>4. IsFiniteSet({f.object}) /\ {f.object} \subseteq Nat
    BY FS_Singleton, ObjectsAreNaturals DEF IsFact
<1>5. AreOrderable(E)
    BY <1>2, <1>3, <1>4, FewAreOrderable
<1> QED BY <1>1, <1>5 DEF E

\* Facts of a snapshot.
LEMMA SnapshotFacts ==
    ASSUME NEW s, IsSnapshot(s)
    PROVE  /\ Len(FactsOf(s)) \in Nat /\ DOMAIN FactsOf(s) = 1..Len(FactsOf(s))
           /\ \A n \in 1..Len(FactsOf(s)) :
                IsFact(FactsOf(s)[n]) /\ FactsOf(s)[n].object \in DOMAIN s.facts
                /\ FactsOf(s)[n] = s.facts[FactsOf(s)[n].object]
           /\ \A n, k \in 1..Len(FactsOf(s)) : FactsOf(s)[n].object = FactsOf(s)[k].object => n = k
           /\ \A o \in DOMAIN s.facts : \E n \in 1..Len(FactsOf(s)) : FactsOf(s)[n] = s.facts[o]
<1>1. IsFiniteSet(DOMAIN s.facts) /\ DOMAIN s.facts \subseteq Nat
    BY ObjectsAreNaturals DEF IsSnapshot
<1>2. \A o \in DOMAIN s.facts : s.facts[o].object = o /\ IsFact(s.facts[o])
    BY DEF IsSnapshot
<1>3. /\ Len(FactsOf(s)) \in Nat /\ DOMAIN FactsOf(s) = 1..Len(FactsOf(s))
      /\ \A n \in 1..Len(FactsOf(s)) :
            FactSequence(s)[n] \in DOMAIN s.facts /\ FactsOf(s)[n] = s.facts[FactSequence(s)[n]]
      /\ \A o \in DOMAIN s.facts : \E n \in 1..Len(FactsOf(s)) : FactSequence(s)[n] = o
      /\ \A n, k \in 1..Len(FactsOf(s)) : FactSequence(s)[n] = FactSequence(s)[k] => n = k
    BY <1>1, FactsInSequence
<1>4. \A n \in 1..Len(FactsOf(s)) : FactsOf(s)[n].object = FactSequence(s)[n]
    BY <1>2, <1>3
<1> QED BY <1>2, <1>3, <1>4

LEMMA PlannedAreOrderable ==
    ASSUME NoneIsApart, NEW w, NEW s, IsSnapshot(s)
    PROVE  /\ AreOrderable(EventsOf(PlannedSteps(w, s)))
           /\ \A e : e \in EventsOf(PlannedSteps(w, s)) <=>
                \E n \in 1..Len(FactsOf(s)) : e \in EventsOf(StepsOfFact(w, s, n))
           /\ \A n \in 1..Len(FactsOf(s)) : \A e \in EventsOf(StepsOfFact(w, s, n)) :
                IsEventOf(e, s.mapping, FactsOf(s)[n])
<1> DEFINE E == EventsOf(PlannedSteps(w, s))
           N == Len(FactsOf(s))
<1>1. \A n \in 1..N : IsFact(FactsOf(s)[n]) /\ FactsOf(s)[n].object \in DOMAIN s.facts
    BY SnapshotFacts
<1>2. \A t : t \in PlannedSteps(w, s) <=> \E n \in 1..N : t \in StepsOfFact(w, s, n)
    BY SnapshotFacts DEF PlannedSteps
<1>3. \A e : e \in E <=> \E n \in 1..N : e \in EventsOf(StepsOfFact(w, s, n))
    BY <1>2, EventsOfMembers
<1>4. \A n \in 1..N : \A e \in EventsOf(StepsOfFact(w, s, n)) : IsEventOf(e, s.mapping, FactsOf(s)[n])
    BY <1>1, StepsAreOrderable DEF StepsOfFact
<1> HIDE DEF N, E
<1>5. \A e \in E : e.type \in ImportType /\ e.at \in Nat /\ e.id[3] \in DOMAIN s.facts
    BY <1>1, <1>3, <1>4 DEF IsEventOf
<1>6. ASSUME NEW e \in E, NEW g \in E, e.type = g.type, e.id[3] = g.id[3] PROVE e = g
    <2>1. PICK n \in 1..N : e \in EventsOf(StepsOfFact(w, s, n))
        BY <1>3
    <2>2. PICK k \in 1..N : g \in EventsOf(StepsOfFact(w, s, k))
        BY <1>3
    <2>3. e.id[3] = FactsOf(s)[n].object /\ g.id[3] = FactsOf(s)[k].object
        BY <1>4, <2>1, <2>2 DEF IsEventOf
    <2>4. n = k
        BY <1>6, <2>3, SnapshotFacts DEF N
    <2>5. AreOrderable(EventsOf(StepsOfFact(w, s, n)))
        BY <1>1, StepsAreOrderable DEF StepsOfFact
    <2> QED BY <1>6, <2>1, <2>2, <2>4, <2>5 DEF AreOrderable
<1>7. AreOrderable(E)
    <2>1. IsFiniteSet(DOMAIN s.facts) /\ DOMAIN s.facts \subseteq Nat
        BY ObjectsAreNaturals DEF IsSnapshot
    <2> QED BY <1>5, <1>6, <2>1, FewAreOrderable
<1> QED BY <1>3, <1>4, <1>7 DEF E, N

\* The events of a set, one after the other.
LEMMA SortedEvents ==
    ASSUME NEW E, AreOrderable(E)
    PROVE  LET q == Sorted(E, EventBefore)
           IN  /\ Len(q) \in Nat /\ DOMAIN q = 1..Len(q) /\ Len(q) = Cardinality(E)
               /\ \A n \in 1..Len(q) : q[n] \in E
               /\ \A e \in E : \E n \in 1..Len(q) : q[n] = e
               /\ \A n, k \in 1..Len(q) : q[n] = q[k] => n = k
               /\ \A n, k \in 1..Len(q) : n < k <=> EventBefore(q[n], q[k])
<1> DEFINE q == Sorted(E, EventBefore)
<1>1. IsOrder(E, EventOrder(E)) /\ IsInOrder(q, E, EventOrder(E))
    BY EventsAreOrdered
<1> HIDE DEF q
<1>2. /\ Len(q) = Cardinality(E) /\ Len(q) \in Nat /\ DOMAIN q = 1..Len(q)
      /\ \A n \in 1..Len(q) : q[n] \in E
      /\ \A e \in E : \E n \in 1..Len(q) : q[n] = e
      /\ \A n, k \in 1..Len(q) : n < k <=> <<q[n], q[k]>> \in EventOrder(E)
      /\ \A n, k \in 1..Len(q) : q[n] = q[k] => n = k
    BY <1>1, OrderedSequence
<1>3. \A n, k \in 1..Len(q) : <<q[n], q[k]>> \in EventOrder(E) <=> EventBefore(q[n], q[k])
    BY <1>2 DEF EventOrder
<1> QED BY <1>2, <1>3 DEF q

-----------------------------------------------------------------------------
(* What is applied stays represented.                                      *)

\* The item has a link to the object that was read, and then or later.
Holds(w, i, o, at) ==
    /\ i \in Known(w) /\ at \in Nat
    /\ \E l \in w.items[i].links : l.object = o /\ ~l.legacy /\ at <= l.last.at

\* What was processed has left its link.
Remembered(w) ==
    \A e \in w.processed :
        /\ e.type \in {"work_item.created", "external_link.linked"} /\ ~e.payload.link.legacy
            => Holds(w, e.item, e.payload.link.object, e.payload.link.last.at)
        /\ e.type = "external_link.observed"
            => Holds(w, e.item, e.payload.object, e.payload.observation.at)

LEMMA HoldsOn ==
    ASSUME NEW v, NEW w, IsWorkflow(v), IsWorkflow(w), Follows(v, w), NEW i, NEW o, NEW at,
           Holds(v, i, o, at)
    PROVE  Holds(w, i, o, at)
<1>1. i \in Known(v) /\ i \in Known(w) /\ at \in Nat
    BY DEF Holds, Follows
<1>2. PICK l \in v.items[i].links : l.object = o /\ ~l.legacy /\ at <= l.last.at
    BY DEF Holds
<1>3. PICK k \in w.items[i].links : LinkStays(l, k)
    BY <1>1 DEF Follows, LinksStay
<1>4. ~k.legacy /\ k.object = o /\ (k.last = l.last \/ k.last.at > l.last.at)
    BY <1>2, <1>3 DEF LinkStays
<1>5. IsRich(l) /\ IsRich(k)
    BY <1>1, <1>2, <1>4 DEF IsWorkflow, IsItem
<1>6. at <= k.last.at
    BY <1>1, <1>2, <1>4, <1>5 DEF IsRich
<1> QED BY <1>1, <1>4, <1>6 DEF Holds

\* The item an accepted event leaves.
LEMMA AcceptedItem ==
    ASSUME NoneIsApart, NEW w, NEW e, IsWorkflow(w), SaysWhen(e), e \notin w.processed,
           Refusal(w, e) = "none", e.item \in ItemId
    PROVE  /\ e.item \in Known(Applied(w, e))
           /\ Applied(w, e).items[e.item] = ItemAfter(w, e)
           /\ \A i \in ItemId : i # e.item => Applied(w, e).items[i] = w.items[i]
           /\ e.type = "work_item.created" => ItemAfter(w, e).links = {e.payload.link}
           /\ e.type = "external_link.linked" =>
                ItemAfter(w, e).links = w.items[e.item].links \cup {e.payload.link}
           /\ e.type = "external_link.observed" =>
                \E l \in w.items[e.item].links : \E k :
                    /\ l.object = e.payload.object /\ k.object = e.payload.object
                    /\ ~k.legacy /\ k.last = e.payload.observation
                    /\ k.managed = IF e.payload.expected = None THEN e.payload.managed ELSE l.managed
                    /\ ItemAfter(w, e).links = (w.items[e.item].links \ {l}) \cup {k}
           /\ ~IsLinkEvent(e) => ItemAfter(w, e).links = w.items[e.item].links
           /\ e.type = "work_item.created" => ItemAfter(w, e).title = e.payload.title
           /\ e.type \notin {"work_item.created", "work_item.updated"} =>
                ItemAfter(w, e).title = w.items[e.item].title
           /\ e.type = "work_item.updated" => ItemAfter(w, e).title = e.payload.after
<1> DEFINE v == Applied(w, e)
           y == ItemAfter(w, e)
           x == w.items[e.item]
<1>1. /\ v.items = [w.items EXCEPT ![e.item] = y]
      /\ e.type # "work_item.created" => e.item \in Known(w)
      /\ e.type = "external_link.linked" => LinkRefusal(w, e) = "none"
      /\ e.type = "external_link.observed" => ObserveRefusal(w, e) = "none"
    BY AcceptedEvent
<1> HIDE DEF v
<1>2. v.items[e.item] = y /\ \A i \in ItemId : i # e.item => v.items[i] = w.items[i]
    BY <1>1 DEF IsWorkflow
<1>3. CASE e.type = "work_item.created"
    <2>1. IsItem(y) /\ y.links = {e.payload.link} /\ y.title = e.payload.title
        BY <1>3, CreationKeepsLinks
    <2>2. e.item \in Known(v)
        BY <1>2, <2>1, ItemIsNotNone DEF Known
    <2> HIDE DEF y
    <2> QED BY <1>2, <1>3, <2>1, <2>2 DEF IsLinkEvent, v, y
<1>4. CASE e.type = "external_link.linked"
    <2>1. IsItem(y) /\ y.title = x.title /\ y.links = x.links \cup {e.payload.link}
        BY <1>1, <1>4, LinkingKeepsLinks
    <2>2. e.item \in Known(v)
        BY <1>2, <2>1, ItemIsNotNone DEF Known
    <2> HIDE DEF y
    <2> QED BY <1>2, <1>4, <2>1, <2>2 DEF IsLinkEvent, v, y
<1>5. CASE e.type = "external_link.observed"
    <2>1. /\ IsItem(y) /\ y.title = x.title
          /\ \E l \in x.links : \E k :
                    /\ l.object = e.payload.object /\ k.object = e.payload.object
                    /\ ~k.legacy /\ k.last = e.payload.observation
                    /\ k.managed = IF e.payload.expected = None THEN e.payload.managed ELSE l.managed
                    /\ y.links = (x.links \ {l}) \cup {k}
        BY <1>1, <1>5, ObservationKeepsLinks
    <2>2. e.item \in Known(v)
        BY <1>2, <2>1, ItemIsNotNone DEF Known
    <2> HIDE DEF y
    <2> QED BY <1>2, <1>5, <2>1, <2>2 DEF IsLinkEvent, v, y
<1>6. CASE ~IsLinkEvent(e)
    <2>0. e.type # "work_item.created" /\ e.item \in Known(w)
        BY <1>1, <1>6 DEF IsLinkEvent
    <2>1. /\ IsItem(y) /\ y.links = x.links
          /\ e.type # "work_item.updated" => y.title = x.title
          /\ e.type = "work_item.updated" => y.title = e.payload.after
        BY <2>0, <1>6, OthersKeepLinks
    <2>2. e.item \in Known(v)
        BY <1>2, <2>1, ItemIsNotNone DEF Known
    <2> HIDE DEF y
    <2> QED BY <1>2, <1>6, <2>0, <2>1, <2>2 DEF IsLinkEvent, v, y
<1> QED BY <1>3, <1>4, <1>5, <1>6 DEF IsLinkEvent

LEMMA EventRemembers ==
    ASSUME NoneIsApart, NEW w, NEW e, IsWorkflow(w), SaysWhen(e), Remembered(w), e.item \in ItemId
    PROVE  Remembered(Applied(w, e))
<1> DEFINE v == Applied(w, e)
<1>1. CASE e \in w.processed \/ Refusal(w, e) # "none"
    BY <1>1 DEF Applied
<1>2. CASE e \notin w.processed /\ Refusal(w, e) = "none"
    <2>1. v.processed = w.processed \cup {e}
        BY <1>2, AcceptedEvent
    <2>2. IsWorkflow(v) /\ Follows(w, v)
        BY EventKeepsLinks
    <2>3. ASSUME NEW i, NEW o, NEW at, Holds(w, i, o, at) PROVE Holds(v, i, o, at)
        BY <2>2, <2>3, HoldsOn
    <2>4. e.item \in Known(v) /\ v.items[e.item] = ItemAfter(w, e)
        BY <1>2, AcceptedItem
    <2>5. ASSUME e.type \in {"work_item.created", "external_link.linked"}, ~e.payload.link.legacy
          PROVE  Holds(v, e.item, e.payload.link.object, e.payload.link.last.at)
        <3>1. e.payload.link \in ItemAfter(w, e).links
            BY <1>2, <2>5, AcceptedItem
        <3>2. IsRich(e.payload.link)
            BY <2>5 DEF SaysWhen
        <3> HIDE DEF v
        <3> QED BY <2>4, <2>5, <3>1, <3>2 DEF Holds, IsRich
    <2>6. ASSUME e.type = "external_link.observed"
          PROVE  Holds(v, e.item, e.payload.object, e.payload.observation.at)
        <3>1. PICK k : /\ k.object = e.payload.object /\ ~k.legacy
                       /\ k.last = e.payload.observation /\ k \in ItemAfter(w, e).links
            <4>1. PICK l \in w.items[e.item].links : \E k :
                    /\ l.object = e.payload.object /\ k.object = e.payload.object
                    /\ ~k.legacy /\ k.last = e.payload.observation
                    /\ k.managed = IF e.payload.expected = None THEN e.payload.managed ELSE l.managed
                    /\ ItemAfter(w, e).links = (w.items[e.item].links \ {l}) \cup {k}
                BY <1>2, <2>6, AcceptedItem
            <4> QED BY <4>1
        <3>2. e.payload.observation.at \in Nat
            BY <2>6 DEF SaysWhen
        <3> HIDE DEF v
        <3> QED BY <2>4, <3>1, <3>2 DEF Holds
    <2> HIDE DEF v
    <2> QED BY <2>1, <2>3, <2>5, <2>6 DEF Remembered, v
<1> QED BY <1>1, <1>2

\* The links of an item to an object, and the events that are about it.
LinksTo(w, i, o) == IF i \in Known(w) THEN LinkOf(w, i, o) ELSE {}

IsAbout(e, o) ==
    \/ e.type \in {"work_item.created", "external_link.linked"} /\ e.payload.link.object = o
    \/ e.type = "external_link.observed" /\ e.payload.object = o

LEMMA EventElsewhere ==
    ASSUME NoneIsApart, NEW w, NEW e, IsWorkflow(w), SaysWhen(e), e.item \in ItemId,
           NEW o, ~IsAbout(e, o), NEW i \in ItemId
    PROVE  LinksTo(Applied(w, e), i, o) = LinksTo(w, i, o)
<1> DEFINE v == Applied(w, e)
<1>1. CASE e \in w.processed \/ Refusal(w, e) # "none"
    BY <1>1 DEF Applied
<1>2. CASE (e \notin w.processed /\ Refusal(w, e) = "none") /\ i # e.item
    <2>1. v.items[i] = w.items[i]
        BY <1>2, AcceptedItem
    <2> HIDE DEF v
    <2> QED BY <2>1 DEF LinksTo, LinkOf, Known, v
<1>3. CASE (e \notin w.processed /\ Refusal(w, e) = "none") /\ i = e.item
    <2> DEFINE y == ItemAfter(w, e)
    <2>1. i \in Known(v) /\ v.items[i] = y
        BY <1>3, AcceptedItem
    <2>2. LinksTo(v, i, o) = {l \in y.links : l.object = o}
        BY <2>1 DEF LinksTo, LinkOf
    <2>3. e.type # "work_item.created" => i \in Known(w)
        BY <1>3, AcceptedEvent
    <2>4. e.type # "work_item.created" => LinksTo(w, i, o) = {l \in w.items[i].links : l.object = o}
        BY <2>3 DEF LinksTo, LinkOf
    <2> HIDE DEF v
    <2>5. CASE e.type = "work_item.created"
        <3>1. y.links = {e.payload.link} /\ e.payload.link.object # o
            BY <1>3, <2>5, AcceptedItem DEF IsAbout
        <3>2. i \notin Known(w)
            BY <1>3, <2>5, AcceptedEvent
        <3> HIDE DEF y
        <3> QED BY <2>2, <3>1, <3>2 DEF LinksTo, v
    <2>6. CASE e.type = "external_link.linked"
        <3>1. y.links = w.items[i].links \cup {e.payload.link} /\ e.payload.link.object # o
            BY <1>3, <2>6, AcceptedItem DEF IsAbout
        <3> HIDE DEF y
        <3> QED BY <2>2, <2>4, <2>6, <3>1 DEF v
    <2>7. CASE e.type = "external_link.observed"
        <3>1. PICK l \in w.items[i].links : \E k :
                    /\ l.object = e.payload.object /\ k.object = e.payload.object
                    /\ ~k.legacy /\ k.last = e.payload.observation
                    /\ k.managed = IF e.payload.expected = None THEN e.payload.managed ELSE l.managed
                    /\ y.links = (w.items[i].links \ {l}) \cup {k}
            BY <1>3, <2>7, AcceptedItem
        <3>2. PICK k : /\ l.object = e.payload.object /\ k.object = e.payload.object
                       /\ y.links = (w.items[i].links \ {l}) \cup {k}
            BY <3>1
        <3>3. e.payload.object # o
            BY <2>7 DEF IsAbout
        <3> HIDE DEF y
        <3> QED BY <2>2, <2>4, <2>7, <3>2, <3>3 DEF v
    <2>8. CASE ~IsLinkEvent(e)
        <3>1. y.links = w.items[i].links /\ e.type # "work_item.created"
            BY <1>3, <2>8, AcceptedItem DEF IsLinkEvent
        <3> HIDE DEF y
        <3> QED BY <2>2, <2>4, <3>1 DEF v
    <2> QED BY <2>5, <2>6, <2>7, <2>8 DEF IsLinkEvent
<1> QED BY <1>1, <1>2, <1>3

\* What is known to have been processed.
LEMMA EventProcessed ==
    ASSUME NEW w, NEW e
    PROVE  /\ w.processed \subseteq Applied(w, e).processed
           /\ Applied(w, e).processed \subseteq w.processed \cup {e}
           /\ Refusal(w, e) = "none" => e \in Applied(w, e).processed
    BY DEF Applied

LEMMA KnownById ==
    ASSUME NEW w, NEW e
    PROVE  Classified(w, e) # "none" <=> \E p \in w.processed : p.id = e.id
    BY DEF Classified

\* Events that are about items.
AreSaid(events) ==
    /\ Len(events) \in Nat
    /\ \A n \in 1..Len(events) : SaysWhen(events[n]) /\ events[n].item \in ItemId

LEMMA EventsLeave ==
    ASSUME NoneIsApart, NEW w, IsWorkflow(w), NEW events, AreSaid(events)
    PROVE  \A n \in 0..Len(events) :
             LET v == AppliedUpTo(w, events)[n]
             IN  /\ IsWorkflow(v) /\ Follows(w, v)
                 /\ Remembered(w) => Remembered(v)
                 /\ w.processed \subseteq v.processed
                 /\ \A p \in v.processed : p \in w.processed \/ \E k \in 1..Len(events) : p = events[k]
                 /\ \A i \in ItemId : \A o : (\A k \in 1..Len(events) : ~IsAbout(events[k], o))
                        => LinksTo(v, i, o) = LinksTo(w, i, o)
                 /\ (\A k \in 1..n : Refusal(AppliedUpTo(w, events)[k - 1], events[k]) = "none")
                        => \A k \in 1..n : events[k] \in v.processed
<1> DEFINE r == AppliedUpTo(w, events)
           m == Len(events)
           Left(v, n) ==
             /\ IsWorkflow(v) /\ Follows(w, v)
             /\ Remembered(w) => Remembered(v)
             /\ w.processed \subseteq v.processed
             /\ \A p \in v.processed : p \in w.processed \/ \E k \in 1..m : p = events[k]
             /\ \A i \in ItemId : \A o : (\A k \in 1..m : ~IsAbout(events[k], o))
                        => LinksTo(v, i, o) = LinksTo(w, i, o)
             /\ (\A k \in 1..n : Refusal(r[k - 1], events[k]) = "none")
                        => \A k \in 1..n : events[k] \in v.processed
           S == {k \in Nat : k <= m => Left(r[k], k)}
<1>1. m \in Nat /\ r[0] = w /\ \A n \in 1..m : r[n] = Applied(r[n - 1], events[n])
    BY AppliedOneByOne DEF AreSaid
<1> HIDE DEF r
<1>2. 0 \in S
    <2>1. 1..0 = {}
        OBVIOUS
    <2>2. Left(w, 0)
        BY <2>1, FollowsItself
    <2> HIDE DEF Left
    <2> QED BY <1>1, <2>2
<1>3. ASSUME NEW n \in Nat, n \in S PROVE n + 1 \in S
    <2> SUFFICES ASSUME n + 1 <= m PROVE Left(r[n + 1], n + 1)
        OBVIOUS
    <2> DEFINE u == r[n]
               e == events[n + 1]
               v == r[n + 1]
    <2>1. n + 1 \in 1..m /\ (n + 1) - 1 = n /\ Left(u, n)
        BY <1>3, <1>1
    <2>2. v = Applied(u, e) /\ SaysWhen(e) /\ e.item \in ItemId
        BY <1>1, <2>1 DEF AreSaid
    <2> HIDE DEF v
    <2>3. IsWorkflow(v) /\ Follows(w, v)
        BY <2>1, <2>2, EventKeepsLinks, FollowsOn
    <2>4. Remembered(w) => Remembered(v)
        BY <2>1, <2>2, EventRemembers
    <2>5. u.processed \subseteq v.processed /\ v.processed \subseteq u.processed \cup {e}
        BY <2>2, EventProcessed
    <2>6. \A i \in ItemId : \A o : (\A k \in 1..m : ~IsAbout(events[k], o))
                        => LinksTo(v, i, o) = LinksTo(w, i, o)
        <3> SUFFICES ASSUME NEW i \in ItemId, NEW o, \A k \in 1..m : ~IsAbout(events[k], o)
                     PROVE  LinksTo(v, i, o) = LinksTo(w, i, o)
            OBVIOUS
        <3>1. LinksTo(u, i, o) = LinksTo(w, i, o)
            BY <2>1
        <3>2. ~IsAbout(e, o) /\ IsWorkflow(u)
            BY <2>1
        <3> HIDE DEF u, e
        <3>3. LinksTo(Applied(u, e), i, o) = LinksTo(u, i, o)
            BY <2>2, <3>2, EventElsewhere
        <3> QED BY <2>2, <3>1, <3>3
    <2>7. ASSUME \A k \in 1..(n + 1) : Refusal(r[k - 1], events[k]) = "none",
                 NEW k \in 1..(n + 1)
          PROVE  events[k] \in v.processed
        <3>1. CASE k = n + 1
            <4>1. Refusal(u, e) = "none"
                BY <2>7, <3>1, <2>1
            <4> QED BY <2>2, <3>1, <4>1, EventProcessed
        <3>2. CASE k # n + 1
            <4>1. k \in 1..n /\ \A j \in 1..n : j \in 1..(n + 1)
                BY <3>2
            <4>2. events[k] \in u.processed
                BY <2>1, <2>7, <4>1
            <4> QED BY <2>5, <4>2
        <3> QED BY <3>1, <3>2
    <2>8. w.processed \subseteq v.processed
        BY <2>1, <2>5
    <2>9. \A p \in v.processed : p \in w.processed \/ \E k \in 1..m : p = events[k]
        BY <2>1, <2>5
    <2> QED BY <2>3, <2>4, <2>6, <2>7, <2>8, <2>9 DEF v
<1>4. Nat \subseteq S
    <2> HIDE DEF S
    <2> QED BY <1>2, <1>3, InductiveSet
<1> HIDE DEF Left
<1>5. \A n \in 0..m : Left(r[n], n)
    BY <1>1, <1>4
<1> QED BY <1>5 DEF Left, r

ApplyFields == {"plan", "unread", "halfway", "from", "seen"}

LEMMA VerifyKeepsPlan ==
    ASSUME applying # None, DOMAIN applying = ApplyFields, Verify
    PROVE  applying' = None \/ (DOMAIN applying' = ApplyFields /\ applying'.plan = applying.plan)
<1>1. ASSUME NEW o, NEW r
      PROVE  DOMAIN Confirmed(o, r) = ApplyFields /\ Confirmed(o, r).plan = applying.plan
    BY <1>1 DEF Confirmed, ApplyFields
<1>2. ASSUME NEW o
      PROVE  LET a == [applying EXCEPT !.unread = @ \ {o}, !.halfway = @ \cup {o}] IN
             DOMAIN a = ApplyFields /\ a.plan = applying.plan
    BY DEF ApplyFields
<1>3. ASSUME NEW o, VerifyObject(o)
      PROVE  applying' = None \/ (DOMAIN applying' = ApplyFields /\ applying'.plan = applying.plan)
    BY <1>1, <1>2, <1>3 DEF VerifyObject
<1>4. ASSUME NEW o, VerifyPull(o)
      PROVE  applying' = None \/ (DOMAIN applying' = ApplyFields /\ applying'.plan = applying.plan)
    BY <1>1, <1>4 DEF VerifyPull
<1> QED BY <1>3, <1>4 DEF Verify

\* Events of one order can be put in it without some of them.
LEMMA FewerAreOrderable ==
    ASSUME NEW E, AreOrderable(E), NEW K \in SUBSET E
    PROVE  AreOrderable(K)
<1>1. IsFiniteSet(K)
    BY FS_Subset DEF AreOrderable
<1> QED BY <1>1 DEF AreOrderable

-----------------------------------------------------------------------------
(* Imports: the invariant.                                                 *)

\* A plan is the plan of its snapshot on the workflow it was made for.
IsPlanned(p) ==
    /\ IsSnapshot(p.snapshot) /\ IsWorkflow(p.base)
    /\ p = PlanOf(p.snapshot, p.base, p.binding)

\* An apply at work has the plan of the workflow there is, which nothing refuses.
IsAtWork(a) ==
    /\ DOMAIN a = ApplyFields
    /\ IsPlanned(a.plan)
    /\ a.plan.base = workflow /\ a.plan.conflicts = {} /\ Projects(a.plan, workflow)
    /\ a.plan.binding.applyAllowed

VersionInv ==
    DOMAIN version = Object /\ \A o \in Object : version[o] \in 1..Len(Versions[o])

ImportInv ==
    /\ VersionInv
    /\ IsWorkflow(workflow) /\ Remembered(workflow)
    /\ \A p \in plans : IsPlanned(p)
    /\ applying # None => IsAtWork(applying)

\* The events of a plan: those of its facts that the domain does not refuse.
KeptEvents(p) ==
    LET events == EventsOf(PlannedSteps(p.base, p.snapshot))
    IN  {e \in events : \A r \in Rejections(p.base, events) : r.id # e.id}

LEMMA PlanIs ==
    ASSUME NEW p, IsPlanned(p)
    PROVE  LET steps == PlannedSteps(p.base, p.snapshot)
               events == EventsOf(steps)
               actions == {Settled(t.action, Rejections(p.base, events)) : t \in steps}
           IN  /\ p.events = Sorted(KeptEvents(p), EventBefore)
               /\ p.conflicts = Conflicts(actions)
               /\ p.actions = Sorted(actions, ActionBefore)
<1> DEFINE q == PlanOf(p.snapshot, p.base, p.binding)
           steps == PlannedSteps(p.base, p.snapshot)
           events == EventsOf(steps)
           actions == {Settled(t.action, Rejections(p.base, events)) : t \in steps}
<1>1. p = q
    BY DEF IsPlanned
<1>2. /\ q.events = Sorted({e \in events : \A r \in Rejections(p.base, events) : r.id # e.id}, EventBefore)
      /\ q.conflicts = Conflicts(actions)
      /\ q.actions = Sorted(actions, ActionBefore)
    BY DEF PlanOf, PlanOfSteps, PlanWithout
<1> HIDE DEF q
<1> QED BY <1>1, <1>2 DEF KeptEvents

LEMMA PlanEventsAre ==
    ASSUME NoneIsApart, NEW p, IsPlanned(p)
    PROVE  /\ AreOrderable(KeptEvents(p))
           /\ Len(p.events) \in Nat /\ DOMAIN p.events = 1..Len(p.events)
           /\ \A n \in 1..Len(p.events) : p.events[n] \in KeptEvents(p) /\ SaysWhen(p.events[n])
           /\ \A e \in KeptEvents(p) : \E n \in 1..Len(p.events) : p.events[n] = e
           /\ \A n, k \in 1..Len(p.events) : p.events[n] = p.events[k] => n = k
           /\ \A n, k \in 1..Len(p.events) : n < k <=> EventBefore(p.events[n], p.events[k])
<1> DEFINE events == EventsOf(PlannedSteps(p.base, p.snapshot))
           K == KeptEvents(p)
<1>1. IsSnapshot(p.snapshot)
    BY DEF IsPlanned
<1>2. AreOrderable(events) /\ \A e \in events : SaysWhen(e)
    BY <1>1, PlannedAreOrderable DEF IsEventOf
<1>3. K \in SUBSET events
    BY DEF KeptEvents
<1> HIDE DEF K, events
<1>4. AreOrderable(K)
    BY <1>2, <1>3, FewerAreOrderable
<1> DEFINE q == Sorted(K, EventBefore)
<1>5. p.events = q
    BY PlanIs DEF K
<1>6. /\ Len(q) \in Nat /\ DOMAIN q = 1..Len(q)
      /\ \A n \in 1..Len(q) : q[n] \in K
      /\ \A e \in K : \E n \in 1..Len(q) : q[n] = e
      /\ \A n, k \in 1..Len(q) : q[n] = q[k] => n = k
      /\ \A n, k \in 1..Len(q) : n < k <=> EventBefore(q[n], q[k])
    BY <1>4, SortedEvents
<1> HIDE DEF q
<1>7. \A n \in 1..Len(q) : SaysWhen(q[n])
    BY <1>2, <1>3, <1>6
<1> QED BY <1>4, <1>5, <1>6, <1>7 DEF K

LEMMA PlanAreSaid ==
    ASSUME NoneIsApart, NEW p, IsPlanned(p)
    PROVE  AreSaid(p.events)
<1>1. \A n \in 1..Len(p.events) : p.events[n] \in KeptEvents(p) /\ SaysWhen(p.events[n])
    BY PlanEventsAre
<1>2. \A e \in KeptEvents(p) : e.item = p.snapshot.mapping.item
    BY PlannedAreOrderable DEF KeptEvents, IsPlanned, IsEventOf
<1>3. p.snapshot.mapping.item \in ItemId
    BY DEF IsPlanned, IsSnapshot
<1> QED BY <1>1, <1>2, <1>3, PlanEventsAre DEF AreSaid

\* The snapshot of a plan is the one that was planned.
LEMMA PlanHasSnapshot ==
    ASSUME NEW s, NEW w, NEW binding
    PROVE  /\ PlanOf(s, w, binding).snapshot = s
           /\ PlanOf(s, w, binding).binding = binding
           /\ PlanOf(s, w, binding).base = w
    BY DEF PlanOf, PlanOfSteps, PlanWithout

LEMMA PlanOfIsPlanned ==
    ASSUME NEW s, NEW w, NEW b, IsSnapshot(s), IsWorkflow(w)
    PROVE  IsPlanned(PlanOf(s, w, b))
<1> DEFINE p == PlanOf(s, w, b)
<1>1. p.snapshot = s /\ p.base = w /\ p.binding = b
    BY PlanHasSnapshot
<1> QED BY <1>1 DEF IsPlanned

LEMMA ImportInitHolds ==
    ASSUME workflow = EmptyWorkflow, version = [o \in Object |-> 1], plans = {}, applying = None
    PROVE  ImportInv
<1>1. IsWorkflow(workflow)
    BY DEF IsWorkflow, EmptyWorkflow, Known
<1>2. VersionInv
    <2>1. \A o \in Object : Len(Versions[o]) \in Nat \ {0}
        BY SnapshotAssumption
    <2>2. \A o \in Object : 1 \in 1..Len(Versions[o])
        BY <2>1
    <2> QED BY <2>2 DEF VersionInv
<1>3. Remembered(workflow)
    BY DEF Remembered, EmptyWorkflow
<1> QED BY <1>1, <1>2, <1>3 DEF ImportInv

LEMMA BeginApplyKeeps ==
    ASSUME ImportInv, NEW p, IsPlanned(p), BeginApply(p)
    PROVE  ImportInv'
<1> DEFINE a == [plan |-> p, unread |-> Claimed(p), halfway |-> {}, from |-> version, seen |-> {}]
<1>1. /\ applying' = a /\ UNCHANGED <<workflow, version, plans>>
      /\ p.base = workflow /\ p.conflicts = {} /\ Projects(p, workflow)
      /\ p.binding.applyAllowed
    BY DEF BeginApply, MatchesPreview
<1>2. DOMAIN a = ApplyFields /\ a.plan = p
    BY DEF ApplyFields
<1> HIDE DEF a
<1>3. IsAtWork(a)
    BY <1>1, <1>2 DEF IsAtWork
<1>4. IsAtWork(a)'
    BY <1>1, <1>3 DEF IsAtWork, a
<1> QED BY <1>1, <1>4 DEF ImportInv, VersionInv, a

LEMMA EditKeeps ==
    ASSUME ImportInv, NEW o \in Object, Edit(o)
    PROVE  ImportInv'
<1>1. /\ version[o] < Len(Versions[o]) /\ version' = [version EXCEPT ![o] = @ + 1]
      /\ UNCHANGED <<workflow, plans, applying>>
    BY DEF Edit
<1>2. VersionInv'
    <2>1. \A x \in Object : Len(Versions[x]) \in Nat
        BY SnapshotAssumption
    <2>2. version[o] + 1 \in 1..Len(Versions[o])
        BY <1>1, <2>1 DEF ImportInv, VersionInv
    <2>3. \A x \in Object : version'[x] = IF x = o THEN version[o] + 1 ELSE version[x]
        BY <1>1 DEF ImportInv, VersionInv
    <2>4. DOMAIN version' = Object
        BY <1>1 DEF ImportInv, VersionInv
    <2>5. \A x \in Object : version'[x] \in 1..Len(Versions[x])
        BY <2>2, <2>3 DEF ImportInv, VersionInv
    <2> QED BY <2>4, <2>5 DEF VersionInv
<1> QED BY <1>1, <1>2 DEF ImportInv, IsAtWork

LEMMA AppendKeeps ==
    ASSUME NoneIsApart, ImportInv, NEW e, AppendEvent(e)
    PROVE  ImportInv' /\ Follows(workflow, workflow')
<1>1. /\ applying = None /\ applying' = None /\ UNCHANGED <<version, plans>>
      /\ workflow' = Applied(workflow, e)
    BY DEF AppendEvent
<1>2. SaysWhen(e)
    BY DEF AppendEvent, IsDirect, SaysWhen
<1>3. IsWorkflow(workflow') /\ Follows(workflow, workflow')
    BY <1>1, <1>2, EventKeepsLinks DEF ImportInv
<1>4. Remembered(workflow')
    <2>1. IsWorkflow(workflow) /\ Remembered(workflow)
        BY DEF ImportInv
    <2>2. \A p \in (workflow').processed : p \in workflow.processed \/ p = e
        BY <1>1, EventProcessed
    <2>3. /\ e.type # "external_link.linked" /\ e.type # "external_link.observed"
          /\ e.type = "work_item.created" => e.payload.link.legacy
        BY DEF AppendEvent, IsDirect
    <2>4. ASSUME NEW i, NEW o, NEW at, Holds(workflow, i, o, at) PROVE Holds(workflow', i, o, at)
        BY <1>3, <2>1, <2>4, HoldsOn
    <2> QED BY <2>1, <2>2, <2>3, <2>4 DEF Remembered
<1> QED BY <1>1, <1>3, <1>4 DEF ImportInv, VersionInv

LEMMA CommitKeeps ==
    ASSUME NoneIsApart, ImportInv, Commit
    PROVE  ImportInv' /\ Follows(workflow, workflow')
<1> DEFINE p == applying.plan
<1>1. /\ applying # None /\ applying' = None /\ UNCHANGED version
      /\ workflow' = AppliedAll(workflow, p.events) /\ plans' = plans \ {p}
    BY DEF Commit
<1>2. IsPlanned(p) /\ IsWorkflow(workflow)
    BY <1>1 DEF ImportInv, IsAtWork
<1> HIDE DEF p
<1>3. Len(p.events) \in Nat /\ \A n \in 1..Len(p.events) : SaysWhen(p.events[n])
    BY <1>2, PlanEventsAre
<1>4. Len(p.events) \in 0..Len(p.events) /\ workflow' = AppliedUpTo(workflow, p.events)[Len(p.events)]
    BY <1>1, <1>3 DEF AppliedAll
<1>5. IsWorkflow(workflow') /\ Follows(workflow, workflow')
    BY <1>2, <1>3, <1>4, EventsKeepLinks
<1>6. Remembered(workflow')
    BY <1>2, <1>4, PlanAreSaid, EventsLeave DEF ImportInv
<1> QED BY <1>1, <1>5, <1>6 DEF ImportInv, VersionInv, p

LEMMA VerifyKeeps ==
    ASSUME ImportInv, Verify
    PROVE  ImportInv'
<1>1. applying # None /\ UNCHANGED <<workflow, version, plans>>
    BY DEF Verify
<1>2. applying' = None \/ (DOMAIN applying' = ApplyFields /\ applying'.plan = applying.plan)
    BY <1>1, VerifyKeepsPlan DEF ImportInv, IsAtWork
<1> QED BY <1>1, <1>2 DEF ImportInv, VersionInv, IsAtWork

\* Plans may come and go otherwise.
LEMMA PlansKeep ==
    ASSUME ImportInv, UNCHANGED <<workflow, version>>, applying' = applying \/ applying' = None,
           \A p \in plans' \ plans : IsPlanned(p)
    PROVE  ImportInv'
    BY DEF ImportInv, VersionInv, IsAtWork

LEMMA ImportStepKeeps ==
    ASSUME NoneIsApart, ImportInv, [ImportNext]_importVars
    PROVE  ImportInv' /\ Follows(workflow, workflow')
<1>1. CASE UNCHANGED importVars
    <2>1. UNCHANGED <<workflow, version, plans, applying>>
        BY <1>1 DEF importVars
    <2> QED BY <2>1, PlansKeep, FollowsItself
<1>2. ASSUME NEW s \in Snapshots, Preview(s) PROVE ImportInv' /\ UNCHANGED workflow
    <2> DEFINE b == PolicyBinding(policy, s.mapping.scope, TypesOf(s))
    <2>1. /\ UNCHANGED <<workflow, version, applying>>
          /\ plans' = plans \cup {PlanOf(s, workflow, b)}
        BY <1>2 DEF Preview
    <2> HIDE DEF b
    <2>2. IsSnapshot(s)
        BY SnapshotsAreTyped DEF ImportInv, VersionInv
    <2>3. IsPlanned(PlanOf(s, workflow, b))
        BY <2>2, PlanOfIsPlanned DEF ImportInv
    <2> QED BY <2>1, <2>3, PlansKeep
<1>3. ASSUME NEW p \in plans, BeginApply(p) PROVE ImportInv' /\ UNCHANGED workflow
    <2>1. IsPlanned(p)
        BY DEF ImportInv
    <2> QED BY <1>3, <2>1, BeginApplyKeeps DEF BeginApply
<1>4. ASSUME NEW p \in plans, Discard(p) PROVE ImportInv' /\ UNCHANGED workflow
    <2>1. UNCHANGED <<workflow, version, applying>> /\ plans' = plans \ {p}
        BY <1>4 DEF Discard
    <2> QED BY <2>1, PlansKeep
<1>5. ASSUME NEW o \in Imported, Edit(o) PROVE ImportInv' /\ UNCHANGED workflow
    <2>1. o \in Object
        BY SnapshotAssumption DEF Imported
    <2> QED BY <1>5, <2>1, EditKeeps DEF Edit
<1>6. CASE Verify
    BY <1>6, VerifyKeeps, FollowsItself DEF Verify
<1>7. ASSUME Abandon PROVE ImportInv' /\ UNCHANGED workflow
    <2>1. UNCHANGED <<workflow, version, plans>> /\ applying' = None
        BY <1>7 DEF Abandon
    <2> QED BY <2>1, PlansKeep
<1>8. ASSUME NEW q, SetPolicy(q) PROVE ImportInv' /\ UNCHANGED workflow
    <2>1. UNCHANGED <<workflow, version, plans, applying>>
        BY <1>8 DEF SetPolicy
    <2> QED BY <2>1, PlansKeep
<1>9. CASE Commit
    BY <1>9, CommitKeeps
<1>10. ASSUME NEW e, AppendEvent(e) PROVE ImportInv' /\ Follows(workflow, workflow')
    BY <1>10, AppendKeeps
<1> QED BY <1>1, <1>2, <1>3, <1>4, <1>5, <1>6, <1>7, <1>8, <1>9, <1>10, FollowsItself DEF ImportNext

LEMMA FollowingNeverGoesBack ==
    ASSUME NEW v, NEW w, Follows(w, v)
    PROVE  \A i \in Known(w) : \A l \in w.items[i].links :
             \E m \in LinkOf(v, i, l.object) :
                ~l.legacy => /\ m.scope = l.scope /\ m.managed = l.managed
                             /\ m.last = l.last \/ m.last.at > l.last.at
    BY DEF Follows, LinksStay, LinkStays, LinkOf

\* workflow.ts, snapshot-import.ts: a link read from a provider stays, with its scope and
\* its fields, and what it has observed never goes back in time, whatever plans are applied
\* and whatever others append; for any objects, histories, mappings and policies.
THEOREM LinksOnlyAdvance == ASSUME NoneIsApart PROVE ImportSpec => LinksNeverGoBack
<1>1. ImportInit => ImportInv
    BY ImportInitHolds DEF ImportInit
<1>2. ImportInv /\ [ImportNext]_importVars => ImportInv'
    BY ImportStepKeeps
<1>3. ImportInv /\ [ImportNext]_importVars =>
        [\A i \in Known(workflow) : \A l \in workflow.items[i].links :
            \E m \in LinkOf(workflow', i, l.object) :
                ~l.legacy => /\ m.scope = l.scope /\ m.managed = l.managed
                             /\ m.last = l.last \/ m.last.at > l.last.at]_importVars
    BY ImportStepKeeps, FollowingNeverGoesBack
<1> QED BY <1>1, <1>2, <1>3, PTL DEF ImportSpec, LinksNeverGoBack

-----------------------------------------------------------------------------
(* Imports: titles.                                                        *)

\* One link of an item manages its title, at most, and never a legacy one.
OneManager(w) ==
    \A i \in Known(w) :
        /\ \A l, k \in w.items[i].links : l.managed /\ k.managed => l = k
        /\ \A l \in w.items[i].links : l.legacy => ~l.managed

TitleHeld(w) ==
    \A i \in Known(w) : \A l \in w.items[i].links : l.managed => w.items[i].title = l.last.title

\* A legacy event's link manages nothing.
ManagesKnowingly(e) ==
    e.type = "work_item.created" /\ e.payload.link.legacy => ~e.payload.link.managed

IsQuiet(e) == ~IsLinkEvent(e) /\ e.type # "work_item.updated"

LEMMA EventKeepsOneManager ==
    ASSUME NoneIsApart, NEW w, NEW e, IsWorkflow(w), SaysWhen(e), e.item \in ItemId,
           ManagesKnowingly(e), OneManager(w)
    PROVE  OneManager(Applied(w, e))
<1> DEFINE v == Applied(w, e)
           y == ItemAfter(w, e)
           x == w.items[e.item]
           Fine(links) == /\ \A l, k \in links : l.managed /\ k.managed => l = k
                          /\ \A l \in links : l.legacy => ~l.managed
<1>1. CASE e \in w.processed \/ Refusal(w, e) # "none"
    BY <1>1 DEF Applied
<1>2. CASE e \notin w.processed /\ Refusal(w, e) = "none"
    <2>1. /\ e.item \in Known(v) /\ v.items[e.item] = y
          /\ \A i \in ItemId : i # e.item => v.items[i] = w.items[i]
        BY <1>2, AcceptedItem
    <2>2. e.type # "work_item.created" => e.item \in Known(w)
        BY <1>2, AcceptedEvent
    <2>3. e.item \in Known(w) => Fine(x.links) /\ IsItem(x)
        BY DEF OneManager, IsWorkflow
    <2> HIDE DEF v
    <2>4. Fine(y.links)
        <3>1. CASE e.type = "work_item.created"
            <4>1. y.links = {e.payload.link}
                BY <1>2, <3>1, AcceptedItem
            <4> HIDE DEF y
            <4> QED BY <3>1, <4>1 DEF ManagesKnowingly
        <3>2. CASE e.type = "external_link.linked"
            <4>1. y.links = x.links \cup {e.payload.link}
                BY <1>2, <3>2, AcceptedItem
            <4>2. ~e.payload.link.legacy
                BY <3>2 DEF SaysWhen, IsRich
            <4>3. e.payload.link.managed => \A l \in x.links : ~(l.object # e.payload.link.object /\ l.managed)
                <5>1. LinkRefusal(w, e) = "none"
                    BY <1>2, <3>2, AcceptedEvent
                <5> QED BY <5>1 DEF LinkRefusal, TitleManagedBeside
            <4>4. \A l \in x.links : l.object # e.payload.link.object
                <5>1. LinkRefusal(w, e) = "none"
                    BY <1>2, <3>2, AcceptedEvent
                <5>2. e.item \notin Owners(w, e.payload.link.object)
                    BY <5>1 DEF LinkRefusal
                <5> QED BY <2>2, <3>2, <5>2 DEF Owners, LinkOf
            <4> HIDE DEF y, x
            <4> QED BY <2>2, <2>3, <3>2, <4>1, <4>2, <4>3, <4>4
        <3>3. CASE e.type = "external_link.observed"
            <4>1. PICK l \in x.links : \E k :
                    /\ l.object = e.payload.object /\ k.object = e.payload.object
                    /\ ~k.legacy /\ k.last = e.payload.observation
                    /\ k.managed = IF e.payload.expected = None THEN e.payload.managed ELSE l.managed
                    /\ y.links = (x.links \ {l}) \cup {k}
                BY <1>2, <3>3, AcceptedItem
            <4>2. PICK k :
                    /\ l.object = e.payload.object /\ ~k.legacy
                    /\ k.managed = IF e.payload.expected = None THEN e.payload.managed ELSE l.managed
                    /\ y.links = (x.links \ {l}) \cup {k}
                BY <4>1
            <4>3. e.payload.expected = None /\ e.payload.managed =>
                    ~\E h \in x.links : h.object # e.payload.object /\ h.managed
                <5>1. ObserveRefusal(w, e) = "none"
                    BY <1>2, <3>3, AcceptedEvent
                <5>2. LinkOf(w, e.item, e.payload.object) # {}
                    BY <4>2 DEF LinkOf
                <5>3. e.payload.expected = None => BaselineRefusal(w, e) = "none"
                    BY <5>1, <5>2 DEF ObserveRefusal
                <5> QED BY <5>3 DEF BaselineRefusal, TitleManagedBeside
            <4>4. \A h \in x.links : h # l => h.object # e.payload.object
                BY <2>2, <2>3, <3>3, <4>2 DEF IsItem
            <4> HIDE DEF y, x
            <4>5. \A h \in x.links : h # l /\ h.managed => ~k.managed
                BY <2>2, <2>3, <3>3, <4>2, <4>3, <4>4
            <4> QED BY <2>2, <2>3, <3>3, <4>2, <4>5
        <3>4. CASE ~IsLinkEvent(e)
            <4>1. y.links = x.links /\ e.type # "work_item.created"
                BY <1>2, <3>4, AcceptedItem DEF IsLinkEvent
            <4> HIDE DEF y, x
            <4> QED BY <2>2, <2>3, <4>1
        <3> QED BY <3>1, <3>2, <3>3, <3>4 DEF IsLinkEvent
    <2> HIDE DEF y
    <2>5. ASSUME NEW i \in Known(v) PROVE Fine(v.items[i].links)
        <3>1. CASE i = e.item
            BY <2>1, <2>4, <3>1
        <3>2. CASE i # e.item
            <4>1. i \in ItemId /\ i \in Known(w) /\ v.items[i] = w.items[i]
                BY <2>1, <3>2 DEF Known
            <4> QED BY <4>1 DEF OneManager
        <3> QED BY <3>1, <3>2
    <2> QED BY <2>5 DEF OneManager, v
<1> QED BY <1>1, <1>2

\* What an event says of titles.
LEMMA EventSays ==
    ASSUME NoneIsApart, NEW w, NEW e, IsWorkflow(w), SaysWhen(e), e.item \in ItemId
    PROVE  LET v == Applied(w, e)
           IN  /\ IsQuiet(e) => \A i \in Known(w) : /\ i \in Known(v)
                                                   /\ v.items[i].links = w.items[i].links
                                                   /\ v.items[i].title = w.items[i].title
               /\ e.type # "work_item.updated" => \A i \in Known(v) :
                    \/ i \in Known(w) /\ v.items[i].title = w.items[i].title
                    \/ /\ e.type = "work_item.created" /\ e.item = i
                       /\ v.items[i].title = e.payload.title
<1> DEFINE v == Applied(w, e)
           y == ItemAfter(w, e)
<1>1. CASE e \in w.processed \/ Refusal(w, e) # "none"
    BY <1>1 DEF Applied
<1>2. CASE e \notin w.processed /\ Refusal(w, e) = "none"
    <2>1. /\ e.item \in Known(v) /\ v.items[e.item] = y
          /\ \A i \in ItemId : i # e.item => v.items[i] = w.items[i]
          /\ ~IsLinkEvent(e) => y.links = w.items[e.item].links
          /\ e.type = "work_item.created" => y.title = e.payload.title
          /\ e.type \notin {"work_item.created", "work_item.updated"} =>
                y.title = w.items[e.item].title
        BY <1>2, AcceptedItem
    <2>2. e.type # "work_item.created" => e.item \in Known(w)
        BY <1>2, AcceptedEvent
    <2> HIDE DEF v, y
    <2>3. \A i \in ItemId : i # e.item => (i \in Known(v) <=> i \in Known(w))
        BY <2>1 DEF Known
    <2>4. Known(v) \subseteq ItemId /\ Known(w) \subseteq ItemId
        BY DEF Known
    <2>5. IsQuiet(e) => \A i \in Known(w) : /\ i \in Known(v)
                                           /\ v.items[i].links = w.items[i].links
                                           /\ v.items[i].title = w.items[i].title
        BY <2>1, <2>2, <2>3, <2>4 DEF IsQuiet, IsLinkEvent
    <2>6. e.type # "work_item.updated" => \A i \in Known(v) :
                    \/ i \in Known(w) /\ v.items[i].title = w.items[i].title
                    \/ /\ e.type = "work_item.created" /\ e.item = i
                       /\ v.items[i].title = e.payload.title
        BY <2>1, <2>2, <2>3, <2>4
    <2> QED BY <2>5, <2>6 DEF v
<1> QED BY <1>1, <1>2

LEMMA EventElsewhereItems ==
    ASSUME NoneIsApart, NEW w, NEW e, IsWorkflow(w), SaysWhen(e), e.item \in ItemId,
           NEW j \in ItemId, e.item # j
    PROVE  Applied(w, e).items[j] = w.items[j]
<1>1. CASE e \in w.processed \/ Refusal(w, e) # "none"
    BY <1>1 DEF Applied
<1>2. CASE e \notin w.processed /\ Refusal(w, e) = "none"
    BY <1>2, AcceptedItem
<1> QED BY <1>1, <1>2

\* What some events of a run, after the first a and up to the b-th, leave of a workflow x.
Leaves(x, y, events, a, b) ==
    /\ IsWorkflow(y) /\ Follows(x, y)
    /\ \A i \in ItemId : \A o : (\A k \in (a + 1)..b : ~IsAbout(events[k], o))
           => LinksTo(y, i, o) = LinksTo(x, i, o)
    /\ (\A k \in (a + 1)..b : IsQuiet(events[k])) =>
           \A i \in Known(x) : /\ i \in Known(y)
                               /\ y.items[i].links = x.items[i].links
                               /\ y.items[i].title = x.items[i].title
    /\ (\A k \in (a + 1)..b : events[k].type # "work_item.updated") =>
           \A i \in Known(y) :
               \/ i \in Known(x) /\ y.items[i].title = x.items[i].title
               \/ \E k \in (a + 1)..b :
                    /\ events[k].type = "work_item.created" /\ events[k].item = i
                    /\ y.items[i].title = events[k].payload.title
    /\ \A j \in ItemId : (\A k \in (a + 1)..b : events[k].item # j) => y.items[j] = x.items[j]
    /\ \A e \in y.processed : e \in x.processed \/ \E k \in (a + 1)..b : e = events[k]
    /\ (OneManager(x) /\ \A k \in (a + 1)..b : ManagesKnowingly(events[k])) => OneManager(y)

LEMMA RunFrom ==
    ASSUME NoneIsApart, NEW w, IsWorkflow(w), NEW events, AreSaid(events), NEW a \in 0..Len(events)
    PROVE  \A b \in a..Len(events) :
             Leaves(AppliedUpTo(w, events)[a], AppliedUpTo(w, events)[b], events, a, b)
<1> DEFINE r == AppliedUpTo(w, events)
           m == Len(events)
           x == r[a]
           Left(y, b) == Leaves(x, y, events, a, b)
           S == {k \in Nat : a + k <= m => Left(r[a + k], a + k)}
<1>1. m \in Nat /\ a \in Nat /\ \A n \in 1..m : r[n] = Applied(r[n - 1], events[n])
    BY AppliedOneByOne DEF AreSaid
<1>2. IsWorkflow(x)
    <2>1. \A n \in 0..m : IsWorkflow(r[n]) /\ Follows(w, r[n])
        BY <1>1, EventsKeepLinks DEF AreSaid
    <2> QED BY <2>1
<1> HIDE DEF r
<1>3. 0 \in S
    <2>1. a + 0 = a
        BY <1>1
    <2>2. Left(x, a)
        BY <1>2, FollowsItself DEF Leaves
    <2> HIDE DEF Left
    <2> QED BY <2>1, <2>2
<1>4. ASSUME NEW n \in Nat, n \in S PROVE n + 1 \in S
    <2> SUFFICES ASSUME a + (n + 1) <= m PROVE Left(r[a + (n + 1)], a + (n + 1))
        OBVIOUS
    <2> DEFINE c == a + n
               b == a + (n + 1)
               u == r[c]
               e == events[b]
               v == r[b]
    <2>1. c \in Nat /\ b = c + 1 /\ b \in 1..m /\ b - 1 = c /\ a <= c
        BY <1>1
    <2>0. Left(u, c)
        BY <1>4, <1>1
    <2>2. Leaves(x, u, events, a, c)
        BY <2>0
    <2> HIDE DEF Left
    <2>3. v = Applied(u, e) /\ SaysWhen(e) /\ e.item \in ItemId
        BY <1>1, <2>1 DEF AreSaid
    <2> HIDE DEF v, e, b, c
    <2>4. \A k \in (a + 1)..c : k \in (a + 1)..b
        BY <1>1, <2>1
    <2>5. b \in (a + 1)..b
        BY <1>1, <2>1
    <2> HIDE DEF u, x
    <2>6. IsWorkflow(v) /\ Follows(x, v)
        BY <1>2, <2>2, <2>3, EventKeepsLinks, FollowsOn DEF Leaves
    <2>7. ASSUME NEW i \in ItemId, NEW o, \A k \in (a + 1)..b : ~IsAbout(events[k], o)
          PROVE  LinksTo(v, i, o) = LinksTo(x, i, o)
        <3>1. LinksTo(u, i, o) = LinksTo(x, i, o)
            BY <2>2, <2>4, <2>7 DEF Leaves
        <3>2. ~IsAbout(e, o)
            BY <2>5, <2>7 DEF e
        <3>3. LinksTo(Applied(u, e), i, o) = LinksTo(u, i, o)
            BY <2>2, <2>3, <3>2, EventElsewhere DEF Leaves
        <3> QED BY <2>3, <3>1, <3>3
    <2>8. /\ IsQuiet(e) => \A i \in Known(u) : /\ i \in Known(v)
                                               /\ v.items[i].links = u.items[i].links
                                               /\ v.items[i].title = u.items[i].title
          /\ e.type # "work_item.updated" => \A i \in Known(v) :
                    \/ i \in Known(u) /\ v.items[i].title = u.items[i].title
                    \/ /\ e.type = "work_item.created" /\ e.item = i
                       /\ v.items[i].title = e.payload.title
        BY <2>2, <2>3, EventSays DEF Leaves
    <2>9. ASSUME \A k \in (a + 1)..b : IsQuiet(events[k]), NEW i \in Known(x)
          PROVE  /\ i \in Known(v)
                 /\ v.items[i].links = x.items[i].links /\ v.items[i].title = x.items[i].title
        BY <2>2, <2>4, <2>5, <2>8, <2>9 DEF e, Leaves
    <2>10. ASSUME \A k \in (a + 1)..b : events[k].type # "work_item.updated", NEW i \in Known(v)
           PROVE  \/ i \in Known(x) /\ v.items[i].title = x.items[i].title
                  \/ \E k \in (a + 1)..b :
                        /\ events[k].type = "work_item.created" /\ events[k].item = i
                        /\ v.items[i].title = events[k].payload.title
        <3>1. e.type # "work_item.updated"
            BY <2>5, <2>10 DEF e
        <3>2. CASE e.type = "work_item.created" /\ e.item = i /\ v.items[i].title = e.payload.title
            BY <2>5, <3>2 DEF e
        <3>3. CASE i \in Known(u) /\ v.items[i].title = u.items[i].title
            <4>1. \/ i \in Known(x) /\ u.items[i].title = x.items[i].title
                  \/ \E k \in (a + 1)..c :
                        /\ events[k].type = "work_item.created" /\ events[k].item = i
                        /\ u.items[i].title = events[k].payload.title
                BY <2>2, <2>4, <2>10, <3>3 DEF Leaves
            <4> QED BY <2>4, <3>3, <4>1
        <3> QED BY <2>8, <3>1, <3>2, <3>3
    <2>11. ASSUME OneManager(x), \A k \in (a + 1)..b : ManagesKnowingly(events[k])
           PROVE  OneManager(v)
        <3>1. OneManager(u) /\ ManagesKnowingly(e)
            BY <2>2, <2>4, <2>5, <2>11 DEF e, Leaves
        <3> QED BY <2>2, <2>3, <3>1, EventKeepsOneManager DEF Leaves
    <2>12. ASSUME NEW j \in ItemId, \A k \in (a + 1)..b : events[k].item # j
           PROVE  v.items[j] = x.items[j]
        <3>1. u.items[j] = x.items[j]
            BY <2>2, <2>4, <2>12 DEF Leaves
        <3>2. e.item # j
            BY <2>5, <2>12 DEF e
        <3>3. Applied(u, e).items[j] = u.items[j]
            BY <2>2, <2>3, <3>2, EventElsewhereItems DEF Leaves
        <3> QED BY <2>3, <3>1, <3>3
    <2>13. ASSUME NEW p \in v.processed
           PROVE  p \in x.processed \/ \E k \in (a + 1)..b : p = events[k]
        <3>1. p \in u.processed \/ p = e
            BY <2>3, EventProcessed
        <3> QED BY <2>2, <2>4, <2>5, <3>1 DEF e, Leaves
    <2>14. Left(v, b)
        BY <2>6, <2>7, <2>9, <2>10, <2>11, <2>12, <2>13 DEF Left, Leaves
    <2> QED BY <2>14 DEF v, b
<1>5. Nat \subseteq S
    <2> HIDE DEF S
    <2> QED BY <1>3, <1>4, InductiveSet
<1> HIDE DEF Left, x
<1>6. ASSUME NEW b \in a..m PROVE Left(r[b], b)
    <2>1. b - a \in Nat /\ a + (b - a) = b /\ b <= m
        BY <1>1
    <2>2. b - a \in S
        BY <1>5, <2>1
    <2>3. a + (b - a) <= m => Left(r[a + (b - a)], a + (b - a))
        BY <2>2
    <2> QED BY <2>1, <2>3
<1> QED BY <1>6 DEF Left, x, r

LEMMA WholeRun ==
    ASSUME NoneIsApart, NEW w, IsWorkflow(w), NEW events, AreSaid(events),
           NEW y, y = AppliedUpTo(w, events)[Len(events)]
    PROVE  /\ IsWorkflow(y) /\ Follows(w, y)
           /\ \A i \in ItemId : \A o : (\A k \in 1..Len(events) : ~IsAbout(events[k], o))
                  => LinksTo(y, i, o) = LinksTo(w, i, o)
           /\ (\A k \in 1..Len(events) : events[k].type # "work_item.updated") =>
                  \A i \in Known(y) :
                      \/ i \in Known(w) /\ y.items[i].title = w.items[i].title
                      \/ \E k \in 1..Len(events) :
                           /\ events[k].type = "work_item.created" /\ events[k].item = i
                           /\ y.items[i].title = events[k].payload.title
           /\ \A j \in ItemId : (\A k \in 1..Len(events) : events[k].item # j) => y.items[j] = w.items[j]
           /\ \A e \in y.processed : e \in w.processed \/ \E k \in 1..Len(events) : e = events[k]
           /\ (OneManager(w) /\ \A k \in 1..Len(events) : ManagesKnowingly(events[k])) => OneManager(y)
<1> DEFINE r == AppliedUpTo(w, events)
           m == Len(events)
           a == 0
<1>1. m \in Nat /\ a \in 0..m /\ m \in a..m /\ r[a] = w /\ a + 1 = 1 /\ r[m] = y
    BY AppliedOneByOne DEF AreSaid
<1> HIDE DEF a
<1>2. Leaves(r[a], r[m], events, a, m)
    BY <1>1, RunFrom
<1> HIDE DEF r
<1>3. Leaves(w, y, events, a, m)
    BY <1>1, <1>2
<1> HIDE DEF m
<1> QED BY <1>1, <1>3 DEF Leaves, m

-----------------------------------------------------------------------------
(* Imports: what was applied has nothing to add.                           *)

\* The events of a fact, in order.
FactEvents(w, s, n) == Sorted(EventsOf(StepsOf(w, s.mapping, FactsOf(s)[n])), EventBefore)

LEMMA FactEventsAre ==
    ASSUME NoneIsApart, NEW w, NEW s, IsSnapshot(s), NEW n \in 1..Len(FactsOf(s))
    PROVE  /\ AreSaid(FactEvents(w, s, n))
           /\ \A k \in 1..Len(FactEvents(w, s, n)) :
                FactEvents(w, s, n)[k] \in EventsOf(StepsOf(w, s.mapping, FactsOf(s)[n]))
           /\ \A o : o # FactsOf(s)[n].object =>
                \A k \in 1..Len(FactEvents(w, s, n)) : ~IsAbout(FactEvents(w, s, n)[k], o)
           /\ FactApplied(w, s, n) = AppliedUpTo(w, FactEvents(w, s, n))[Len(FactEvents(w, s, n))]
<1> DEFINE f == FactsOf(s)[n]
           E == EventsOf(StepsOf(w, s.mapping, f))
           q == FactEvents(w, s, n)
<1>1. IsFact(f)
    BY SnapshotFacts
<1>2. AreOrderable(E) /\ \A e \in E : IsEventOf(e, s.mapping, f)
    BY <1>1, StepsAreOrderable
<1>3. q = Sorted(E, EventBefore)
    BY DEF FactEvents
<1> HIDE DEF E, f
<1>4. Len(q) \in Nat /\ \A k \in 1..Len(q) : q[k] \in E
    <2> HIDE DEF q
    <2>1. Len(Sorted(E, EventBefore)) \in Nat
          /\ \A k \in 1..Len(Sorted(E, EventBefore)) : Sorted(E, EventBefore)[k] \in E
        BY <1>2, SortedEvents
    <2> QED BY <1>3, <2>1
<1>5. FactApplied(w, s, n) = AppliedUpTo(w, q)[Len(q)]
    BY DEF FactApplied, Replayed, AppliedAll, FactEvents
<1> HIDE DEF q
<1>6. s.mapping.item \in ItemId
    BY DEF IsSnapshot
<1>7. AreSaid(q)
    BY <1>2, <1>4, <1>6 DEF AreSaid, IsEventOf
<1>8. \A o : o # f.object => \A k \in 1..Len(q) : ~IsAbout(q[k], o)
    BY <1>2, <1>4 DEF IsAbout, IsEventOf
<1> QED BY <1>4, <1>5, <1>7, <1>8 DEF q, E, f

\* What planning the first facts knows: the workflow it is made on, and the events
\* of these facts; of other objects it says nothing.
LEMMA FactsLeave ==
    ASSUME NoneIsApart, NEW w, NEW s, IsSnapshot(s), IsWorkflow(w)
    PROVE  \A n \in 0..Len(FactsOf(s)) :
             LET v == PlannedUpTo(w, s)[n]
             IN  /\ IsWorkflow(v)
                 /\ \A p \in v.processed :
                        p \in w.processed \/ p \in EventsOf(PlannedSteps(w, s))
                 /\ \A i \in ItemId : \A o : (\A k \in 1..n : FactsOf(s)[k].object # o)
                        => LinksTo(v, i, o) = LinksTo(w, i, o)
                 /\ Follows(w, v)
                 /\ (\A e \in EventsOf(PlannedSteps(w, s)) : e.type # "work_item.updated") =>
                        \A i \in Known(v) :
                            \/ i \in Known(w) /\ v.items[i].title = w.items[i].title
                            \/ \E e \in EventsOf(PlannedSteps(w, s)) :
                                 /\ e.type = "work_item.created" /\ e.item = i
                                 /\ v.items[i].title = e.payload.title
<1> DEFINE r == PlannedUpTo(w, s)
           m == Len(FactsOf(s))
           All == EventsOf(PlannedSteps(w, s))
           Left(v, n) ==
             /\ IsWorkflow(v)
             /\ \A p \in v.processed : p \in w.processed \/ p \in All
             /\ \A i \in ItemId : \A o : (\A k \in 1..n : FactsOf(s)[k].object # o)
                        => LinksTo(v, i, o) = LinksTo(w, i, o)
             /\ Follows(w, v)
             /\ (\A e \in All : e.type # "work_item.updated") =>
                        \A i \in Known(v) :
                            \/ i \in Known(w) /\ v.items[i].title = w.items[i].title
                            \/ \E e \in All :
                                 /\ e.type = "work_item.created" /\ e.item = i
                                 /\ v.items[i].title = e.payload.title
           S == {k \in Nat : k <= m => Left(r[k], k)}
<1>0. m \in Nat
    BY SnapshotFacts
<1>1. r[0] = w /\ \A n \in 1..m : r[n] = FactApplied(r[n - 1], s, n)
    BY <1>0, PlannedOneByOne
<1>2. 0 \in S
    <2>1. Left(w, 0)
        BY FollowsItself
    <2> HIDE DEF Left
    <2> QED BY <1>1, <2>1
<1>3. ASSUME NEW n \in Nat, n \in S PROVE n + 1 \in S
    <2> SUFFICES ASSUME n + 1 <= m PROVE Left(r[n + 1], n + 1)
        OBVIOUS
    <2> DEFINE u == r[n]
               v == r[n + 1]
               q == FactEvents(u, s, n + 1)
    <2>1. n + 1 \in 1..m /\ (n + 1) - 1 = n /\ Left(u, n)
        BY <1>3, <1>0
    <2>2. v = FactApplied(u, s, n + 1)
        BY <1>1, <2>1
    <2>3. /\ AreSaid(q)
          /\ \A k \in 1..Len(q) : q[k] \in EventsOf(StepsOf(u, s.mapping, FactsOf(s)[n + 1]))
          /\ \A o : o # FactsOf(s)[n + 1].object => \A k \in 1..Len(q) : ~IsAbout(q[k], o)
          /\ FactApplied(u, s, n + 1) = AppliedUpTo(u, q)[Len(q)]
        <3> HIDE DEF Left, All, S, u
        <3> QED BY <2>1, FactEventsAre
    <2>4. \A k \in 1..Len(q) : q[k] \in All
        <3>1. StepsOfFact(w, s, n + 1) = StepsOf(u, s.mapping, FactsOf(s)[n + 1])
            BY <2>1 DEF StepsOfFact
        <3> HIDE DEF u, q
        <3> QED BY <2>1, <2>3, <3>1, PlannedAreOrderable
    <2> HIDE DEF v, q
    <2>5. Len(q) \in 0..Len(q) /\ IsWorkflow(u)
        BY <2>1, <2>3 DEF AreSaid
    <2> HIDE DEF u
    <2>6. /\ IsWorkflow(v) /\ Follows(u, v)
          /\ \A p \in v.processed : p \in u.processed \/ \E k \in 1..Len(q) : p = q[k]
          /\ \A i \in ItemId : \A o : (\A k \in 1..Len(q) : ~IsAbout(q[k], o))
                => LinksTo(v, i, o) = LinksTo(u, i, o)
          /\ (\A k \in 1..Len(q) : q[k].type # "work_item.updated") =>
                \A i \in Known(v) :
                    \/ i \in Known(u) /\ v.items[i].title = u.items[i].title
                    \/ \E k \in 1..Len(q) :
                         /\ q[k].type = "work_item.created" /\ q[k].item = i
                         /\ v.items[i].title = q[k].payload.title
        <3>1. v = AppliedUpTo(u, q)[Len(q)]
            BY <2>2, <2>3
        <3> HIDE DEF Left, All, S
        <3> QED BY <2>3, <2>5, <3>1, WholeRun
    <2>7. \A p \in v.processed : p \in w.processed \/ p \in All
        BY <2>1, <2>4, <2>6 DEF u
    <2>8. ASSUME NEW i \in ItemId, NEW o, \A k \in 1..(n + 1) : FactsOf(s)[k].object # o
          PROVE  LinksTo(v, i, o) = LinksTo(w, i, o)
        <3>1. \A k \in 1..n : k \in 1..(n + 1)
            OBVIOUS
        <3>2. LinksTo(u, i, o) = LinksTo(w, i, o)
            BY <2>1, <2>8, <3>1 DEF u
        <3>3. o # FactsOf(s)[n + 1].object
            BY <2>1, <2>8
        <3> QED BY <2>3, <2>6, <3>2, <3>3
    <2>9. Follows(w, v)
        BY <2>1, <2>6, FollowsOn DEF u
    <2>10. ASSUME \A e \in All : e.type # "work_item.updated", NEW i \in Known(v)
           PROVE  \/ i \in Known(w) /\ v.items[i].title = w.items[i].title
                  \/ \E e \in All : /\ e.type = "work_item.created" /\ e.item = i
                                    /\ v.items[i].title = e.payload.title
        <3>1. \/ i \in Known(u) /\ v.items[i].title = u.items[i].title
              \/ \E k \in 1..Len(q) :
                    /\ q[k].type = "work_item.created" /\ q[k].item = i
                    /\ v.items[i].title = q[k].payload.title
            BY <2>4, <2>6, <2>10
        <3>2. i \in Known(u) =>
                \/ i \in Known(w) /\ u.items[i].title = w.items[i].title
                \/ \E e \in All : /\ e.type = "work_item.created" /\ e.item = i
                                  /\ u.items[i].title = e.payload.title
            BY <2>1, <2>10 DEF u
        <3> QED BY <2>4, <3>1, <3>2
    <2> QED BY <2>6, <2>7, <2>8, <2>9, <2>10 DEF v
<1>4. Nat \subseteq S
    <2> HIDE DEF S
    <2> QED BY <1>2, <1>3, InductiveSet
<1> HIDE DEF Left
<1>5. \A n \in 0..m : Left(r[n], n)
    BY <1>0, <1>4
<1> QED BY <1>5 DEF Left, r, All

LEMMA IdIsNotNone ==
    ASSUME NoneIsApart, NEW e, NEW m, NEW f, IsEventOf(e, m, f)
    PROVE  e.id # None
<1>1. e.id = <<e.type, m.item, f.object, f.rev, e.id[5]>>
    BY DEF IsEventOf
<1>2. ASSUME NEW a, NEW b, NEW c, NEW d, NEW g PROVE 1 \in DOMAIN <<a, b, c, d, g>>
    OBVIOUS
<1>3. 1 \in DOMAIN e.id
    BY <1>1, <1>2
<1> QED BY <1>3 DEF NoneIsApart

\* Every step has an action.
IsAction(a) == DOMAIN a = {"id", "kind", "reason", "event"}

LEMMA ActionsAre ==
    ASSUME NEW w, NEW m, NEW f, NEW t \in StepsOf(w, m, f)
    PROVE  IsAction(t.action)
<1> DEFINE Fine(steps) == \A u \in steps : IsAction(u.action)
<1>1. ASSUME NEW kind, NEW reason, NEW target PROVE Fine({Alone(m, f, kind, reason, target)})
    BY DEF Alone, Action, IsAction
<1>2. ASSUME NEW kind, NEW reason, NEW target, NEW e PROVE Fine({Step(m, f, kind, reason, target, e)})
    BY DEF Step, Action, IsAction
<1>3. ASSUME NEW A, NEW B, Fine(A), Fine(B) PROVE Fine(A \cup B)
    BY <1>3
<1>4. Fine(TitleSteps(w, m, f))
    <2>1. Fine({TitleStep(w, m, f)}) /\ Fine({})
        BY <1>2 DEF TitleStep
    <2> HIDE DEF Fine
    <2> QED BY <2>1, TitleStepsAre
<1>5. /\ Fine({CreateStep(m, f)}) /\ Fine({LinkStep(m, f)}) /\ Fine({BaselineStep(m, f)})
      /\ \A c : Fine({AdvanceStep(m, f, c)})
    <2> HIDE DEF Fine
    <2> QED BY <1>2 DEF CreateStep, LinkStep, BaselineStep, AdvanceStep, ObserveStep
<1> HIDE DEF Fine
<1>6. Fine(RefreshSteps(w, m, f, LinkIn(w, m, f).last))
    <2> DEFINE c == LinkIn(w, m, f).last
    <2> HIDE DEF c
    <2>1. Fine({AdvanceStep(m, f, c)} \cup TitleSteps(w, m, f))
        BY <1>3, <1>4, <1>5
    <2> QED BY <1>1, <2>1 DEF RefreshSteps, c
<1>7. Fine(IssueSteps(w, m, f))
    <2>1. Fine({LinkStep(m, f)} \cup TitleSteps(w, m, f)) /\ Fine({BaselineStep(m, f)} \cup TitleSteps(w, m, f))
        BY <1>3, <1>4, <1>5
    <2> QED BY <1>1, <1>5, <1>6, <2>1 DEF IssueSteps, LinkIn
<1>8. Fine(CandidateSteps(w, m, f))
    BY <1>1, <1>2 DEF CandidateSteps
<1>9. Fine(StepsOf(w, m, f))
    BY <1>7, <1>8 DEF StepsOf
<1> QED BY <1>9 DEF Fine

\* A plan without conflicts keeps all its events, and none of its steps is a conflict.
LEMMA NothingRefused ==
    ASSUME NoneIsApart, NEW p, IsPlanned(p), p.conflicts = {}
    PROVE  /\ KeptEvents(p) = EventsOf(PlannedSteps(p.base, p.snapshot))
           /\ \A t \in PlannedSteps(p.base, p.snapshot) : t.action.kind # "conflict"
<1> DEFINE w == p.base
           s == p.snapshot
           steps == PlannedSteps(w, s)
           E == EventsOf(steps)
           R == Rejections(w, E)
           actions == {Settled(t.action, R) : t \in steps}
<1>1. \A a \in actions : a.kind # "conflict"
    <2>1. Conflicts(actions) = {}
        BY PlanIs
    <2> HIDE DEF actions
    <2> QED BY <2>1 DEF Conflicts
<1>2. \A t \in steps : Settled(t.action, R).kind # "conflict"
    BY <1>1
<1>3. ASSUME NEW t \in steps
      PROVE  /\ IsAction(t.action)
             /\ t.event # None => t.action.event = t.event.id /\ t.action.event # None
    <2>1. PICK n \in 1..Len(FactsOf(s)) : t \in StepsOfFact(w, s, n)
        BY <1>3, SnapshotFacts DEF PlannedSteps, IsPlanned
    <2> DEFINE f == FactsOf(s)[n]
               u == PlannedUpTo(w, s)[n - 1]
    <2>2. IsFact(f) /\ t \in StepsOf(u, s.mapping, f)
        BY <2>1, SnapshotFacts DEF IsPlanned, StepsOfFact
    <2> HIDE DEF f, u
    <2>3. t.event # None => IsEventOf(t.event, s.mapping, f) /\ t.action.event = t.event.id
        BY <2>2, StepsAreTyped
    <2>4. t.event # None => t.event.id # None
        BY <2>3, IdIsNotNone
    <2>5. IsAction(t.action)
        BY <2>2, ActionsAre
    <2> QED BY <2>3, <2>4, <2>5
<1>4. ASSUME NEW t \in steps PROVE t.action.kind # "conflict"
    <2> DEFINE a == t.action
               mine == {y \in R : y.id = a.event}
    <2>1. IsAction(a) /\ Settled(a, R).kind # "conflict"
        BY <1>2, <1>3, <1>4
    <2>2. Settled(a, R) = a \/ \E reason : Settled(a, R) = [a EXCEPT !.kind = "conflict", !.event = None, !.reason = reason]
        <3> HIDE DEF R, a
        <3> QED BY DEF Settled
    <2> HIDE DEF R, a
    <2>3. \A reason : [a EXCEPT !.kind = "conflict", !.event = None, !.reason = reason].kind = "conflict"
        BY <2>1 DEF IsAction
    <2> QED BY <2>1, <2>2, <2>3 DEF a
<1>5. ASSUME NEW e \in E, NEW x \in R, x.id = e.id PROVE FALSE
    <2>1. PICK t \in steps : t.event # None /\ e = t.event
        BY EventsOfMembers
    <2> DEFINE mine == {y \in R : y.id = t.action.event}
               a == t.action
    <2>2. x \in mine /\ t.action.event # None /\ IsAction(a)
        BY <1>3, <1>5, <2>1
    <2>3. \E reason : Settled(a, R) = [a EXCEPT !.kind = "conflict", !.event = None, !.reason = reason]
        <3>1. mine # {} /\ a.event # None
            BY <2>2
        <3>2. Settled(a, R) = [a EXCEPT !.kind = "conflict", !.event = None,
                !.reason = IF (CHOOSE y \in mine : TRUE).code \in DirectConflicts
                           THEN (CHOOSE y \in mine : TRUE).code ELSE "DOMAIN_INVARIANT_VIOLATION"]
            <4> HIDE DEF R
            <4> QED BY <3>1 DEF Settled
        <3> HIDE DEF mine, R
        <3> QED BY <3>2
    <2>4. PICK reason : Settled(a, R) = [a EXCEPT !.kind = "conflict", !.event = None, !.reason = reason]
        BY <2>3
    <2> HIDE DEF a, R
    <2>5. Settled(a, R).kind = "conflict"
        BY <2>2, <2>4 DEF IsAction
    <2> QED BY <1>2, <2>5 DEF a, R
<1>6. KeptEvents(p) = E
    <2>1. KeptEvents(p) = {e \in E : \A x \in R : x.id # e.id}
        BY DEF KeptEvents
    <2> HIDE DEF E, R
    <2> QED BY <1>5, <2>1
<1> QED BY <1>4, <1>6

\* An issue has no event where its link was read then or later, or where it is what
\* another workflow, in which it had no event, says of it.
LEMMA HeldHasNoEvent ==
    ASSUME NoneIsApart, NEW v, IsWorkflow(v), NEW m, NEW f, IsFact(f), TypeOf[f.object] = "issue",
           m.item \in ItemId, Holds(v, m.item, f.object, f.at)
    PROVE  EventsOf(StepsOf(v, m, f)) = {}
<1> DEFINE i == m.item
           o == f.object
           steps == IssueSteps(v, m, f)
           link == LinkIn(v, m, f)
           owners == Owners(v, o)
<1>1. i \in Known(v) /\ f.at \in Nat
    BY DEF Holds
<1>2. PICK l \in v.items[i].links : l.object = o /\ ~l.legacy /\ f.at <= l.last.at
    BY DEF Holds
<1>3. IsItem(v.items[i])
    BY <1>1 DEF IsWorkflow
<1>4. link = l
    <2>1. l \in LinkOf(v, i, o) /\ \A k \in LinkOf(v, i, o) : k = l
        BY <1>2, <1>3 DEF LinkOf, IsItem
    <2> HIDE DEF i, o
    <2>2. (CHOOSE k \in LinkOf(v, i, o) : TRUE) = l
        BY <2>1
    <2> QED BY <2>2 DEF LinkIn, i, o
<1>5. owners # {}
    BY <1>1, <1>2 DEF Owners, LinkOf
<1>6. l.last.at \in Nat
    BY <1>2, <1>3 DEF IsItem, IsRich
<1>7. StepsOf(v, m, f) = steps
    BY DEF StepsOf
<1> HIDE DEF link, owners, steps
<1>8. \E t : steps = {t} /\ IsAlone(t)
    <2>1. ~(~(f.at < link.last.at) /\ f.at # link.last.at)
        BY <1>1, <1>2, <1>4, <1>6
    <2>2. ~link.legacy
        BY <1>2, <1>4
    <2>3. \/ \E t : steps = {t} /\ IsAlone(t)
          \/ i \notin Known(v) \/ owners = {} \/ link.legacy
          \/ ~(f.at < link.last.at) /\ f.at # link.last.at
        BY IssueCases DEF steps, owners, link
    <2> QED BY <1>1, <1>5, <2>1, <2>2, <2>3
<1> QED BY <1>7, <1>8, EventsOfMembers DEF IsAlone

LEMMA SkippedHasNoEvent ==
    ASSUME NEW u, NEW v, NEW m, NEW f, TypeOf[f.object] = "issue", m.item \in ItemId,
           \A j \in ItemId : LinksTo(v, j, f.object) = LinksTo(u, j, f.object),
           NEW t, StepsOf(u, m, f) = {t}, t.action.kind = "skip"
    PROVE  EventsOf(StepsOf(v, m, f)) = {}
<1> DEFINE i == m.item
           o == f.object
           link(w) == LinkIn(w, m, f)
<1>1. IssueSteps(u, m, f) = {t}
    BY DEF StepsOf
<1>2. \A w : LinkOf(w, i, o) = IF i \in Known(w) THEN LinksTo(w, i, o) ELSE LinkOf(w, i, o)
    BY DEF LinksTo
<1>3. \A x : x.action.kind = "skip" =>
        x # CreateStep(m, f) /\ \A w : x # LinkStep(m, f) /\ x # BaselineStep(m, f)
           /\ \A c : x # AdvanceStep(m, f, c)
    BY DEF CreateStep, LinkStep, BaselineStep, AdvanceStep, ObserveStep, Step, Action
<1>4. /\ i \in Known(u) /\ Owners(u, o) # {} /\ Owners(u, o) \ {i} = {} /\ ~link(u).legacy
      /\ \/ f.rev = link(u).last.rev /\ f.title = link(u).last.title
         \/ f.at < link(u).last.at
    <2> HIDE DEF i, o
    <2>1. \/ /\ i \in Known(u) /\ Owners(u, o) # {} /\ Owners(u, o) \ {i} = {} /\ ~link(u).legacy
             /\ \/ f.rev = link(u).last.rev /\ f.title = link(u).last.title
                \/ f.at < link(u).last.at
          \/ CreateStep(m, f) \in {t} \/ LinkStep(m, f) \in {t} \/ BaselineStep(m, f) \in {t}
          \/ \E c : AdvanceStep(m, f, c) \in {t}
        BY <1>1, IssueCases DEF i, o
    <2> QED BY <1>3, <2>1
<1>5. i \in Owners(u, o)
    BY <1>4
<1>6. LinkOf(u, i, o) # {} /\ LinksTo(u, i, o) = LinkOf(u, i, o)
    BY <1>4, <1>5 DEF Owners, LinksTo
<1>7. LinksTo(v, i, o) = LinkOf(u, i, o)
    BY <1>6
<1>8. i \in Known(v) /\ LinkOf(v, i, o) = LinkOf(u, i, o)
    BY <1>6, <1>7 DEF LinksTo
<1>9. i \in Owners(v, o) /\ link(v) = link(u)
    BY <1>6, <1>8 DEF Owners, LinkIn
<1> DEFINE steps == IssueSteps(v, m, f)
<1>10. StepsOf(v, m, f) = steps
    BY DEF StepsOf
<1>11. \E x : steps = {x} /\ IsAlone(x)
    <2>1. \/ \E x : steps = {x} /\ IsAlone(x)
          \/ i \notin Known(v) \/ Owners(v, o) = {} \/ link(v).legacy
          \/ f.rev # link(v).last.rev /\ ~(f.at < link(v).last.at)
        BY IssueCases
    <2> HIDE DEF steps, link, i, o
    <2> QED BY <1>4, <1>8, <1>9, <2>1
<1> HIDE DEF steps
<1> QED BY <1>10, <1>11, EventsOfMembers DEF IsAlone

\* A fact about delivery that is known under one of its ids has no event.
LEMMA KnownHasNoEvent ==
    ASSUME NoneIsApart, NEW v, NEW m, NEW f, IsFact(f), TypeOf[f.object] # "issue",
           \/ Classified(v, CandidateEvent(m, f)) # "none"
           \/ Classified(v, CandidateImported(m, f)) # "none"
    PROVE  EventsOf(StepsOf(v, m, f)) = {}
<1>1. StepsOf(v, m, f) = CandidateSteps(v, m, f)
    BY DEF StepsOf
<1>2. \E t : CandidateSteps(v, m, f) = {t} /\ IsAlone(t)
    BY CandidateCases
<1> QED BY <1>1, <1>2, EventsOfMembers DEF IsAlone

\* A step without an event is a skip or a conflict.
LEMMA AloneIsSkip ==
    ASSUME NoneIsApart, NEW w, NEW m, NEW f, IsFact(f), EventsOf(StepsOf(w, m, f)) = {},
           \A t \in StepsOf(w, m, f) : t.action.kind # "conflict"
    PROVE  \E t : StepsOf(w, m, f) = {t} /\ t.action.kind = "skip"
<1>1. \A t \in StepsOf(w, m, f) : t.event = None
    BY EventsOfMembers
<1>2. CASE TypeOf[f.object] = "issue"
    <2>1. /\ CreateStep(m, f).event # None /\ LinkStep(m, f).event # None
          /\ BaselineStep(m, f).event # None /\ \A c : AdvanceStep(m, f, c).event # None
        BY <1>2, CreateStepIs, LinkStepIs, BaselineStepIs, AdvanceStepIs
    <2>2. StepsOf(w, m, f) = IssueSteps(w, m, f)
        BY <1>2 DEF StepsOf
    <2>3. \/ /\ \E t : StepsOf(w, m, f) = {t} /\ IsAlone(t)
             /\ \A t \in StepsOf(w, m, f) : t.action.kind \in {"skip", "conflict"}
          \/ CreateStep(m, f) \in StepsOf(w, m, f) \/ LinkStep(m, f) \in StepsOf(w, m, f)
          \/ BaselineStep(m, f) \in StepsOf(w, m, f) \/ \E c : AdvanceStep(m, f, c) \in StepsOf(w, m, f)
        BY <2>2, IssueCases
    <2> QED BY <1>1, <2>1, <2>3
<1>3. CASE TypeOf[f.object] # "issue"
    <2>1. StepsOf(w, m, f) = CandidateSteps(w, m, f)
        BY <1>3 DEF StepsOf
    <2>2. \/ /\ \E t : StepsOf(w, m, f) = {t} /\ IsAlone(t)
             /\ \A t \in StepsOf(w, m, f) : t.action.kind \in {"skip", "conflict"}
          \/ \E t : StepsOf(w, m, f) = {t} /\ t.event # None
        BY <2>1, CandidateCases
    <2> QED BY <1>1, <2>2
<1> QED BY <1>2, <1>3

\* An issue's event leaves a link that was read then.
LEMMA EventHolds ==
    ASSUME NoneIsApart, NEW u, NEW v, NEW m, NEW f, IsFact(f), TypeOf[f.object] = "issue",
           Remembered(v), EventsOf(StepsOf(u, m, f)) # {}, EventsOf(StepsOf(u, m, f)) \subseteq v.processed
    PROVE  Holds(v, m.item, f.object, f.at)
<1> DEFINE Says(t) ==
        /\ t.event # None /\ t.event.item = m.item
        /\ \/ /\ t.event.type \in {"work_item.created", "external_link.linked"}
              /\ ~t.event.payload.link.legacy /\ t.event.payload.link.object = f.object
              /\ t.event.payload.link.last.at = f.at
           \/ /\ t.event.type = "external_link.observed"
              /\ t.event.payload.object = f.object /\ t.event.payload.observation.at = f.at
<1>1. /\ ~RichLinkOf(m, f).legacy /\ RichLinkOf(m, f).object = f.object
      /\ RichLinkOf(m, f).last.at = f.at /\ ObservationOf(f).at = f.at
    <2>1. f.at \in Nat /\ ObservationOf(f).at = f.at
        BY DEF IsFact, ObservationOf
    <2>2. /\ IsRich(RichLinkOf(m, f)) /\ RichLinkOf(m, f).object = f.object
          /\ RichLinkOf(m, f).last.at = f.at
        BY <2>1, RichLinkFields
    <2> QED BY <2>1, <2>2 DEF IsRich
<1>2. Says(CreateStep(m, f))
    <2>1. /\ CreateStep(m, f).event # None /\ CreateStep(m, f).event.type = "work_item.created"
          /\ CreateStep(m, f).event.payload.link = RichLinkOf(m, f)
          /\ CreateStep(m, f).event.item = m.item
        BY CreateStepIs DEF IsEventOf
    <2> QED BY <1>1, <2>1
<1>3. Says(LinkStep(m, f))
    <2>1. /\ LinkStep(m, f).event # None /\ LinkStep(m, f).event.type = "external_link.linked"
          /\ LinkStep(m, f).event.payload.link = RichLinkOf(m, f)
          /\ LinkStep(m, f).event.item = m.item
        BY LinkStepIs DEF IsEventOf
    <2> QED BY <1>1, <2>1
<1>4. Says(BaselineStep(m, f))
    <2>1. /\ BaselineStep(m, f).event # None /\ BaselineStep(m, f).event.type = "external_link.observed"
          /\ BaselineStep(m, f).event.payload.object = f.object
          /\ BaselineStep(m, f).event.payload.observation = ObservationOf(f)
          /\ BaselineStep(m, f).event.item = m.item
        BY BaselineStepIs DEF IsEventOf
    <2> QED BY <1>1, <2>1
<1>5. ASSUME NEW c PROVE Says(AdvanceStep(m, f, c))
    <2>1. /\ AdvanceStep(m, f, c).event # None /\ AdvanceStep(m, f, c).event.type = "external_link.observed"
          /\ AdvanceStep(m, f, c).event.payload.object = f.object
          /\ AdvanceStep(m, f, c).event.payload.observation = ObservationOf(f)
          /\ AdvanceStep(m, f, c).event.item = m.item
        <3> DEFINE t == AdvanceStep(m, f, c)
        <3>1. /\ t.event # None /\ t.event.type = "external_link.observed" /\ IsEventOf(t.event, m, f)
              /\ t.event.payload.object = f.object /\ t.event.payload.observation = ObservationOf(f)
            BY AdvanceStepIs
        <3> HIDE DEF t
        <3> QED BY <3>1 DEF IsEventOf, t
    <2> QED BY <1>1, <2>1
<1> HIDE DEF Says
<1>6. \E t \in StepsOf(u, m, f) : Says(t)
    <2>1. StepsOf(u, m, f) = IssueSteps(u, m, f)
        BY DEF StepsOf
    <2>2. \/ \E t : StepsOf(u, m, f) = {t} /\ IsAlone(t)
          \/ CreateStep(m, f) \in StepsOf(u, m, f) \/ LinkStep(m, f) \in StepsOf(u, m, f)
          \/ BaselineStep(m, f) \in StepsOf(u, m, f) \/ \E c : AdvanceStep(m, f, c) \in StepsOf(u, m, f)
        BY <2>1, IssueCases
    <2>3. ~\E t : StepsOf(u, m, f) = {t} /\ IsAlone(t)
        BY EventsOfMembers DEF IsAlone
    <2> QED BY <1>2, <1>3, <1>4, <1>5, <2>2, <2>3
<1>7. PICK t \in StepsOf(u, m, f) : Says(t)
    BY <1>6
<1>8. t.event \in v.processed
    BY <1>7, EventsOfMembers DEF Says
<1> QED BY <1>7, <1>8 DEF Says, Remembered

\* Applied as planned, on the workflow it was planned on, every event of a plan is kept.
LEMMA AllProcessed ==
    ASSUME NoneIsApart, NEW p, IsPlanned(p), p.conflicts = {}, Projects(p, p.base)
    PROVE  LET v == AppliedAll(p.base, p.events)
               E == EventsOf(PlannedSteps(p.base, p.snapshot))
           IN  /\ E \subseteq v.processed /\ p.base.processed \subseteq v.processed
               /\ IsWorkflow(v)
               /\ Remembered(p.base) => Remembered(v)
               /\ \A i \in ItemId : \A o : (\A e \in E : ~IsAbout(e, o))
                    => LinksTo(v, i, o) = LinksTo(p.base, i, o)
<1> DEFINE w == p.base
           q == p.events
           v == AppliedUpTo(w, q)[Len(q)]
           E == EventsOf(PlannedSteps(w, p.snapshot))
<1>1. AreSaid(q) /\ Len(q) \in 0..Len(q) /\ IsWorkflow(w)
    <2>1. AreSaid(q)
        BY PlanAreSaid
    <2> HIDE DEF q
    <2> QED BY <2>1 DEF AreSaid, IsPlanned
<1>2. /\ DOMAIN q = 1..Len(q)
      /\ \A e \in E : \E n \in 1..Len(q) : q[n] = e
      /\ \A n \in 1..Len(q) : q[n] \in E
    BY PlanEventsAre, NothingRefused
<1>3. \A k \in 1..Len(q) : Refusal(AppliedUpTo(w, q)[k - 1], q[k]) = "none"
    BY <1>2 DEF Projects
<1>4. AppliedAll(w, q) = v
    BY DEF AppliedAll
<1> HIDE DEF w, q, E
<1>5. /\ IsWorkflow(v) /\ w.processed \subseteq v.processed
      /\ Remembered(w) => Remembered(v)
      /\ \A i \in ItemId : \A o : (\A k \in 1..Len(q) : ~IsAbout(q[k], o))
            => LinksTo(v, i, o) = LinksTo(w, i, o)
      /\ (\A k \in 1..Len(q) : Refusal(AppliedUpTo(w, q)[k - 1], q[k]) = "none")
            => \A k \in 1..Len(q) : q[k] \in v.processed
    <2>1. \A n \in 0..Len(q) :
             LET x == AppliedUpTo(w, q)[n]
             IN  /\ IsWorkflow(x) /\ Follows(w, x)
                 /\ Remembered(w) => Remembered(x)
                 /\ w.processed \subseteq x.processed
                 /\ \A e \in x.processed : e \in w.processed \/ \E k \in 1..Len(q) : e = q[k]
                 /\ \A i \in ItemId : \A o : (\A k \in 1..Len(q) : ~IsAbout(q[k], o))
                        => LinksTo(x, i, o) = LinksTo(w, i, o)
                 /\ (\A k \in 1..n : Refusal(AppliedUpTo(w, q)[k - 1], q[k]) = "none")
                        => \A k \in 1..n : q[k] \in x.processed
        BY <1>1, EventsLeave
    <2> QED BY <1>1, <2>1
<1> HIDE DEF v
<1>6. E \subseteq v.processed
    BY <1>2, <1>3, <1>5
<1>7. ASSUME NEW i \in ItemId, NEW o, \A e \in E : ~IsAbout(e, o)
      PROVE  LinksTo(v, i, o) = LinksTo(w, i, o)
    BY <1>2, <1>5, <1>7
<1> QED BY <1>4, <1>5, <1>6, <1>7 DEF w, q, E

LEMMA AppliedFactHasNoEvent ==
    ASSUME NoneIsApart, NEW p, IsPlanned(p), p.conflicts = {}, Projects(p, p.base),
           Remembered(p.base), NEW n \in 1..Len(FactsOf(p.snapshot))
    PROVE  EventsOf(StepsOf(AppliedAll(p.base, p.events), p.snapshot.mapping,
                            FactsOf(p.snapshot)[n])) = {}
<1> DEFINE w == p.base
           s == p.snapshot
           m == s.mapping
           f == FactsOf(s)[n]
           u == PlannedUpTo(w, s)[n - 1]
           v == AppliedAll(w, p.events)
           E == EventsOf(PlannedSteps(w, s))
           mine == EventsOf(StepsOf(u, m, f))
<1>0. IsSnapshot(s) /\ IsWorkflow(w) /\ m.item \in ItemId
    BY DEF IsPlanned, IsSnapshot
<1>1. /\ E \subseteq v.processed /\ w.processed \subseteq v.processed /\ IsWorkflow(v) /\ Remembered(v)
      /\ \A i \in ItemId : \A o : (\A e \in E : ~IsAbout(e, o)) => LinksTo(v, i, o) = LinksTo(w, i, o)
    BY AllProcessed
<1>2. Len(FactsOf(s)) \in Nat /\ n - 1 \in 0..Len(FactsOf(s)) /\ IsFact(f)
    BY <1>0, SnapshotFacts
<1>3. StepsOfFact(w, s, n) = StepsOf(u, m, f)
    BY DEF StepsOfFact
<1>4. mine \subseteq E
    BY <1>0, <1>3, PlannedAreOrderable
<1>5. /\ IsWorkflow(u)
      /\ \A x \in u.processed : x \in w.processed \/ x \in E
      /\ \A i \in ItemId : \A o : (\A k \in 1..(n - 1) : FactsOf(s)[k].object # o)
            => LinksTo(u, i, o) = LinksTo(w, i, o)
    BY <1>0, <1>2, FactsLeave
<1>6. \A t \in StepsOf(u, m, f) : t.action.kind # "conflict"
    <2>1. \A t \in StepsOf(u, m, f) : t \in PlannedSteps(w, s)
        BY <1>0, <1>3, SnapshotFacts DEF PlannedSteps
    <2> QED BY <2>1, NothingRefused
<1>7. CASE TypeOf[f.object] = "issue" /\ mine # {}
    <2> HIDE DEF f, m, u, v
    <2>1. mine \subseteq v.processed
        BY <1>1, <1>4
    <2>2. Holds(v, m.item, f.object, f.at)
        BY <1>1, <1>2, <1>7, <2>1, EventHolds
    <2>3. EventsOf(StepsOf(v, m, f)) = {}
        BY <1>0, <1>1, <1>2, <1>7, <2>2, HeldHasNoEvent
    <2> QED BY <2>3 DEF f, m, v, w, s
<1>8. CASE TypeOf[f.object] = "issue" /\ mine = {}
    <2>1. \A k \in 1..Len(FactsOf(s)) : FactsOf(s)[k].object = f.object => k = n
        BY <1>0, SnapshotFacts
    <2>2. \A k \in 1..(n - 1) : FactsOf(s)[k].object # f.object
        <3>1. \A k \in 1..(n - 1) : k \in 1..Len(FactsOf(s)) /\ k # n
            BY <1>2
        <3> QED BY <2>1, <3>1
    <2>3. ASSUME NEW e \in E PROVE ~IsAbout(e, f.object)
        <3>1. PICK k \in 1..Len(FactsOf(s)) : e \in EventsOf(StepsOfFact(w, s, k))
            BY <1>0, PlannedAreOrderable
        <3>2. k # n
            BY <1>3, <1>8, <3>1
        <3>3. IsEventOf(e, m, FactsOf(s)[k])
            BY <1>0, <3>1, PlannedAreOrderable
        <3>4. FactsOf(s)[k].object # f.object
            BY <2>1, <3>2
        <3> HIDE DEF f, m, s
        <3> QED BY <3>3, <3>4 DEF IsEventOf, IsAbout
    <2> HIDE DEF f, m, u, v, E, w
    <2>4. \A j \in ItemId : LinksTo(v, j, f.object) = LinksTo(u, j, f.object)
        BY <1>1, <1>5, <2>2, <2>3
    <2>5. PICK t : StepsOf(u, m, f) = {t} /\ t.action.kind = "skip"
        BY <1>2, <1>6, <1>8, AloneIsSkip
    <2>6. EventsOf(StepsOf(v, m, f)) = {}
        BY <1>0, <1>8, <2>4, <2>5, SkippedHasNoEvent
    <2> QED BY <2>6 DEF f, m, v, w, s
<1>9. CASE TypeOf[f.object] # "issue"
    <2> DEFINE a == CandidateEvent(m, f)
               b == CandidateImported(m, f)
    <2>1. u.processed \subseteq v.processed
        BY <1>1, <1>5
    <2>2. \A e : Classified(u, e) # "none" => Classified(v, e) # "none"
        BY <2>1, KnownById
    <2> HIDE DEF f, m, u, v, E, w
    <2>3. Classified(v, a) # "none" \/ Classified(v, b) # "none"
        <3>1. StepsOf(u, m, f) = CandidateSteps(u, m, f)
            BY <1>9 DEF StepsOf
        <3>2. \/ Classified(u, a) # "none" \/ Classified(u, b) # "none"
              \/ \E t : CandidateSteps(u, m, f) = {t} /\ t.event = b /\ t.event # None
            BY <1>2, CandidateCases
        <3>3. CASE \E t : CandidateSteps(u, m, f) = {t} /\ t.event = b /\ t.event # None
            <4>1. b \in mine
                BY <3>1, <3>3, EventsOfMembers
            <4>2. b \in v.processed
                BY <1>1, <1>4, <4>1
            <4> QED BY <4>2, KnownById
        <3> QED BY <2>2, <3>2, <3>3
    <2>4. EventsOf(StepsOf(v, m, f)) = {}
        BY <1>2, <1>9, <2>3, KnownHasNoEvent
    <2> QED BY <2>4 DEF f, m, v, w, s
<1> QED BY <1>7, <1>8, <1>9

\* Nothing to apply changes nothing.
LEMMA NothingReplayed ==
    ASSUME NEW w
    PROVE  Sorted({}, EventBefore) = <<>> /\ Replayed(w, {}) = w
<1> DEFINE q == Sorted({}, EventBefore)
<1>1. Cardinality({}) = 0 /\ 1..0 = {}
    BY FS_EmptySet
<1>2. q = <<>>
    BY <1>1 DEF Sorted
<1>3. Replayed(w, {}) = AppliedUpTo(w, q)[Len(q)]
    BY DEF Replayed, AppliedAll
<1> HIDE DEF q
<1>4. Len(q) = 0 /\ Len(q) \in Nat
    BY <1>2
<1>5. AppliedUpTo(w, q)[0] = w
    BY <1>4, AppliedOneByOne
<1> QED BY <1>2, <1>3, <1>4, <1>5 DEF q

LEMMA NothingToAdd ==
    ASSUME NoneIsApart, NEW v, NEW s, IsSnapshot(s), NEW b,
           \A n \in 1..Len(FactsOf(s)) : EventsOf(StepsOf(v, s.mapping, FactsOf(s)[n])) = {}
    PROVE  PlanOf(s, v, b).events = <<>>
<1> DEFINE r == PlannedUpTo(v, s)
           m == Len(FactsOf(s))
           S == {k \in Nat : k <= m => r[k] = v}
<1>0. m \in Nat
    BY SnapshotFacts
<1>1. r[0] = v /\ \A n \in 1..m : r[n] = FactApplied(r[n - 1], s, n)
    BY <1>0, PlannedOneByOne
<1> HIDE DEF r
<1>2. 0 \in S
    BY <1>1
<1>3. ASSUME NEW n \in Nat, n \in S PROVE n + 1 \in S
    <2> SUFFICES ASSUME n + 1 <= m PROVE r[n + 1] = v
        OBVIOUS
    <2>1. n + 1 \in 1..m /\ (n + 1) - 1 = n /\ r[n] = v
        BY <1>3, <1>0
    <2>2. FactApplied(v, s, n + 1) = Replayed(v, {})
        BY <2>1 DEF FactApplied
    <2> QED BY <1>1, <2>1, <2>2, NothingReplayed
<1>4. Nat \subseteq S
    <2> HIDE DEF S
    <2> QED BY <1>2, <1>3, InductiveSet
<1>5. \A n \in 1..m : r[n - 1] = v
    <2>1. \A n \in 1..m : n - 1 \in Nat /\ n - 1 <= m
        BY <1>0
    <2> QED BY <1>4, <2>1
<1>6. \A n \in 1..m : EventsOf(StepsOfFact(v, s, n)) = {}
    BY <1>5 DEF StepsOfFact, r
<1>7. EventsOf(PlannedSteps(v, s)) = {}
    BY <1>6, PlannedAreOrderable
<1> DEFINE events == EventsOf(PlannedSteps(v, s))
<1>8. PlanOf(s, v, b).events = Sorted({e \in events : \A x \in Rejections(v, events) : x.id # e.id}, EventBefore)
    BY DEF PlanOf, PlanOfSteps, PlanWithout
<1> HIDE DEF events
<1>9. {e \in events : \A x \in Rejections(v, events) : x.id # e.id} = {}
    BY <1>7 DEF events
<1> QED BY <1>8, <1>9, NothingReplayed

\* snapshot-import.ts, docs/specs/0004: what was applied is represented. The same snapshot,
\* previewed again on the workflow the apply has left, has nothing to add; for any objects,
\* histories, mappings and policies, and whatever was imported or appended before.
THEOREM AppliedSnapshotsAreRepresented ==
    ASSUME NoneIsApart PROVE ImportSpec => AppliedIsRepresented
<1>1. ImportInit => ImportInv
    BY ImportInitHolds DEF ImportInit
<1>2. ImportInv /\ [ImportNext]_importVars => ImportInv'
    BY ImportStepKeeps
<1>3. ASSUME ImportInv, Commit, NEW p \in receipts' \ receipts
      PROVE  PlanOf(p.snapshot, workflow', p.binding).events = <<>>
    <2>1. /\ applying # None /\ p = applying.plan
          /\ workflow' = AppliedAll(workflow, applying.plan.events)
        BY <1>3 DEF Commit
    <2>2. /\ IsPlanned(p) /\ p.base = workflow /\ p.conflicts = {} /\ Projects(p, p.base)
          /\ Remembered(p.base)
        BY <1>3, <2>1 DEF ImportInv, IsAtWork
    <2>3. workflow' = AppliedAll(p.base, p.events) /\ IsSnapshot(p.snapshot)
        BY <2>1, <2>2 DEF IsPlanned
    <2>4. \A n \in 1..Len(FactsOf(p.snapshot)) :
            EventsOf(StepsOf(AppliedAll(p.base, p.events), p.snapshot.mapping, FactsOf(p.snapshot)[n])) = {}
        BY <2>2, AppliedFactHasNoEvent
    <2>5. PlanOf(p.snapshot, AppliedAll(p.base, p.events), p.binding).events = <<>>
        BY <2>3, <2>4, NothingToAdd
    <2> QED BY <2>3, <2>5
<1>4. ASSUME [ImportNext]_importVars, ~Commit PROVE receipts' \subseteq receipts
    BY <1>4 DEF ImportNext, importVars, Preview, BeginApply, Discard, Edit, Verify, Abandon,
        SetPolicy, AppendEvent
<1>5. ImportInv /\ [ImportNext]_importVars =>
        [\A p \in receipts' \ receipts : PlanOf(p.snapshot, workflow', p.binding).events = <<>>]_importVars
    BY <1>3, <1>4
<1> QED BY <1>1, <1>2, <1>5, PTL DEF ImportSpec, AppliedIsRepresented

\* A fact without a title update finds its title there, or does not manage it.
IsTitled(u, m, f) ==
    /\ m.item \in Known(u)
    /\ (\A g \in EventsOf(StepsOf(u, m, f)) : g.type # "work_item.updated")
            => ~m.managed \/ u.items[m.item].title = f.title

IsCreation(e, m, f) ==
    e.type = "work_item.created" /\ e.payload.link = RichLinkOf(m, f) /\ e.payload.title = f.title

IsLinking(e, u, m, f) ==
    e.type = "external_link.linked" /\ e.payload.link = RichLinkOf(m, f) /\ IsTitled(u, m, f)

IsObservation(e, u, m, f) ==
    /\ e.type = "external_link.observed" /\ e.payload.observation = ObservationOf(f)
    /\ e.payload.object = f.object
    /\ \/ e.payload.expected = None /\ e.payload.managed = m.managed
       \/ ~LinkIn(u, m, f).legacy /\ LinkIn(u, m, f).managed = m.managed
    /\ IsTitled(u, m, f)

IsUpdate(e, m, f) ==
    /\ e.type = "work_item.updated" /\ e.payload.object = f.object /\ e.payload.after = f.title
    /\ e.at = f.at

\* The events of an issue: one of its link, and possibly one of the title.
LEMMA IssueEvents ==
    ASSUME NoneIsApart, NEW u, NEW m, NEW f, IsFact(f), TypeOf[f.object] = "issue",
           EventsOf(StepsOf(u, m, f)) # {}
    PROVE  \E e : /\ IsCreation(e, m, f) \/ IsLinking(e, u, m, f) \/ IsObservation(e, u, m, f)
                  /\ e \in EventsOf(StepsOf(u, m, f))
                  /\ \A g \in EventsOf(StepsOf(u, m, f)) : g = e \/ IsUpdate(g, m, f)
<1> DEFINE E == EventsOf(StepsOf(u, m, f))
           Good(s, e) == IsCreation(e, m, f) \/ IsLinking(e, u, m, f) \/ IsObservation(e, u, m, f)
           Goal == \E e : /\ IsCreation(e, m, f) \/ IsLinking(e, u, m, f) \/ IsObservation(e, u, m, f)
                          /\ e \in E /\ \A g \in E : g = e \/ IsUpdate(g, m, f)
<1>1. StepsOf(u, m, f) = IssueSteps(u, m, f)
    BY DEF StepsOf
<1>2. ~\E t : StepsOf(u, m, f) = {t} /\ IsAlone(t)
    BY EventsOfMembers DEF IsAlone
<1>3. IsUpdate(TitleStep(u, m, f).event, m, f) /\ TitleStep(u, m, f).event # None
    <2>1. LET e == TitleStep(u, m, f).event
          IN  /\ e.type = "work_item.updated" /\ e.payload.object = f.object
              /\ e.payload.after = f.title /\ e # None
        BY TitleStepIs
    <2>2. TitleStep(u, m, f).event.at = f.at
        BY DEF TitleStep, Step, ImportedEvent
    <2> QED BY <2>1, <2>2 DEF IsUpdate
<1>4. ASSUME NEW t, t.event # None, StepsOf(u, m, f) = {t} \cup TitleSteps(u, m, f)
      PROVE  /\ t.event \in E /\ \A g \in E : g = t.event \/ IsUpdate(g, m, f)
             /\ m.item \in Known(u) => IsTitled(u, m, f)
    <2>1. TitleSteps(u, m, f) =
             IF ~m.managed \/ u.items[m.item].title = f.title THEN {} ELSE {TitleStep(u, m, f)}
        BY TitleStepsAre
    <2>2. \A x : x \in StepsOf(u, m, f) => x = t \/ x = TitleStep(u, m, f)
        BY <1>4, <2>1
    <2>3. t.event \in E /\ \A g \in E : g = t.event \/ g = TitleStep(u, m, f).event
        BY <1>4, <2>2, EventsOfMembers
    <2>4. ~(~m.managed \/ u.items[m.item].title = f.title) => TitleStep(u, m, f).event \in E
        BY <1>3, <1>4, <2>1, EventsOfMembers
    <2>5. TitleStep(u, m, f).event.type = "work_item.updated"
        BY <1>3 DEF IsUpdate
    <2> HIDE DEF E
    <2>6. m.item \in Known(u) => IsTitled(u, m, f)
        BY <2>4, <2>5 DEF IsTitled, E
    <2> QED BY <1>3, <2>3, <2>6
<1>5. CASE StepsOf(u, m, f) = {CreateStep(m, f)}
    <2> DEFINE t == CreateStep(m, f)
    <2>1. t.event # None /\ IsCreation(t.event, m, f)
        BY CreateStepIs DEF IsCreation
    <2>2. t.event \in E /\ \A g \in E : g = t.event
        BY <1>5, <2>1, EventsOfMembers
    <2> QED BY <2>1, <2>2
<1>6. CASE m.item \in Known(u) /\ StepsOf(u, m, f) = {LinkStep(m, f)} \cup TitleSteps(u, m, f)
    <2> DEFINE t == LinkStep(m, f)
    <2>1. t.event # None /\ t.event.type = "external_link.linked" /\ t.event.payload.link = RichLinkOf(m, f)
        BY LinkStepIs
    <2> HIDE DEF t
    <2>2. /\ t.event \in E /\ \A g \in E : g = t.event \/ IsUpdate(g, m, f)
          /\ IsTitled(u, m, f)
        BY <1>4, <1>6, <2>1 DEF t
    <2>3. IsLinking(t.event, u, m, f)
        BY <2>1, <2>2 DEF IsLinking
    <2> QED BY <2>2, <2>3
<1>7. CASE m.item \in Known(u) /\ StepsOf(u, m, f) = {BaselineStep(m, f)} \cup TitleSteps(u, m, f)
    <2> DEFINE t == BaselineStep(m, f)
    <2>1. /\ t.event # None /\ t.event.type = "external_link.observed"
          /\ t.event.payload.object = f.object /\ t.event.payload.observation = ObservationOf(f)
          /\ t.event.payload.expected = None /\ t.event.payload.managed = m.managed
        BY BaselineStepIs
    <2> HIDE DEF t
    <2>2. /\ t.event \in E /\ \A g \in E : g = t.event \/ IsUpdate(g, m, f)
          /\ IsTitled(u, m, f)
        BY <1>4, <1>7, <2>1 DEF t
    <2>3. IsObservation(t.event, u, m, f)
        BY <2>1, <2>2 DEF IsObservation
    <2> QED BY <2>2, <2>3
<1>8. CASE /\ m.item \in Known(u) /\ ~LinkIn(u, m, f).legacy /\ LinkIn(u, m, f).managed = m.managed
           /\ StepsOf(u, m, f) = {AdvanceStep(m, f, LinkIn(u, m, f).last)} \cup TitleSteps(u, m, f)
    <2> DEFINE t == AdvanceStep(m, f, LinkIn(u, m, f).last)
    <2>1. /\ t.event # None /\ t.event.type = "external_link.observed"
          /\ t.event.payload.object = f.object /\ t.event.payload.observation = ObservationOf(f)
        BY AdvanceStepIs
    <2> HIDE DEF t
    <2>2. /\ t.event \in E /\ \A g \in E : g = t.event \/ IsUpdate(g, m, f)
          /\ IsTitled(u, m, f)
        BY <1>4, <1>8, <2>1 DEF t
    <2>3. IsObservation(t.event, u, m, f)
        BY <1>8, <2>1, <2>2 DEF IsObservation
    <2> QED BY <2>2, <2>3
<1>9. \/ StepsOf(u, m, f) = {CreateStep(m, f)}
      \/ m.item \in Known(u) /\ StepsOf(u, m, f) = {LinkStep(m, f)} \cup TitleSteps(u, m, f)
      \/ m.item \in Known(u) /\ StepsOf(u, m, f) = {BaselineStep(m, f)} \cup TitleSteps(u, m, f)
      \/ /\ m.item \in Known(u) /\ ~LinkIn(u, m, f).legacy /\ LinkIn(u, m, f).managed = m.managed
         /\ StepsOf(u, m, f) = {AdvanceStep(m, f, LinkIn(u, m, f).last)} \cup TitleSteps(u, m, f)
    BY <1>1, <1>2, IssueCases
<1> QED BY <1>5, <1>6, <1>7, <1>8, <1>9

\* The events of other facts.
LEMMA OtherEvents ==
    ASSUME NoneIsApart, NEW u, NEW m, NEW f, IsFact(f), TypeOf[f.object] # "issue",
           NEW e \in EventsOf(StepsOf(u, m, f))
    PROVE  e.type \in {"artifact.linked", "evidence.recorded"}
<1>1. StepsOf(u, m, f) = CandidateSteps(u, m, f)
    BY DEF StepsOf
<1>2. PICK t \in CandidateSteps(u, m, f) : t.event # None /\ e = t.event
    BY <1>1, EventsOfMembers
<1>3. t.event = CandidateImported(m, f)
    BY <1>2, CandidateCases DEF IsAlone
<1> QED BY <1>2, <1>3, CandidateCases

\* A title that was taken over left the link it was taken from.
UpdatesRemembered(w) ==
    \A e \in w.processed : e.type = "work_item.updated" => Holds(w, e.item, e.payload.object, e.at)

\* A plan that nothing refuses, on a workflow whose titles are held.
IsAccepted(p) ==
    /\ IsPlanned(p) /\ p.conflicts = {} /\ Projects(p, p.base)
    /\ Remembered(p.base) /\ UpdatesRemembered(p.base)
    /\ OneManager(p.base) /\ TitleHeld(p.base)

PlanEvents(p) == EventsOf(PlannedSteps(p.base, p.snapshot))
At(p, k) == AppliedUpTo(p.base, p.events)[k]

FactAt(p, n) == FactsOf(p.snapshot)[n]
Before(p, n) == PlannedUpTo(p.base, p.snapshot)[n - 1]
EventsAt(p, n) == EventsOf(StepsOf(Before(p, n), p.snapshot.mapping, FactAt(p, n)))
FactsCount(p) == Len(FactsOf(p.snapshot))

IsTaken(e) == IsLinkEvent(e) \/ e.type = "work_item.updated"

LEMMA PlanFacts ==
    ASSUME NoneIsApart, NEW p, IsPlanned(p), NEW n \in 1..FactsCount(p)
    PROVE  /\ IsFact(FactAt(p, n)) /\ IsWorkflow(Before(p, n)) /\ Follows(p.base, Before(p, n))
           /\ \A i \in ItemId : LinksTo(Before(p, n), i, FactAt(p, n).object)
                                    = LinksTo(p.base, i, FactAt(p, n).object)
           /\ EventsAt(p, n) \subseteq PlanEvents(p)
           /\ \A e \in EventsAt(p, n) : IsEventOf(e, p.snapshot.mapping, FactAt(p, n))
           /\ \A k \in 1..FactsCount(p) : FactAt(p, k).object = FactAt(p, n).object => k = n
           /\ (\A e \in PlanEvents(p) : e.type # "work_item.updated") =>
                \A i \in Known(Before(p, n)) :
                    \/ i \in Known(p.base) /\ Before(p, n).items[i].title = p.base.items[i].title
                    \/ \E e \in PlanEvents(p) :
                         /\ e.type = "work_item.created" /\ e.item = i
                         /\ Before(p, n).items[i].title = e.payload.title
<1> DEFINE s == p.snapshot
           w == p.base
<1>1. IsSnapshot(s) /\ IsWorkflow(w)
    BY DEF IsPlanned
<1>2. FactsCount(p) \in Nat /\ n - 1 \in 0..Len(FactsOf(s))
    BY <1>1, SnapshotFacts DEF FactsCount
<1>3. /\ IsFact(FactAt(p, n))
      /\ \A k \in 1..FactsCount(p) : FactAt(p, k).object = FactAt(p, n).object => k = n
    BY <1>1, SnapshotFacts DEF FactsCount, FactAt
<1>4. StepsOfFact(w, s, n) = StepsOf(Before(p, n), s.mapping, FactAt(p, n))
    BY DEF StepsOfFact, Before, FactAt
<1>5. /\ EventsAt(p, n) \subseteq PlanEvents(p)
      /\ \A e \in EventsAt(p, n) : IsEventOf(e, s.mapping, FactAt(p, n))
    <2>1. EventsAt(p, n) = EventsOf(StepsOfFact(w, s, n))
        BY <1>4 DEF EventsAt
    <2>2. \A e \in EventsOf(StepsOfFact(w, s, n)) :
            e \in EventsOf(PlannedSteps(w, s)) /\ IsEventOf(e, s.mapping, FactsOf(s)[n])
        BY <1>1, PlannedAreOrderable DEF FactsCount
    <2> QED BY <2>1, <2>2 DEF PlanEvents, FactAt
<1> DEFINE v == PlannedUpTo(w, s)[n - 1]
<1>6. /\ IsWorkflow(v) /\ Follows(w, v)
      /\ \A i \in ItemId : \A o : (\A k \in 1..(n - 1) : FactsOf(s)[k].object # o)
            => LinksTo(v, i, o) = LinksTo(w, i, o)
      /\ (\A e \in EventsOf(PlannedSteps(w, s)) : e.type # "work_item.updated") =>
            \A i \in Known(v) :
                \/ i \in Known(w) /\ v.items[i].title = w.items[i].title
                \/ \E e \in EventsOf(PlannedSteps(w, s)) :
                     /\ e.type = "work_item.created" /\ e.item = i
                     /\ v.items[i].title = e.payload.title
    BY <1>1, <1>2, FactsLeave
<1>7. \A k \in 1..(n - 1) : FactsOf(s)[k].object # FactAt(p, n).object
    <2>1. \A k \in 1..(n - 1) : k \in 1..FactsCount(p) /\ k # n
        BY <1>2
    <2> QED BY <1>3, <2>1 DEF FactAt
<1>8. Before(p, n) = v
    BY DEF Before
<1> HIDE DEF v
<1>9. \A i \in ItemId : LinksTo(Before(p, n), i, FactAt(p, n).object) = LinksTo(w, i, FactAt(p, n).object)
    BY <1>6, <1>7, <1>8
<1> QED BY <1>3, <1>5, <1>6, <1>8, <1>9 DEF PlanEvents

LEMMA PlanEventsOfFacts ==
    ASSUME NoneIsApart, NEW p, IsPlanned(p), NEW e \in PlanEvents(p)
    PROVE  \E n \in 1..FactsCount(p) : e \in EventsAt(p, n)
<1>1. IsSnapshot(p.snapshot)
    BY DEF IsPlanned
<1>2. PICK n \in 1..Len(FactsOf(p.snapshot)) : e \in EventsOf(StepsOfFact(p.base, p.snapshot, n))
    BY <1>1, PlannedAreOrderable DEF PlanEvents
<1> QED BY <1>2 DEF EventsAt, StepsOfFact, Before, FactAt, FactsCount

\* The events of a plan, one after the other.
LEMMA PlanRun ==
    ASSUME NoneIsApart, NEW p, IsAccepted(p)
    PROVE  /\ AreSaid(p.events) /\ Len(p.events) \in Nat
           /\ \A n \in 1..Len(p.events) : p.events[n] \in PlanEvents(p)
           /\ \A e \in PlanEvents(p) : \E n \in 1..Len(p.events) : p.events[n] = e
           /\ \A n, k \in 1..Len(p.events) : p.events[n] = p.events[k] => n = k
           /\ \A n, k \in 1..Len(p.events) : n < k <=> EventBefore(p.events[n], p.events[k])
           /\ At(p, 0) = p.base
           /\ \A n \in 1..Len(p.events) :
                /\ At(p, n) = Applied(At(p, n - 1), p.events[n])
                /\ Refusal(At(p, n - 1), p.events[n]) = "none"
           /\ \A a \in 0..Len(p.events) : \A b \in a..Len(p.events) :
                Leaves(At(p, a), At(p, b), p.events, a, b)
<1>1. IsPlanned(p) /\ p.conflicts = {} /\ Projects(p, p.base) /\ IsWorkflow(p.base)
    BY DEF IsAccepted, IsPlanned
<1>2. AreSaid(p.events)
    BY <1>1, PlanAreSaid
<1>3. /\ Len(p.events) \in Nat /\ DOMAIN p.events = 1..Len(p.events)
      /\ \A n \in 1..Len(p.events) : p.events[n] \in PlanEvents(p)
      /\ \A e \in PlanEvents(p) : \E n \in 1..Len(p.events) : p.events[n] = e
      /\ \A n, k \in 1..Len(p.events) : p.events[n] = p.events[k] => n = k
      /\ \A n, k \in 1..Len(p.events) : n < k <=> EventBefore(p.events[n], p.events[k])
    BY <1>1, PlanEventsAre, NothingRefused DEF PlanEvents
<1>4. /\ At(p, 0) = p.base
      /\ \A n \in 1..Len(p.events) : At(p, n) = Applied(At(p, n - 1), p.events[n])
    BY <1>3, AppliedOneByOne DEF At
<1>5. \A n \in 1..Len(p.events) : Refusal(At(p, n - 1), p.events[n]) = "none"
    BY <1>1, <1>3 DEF Projects, At
<1>6. \A a \in 0..Len(p.events) : \A b \in a..Len(p.events) : Leaves(At(p, a), At(p, b), p.events, a, b)
    BY <1>1, <1>2, RunFrom DEF At
<1> QED BY <1>2, <1>3, <1>4, <1>5, <1>6

\* What an event about a link or a title is new to the workflow a plan is made on.
LEMMA TakenIsNew ==
    ASSUME NoneIsApart, NEW p, IsAccepted(p), NEW e \in PlanEvents(p), IsTaken(e)
    PROVE  e \notin p.base.processed
<1>1. IsPlanned(p) /\ Remembered(p.base) /\ UpdatesRemembered(p.base) /\ IsWorkflow(p.base)
      /\ p.snapshot.mapping.item \in ItemId
    BY DEF IsAccepted, IsPlanned, IsSnapshot
<1>2. PICK n \in 1..FactsCount(p) : e \in EventsAt(p, n)
    BY <1>1, PlanEventsOfFacts
<1> DEFINE w == p.base
           m == p.snapshot.mapping
           f == FactAt(p, n)
           u == Before(p, n)
<1>3. IsFact(f) /\ IsWorkflow(u) /\ Follows(w, u) /\ IsEventOf(e, m, f)
    BY <1>1, <1>2, PlanFacts
<1>4. EventsOf(StepsOf(u, m, f)) # {} /\ e \in EventsOf(StepsOf(u, m, f))
    BY <1>2 DEF EventsAt
<1> HIDE DEF w, m, f, u
<1>5. TypeOf[f.object] = "issue"
    BY <1>3, <1>4, OtherEvents DEF IsTaken, IsLinkEvent
<1>6. IsCreation(e, m, f) \/ IsLinking(e, u, m, f) \/ IsObservation(e, u, m, f) \/ IsUpdate(e, m, f)
    BY <1>3, <1>4, <1>5, IssueEvents
<1> SUFFICES ASSUME e \in w.processed PROVE FALSE
    BY DEF w
<1>7. Holds(w, m.item, f.object, f.at)
    <2>1. f.at \in Nat /\ ObservationOf(f).at = f.at /\ e.item = m.item
        BY <1>3 DEF IsFact, IsEventOf, ObservationOf
    <2>2. /\ ~RichLinkOf(m, f).legacy /\ RichLinkOf(m, f).object = f.object
          /\ RichLinkOf(m, f).last.at = f.at
        BY <2>1, RichLinkFields DEF IsRich
    <2>3. CASE IsCreation(e, m, f) \/ IsLinking(e, u, m, f)
        <3>1. e.type \in {"work_item.created", "external_link.linked"} /\ e.payload.link = RichLinkOf(m, f)
            BY <2>3 DEF IsCreation, IsLinking
        <3> QED BY <1>1, <2>1, <2>2, <3>1 DEF Remembered, w
    <2>4. CASE IsObservation(e, u, m, f)
        BY <1>1, <2>1, <2>4 DEF Remembered, IsObservation, w
    <2>5. CASE IsUpdate(e, m, f)
        BY <1>1, <2>1, <2>5 DEF UpdatesRemembered, IsUpdate, w
    <2> QED BY <1>6, <2>3, <2>4, <2>5
<1>8. Holds(u, m.item, f.object, f.at)
    BY <1>1, <1>3, <1>7, HoldsOn DEF w
<1>9. m.item \in ItemId
    BY <1>1 DEF m
<1> QED BY <1>3, <1>4, <1>5, <1>8, <1>9, HeldHasNoEvent

LEMMA TakenIsNewThere ==
    ASSUME NoneIsApart, NEW p, IsAccepted(p), NEW k \in 1..Len(p.events), IsTaken(p.events[k])
    PROVE  p.events[k] \notin At(p, k - 1).processed
<1> DEFINE q == p.events
<1>1. k - 1 \in 0..Len(q) /\ 0 \in 0..Len(q) /\ k \in Nat /\ 0 + 1 = 1
    BY PlanRun
<1>2. Leaves(At(p, 0), At(p, k - 1), q, 0, k - 1)
    BY <1>1, PlanRun
<1>3. \A e \in At(p, k - 1).processed : e \in At(p, 0).processed \/ \E j \in 1..(k - 1) : e = q[j]
    BY <1>1, <1>2 DEF Leaves
<1>4. q[k] \notin At(p, 0).processed
    BY PlanRun, TakenIsNew
<1>5. \A j \in 1..(k - 1) : j \in 1..Len(q) /\ j # k
    BY <1>1
<1> QED BY <1>3, <1>4, <1>5, PlanRun

ItemOf(p) == p.snapshot.mapping.item

\* What the workflow is before an event of a plan, and what the event does there.
LEMMA PlanStep ==
    ASSUME NoneIsApart, NEW p, IsAccepted(p), NEW k \in 1..Len(p.events)
    PROVE  /\ k - 1 \in 0..Len(p.events) /\ k \in 0..Len(p.events)
           /\ IsWorkflow(At(p, k - 1)) /\ IsWorkflow(At(p, k))
           /\ Follows(p.base, At(p, k - 1)) /\ Follows(At(p, k), At(p, Len(p.events)))
           /\ SaysWhen(p.events[k]) /\ p.events[k].item = ItemOf(p) /\ ItemOf(p) \in ItemId
           /\ At(p, k) = Applied(At(p, k - 1), p.events[k])
           /\ Refusal(At(p, k - 1), p.events[k]) = "none"
<1>1. k - 1 \in 0..Len(p.events) /\ k \in 0..Len(p.events) /\ Len(p.events) \in k..Len(p.events)
      /\ 0 \in 0..Len(p.events) /\ k - 1 \in 0..Len(p.events) /\ k \in k..Len(p.events)
    BY PlanRun
<1>2. /\ Leaves(At(p, 0), At(p, k - 1), p.events, 0, k - 1)
      /\ Leaves(At(p, k), At(p, Len(p.events)), p.events, k, Len(p.events))
      /\ Leaves(At(p, k), At(p, k), p.events, k, k)
    BY <1>1, PlanRun
<1>3. IsPlanned(p) /\ ItemOf(p) \in ItemId
    BY DEF IsAccepted, IsPlanned, IsSnapshot, ItemOf
<1>4. p.events[k] \in PlanEvents(p)
    BY PlanRun
<1>5. PICK n \in 1..FactsCount(p) : p.events[k] \in EventsAt(p, n)
    BY <1>3, <1>4, PlanEventsOfFacts
<1>6. IsEventOf(p.events[k], p.snapshot.mapping, FactAt(p, n))
    BY <1>3, <1>5, PlanFacts
<1>7. SaysWhen(p.events[k]) /\ p.events[k].item = ItemOf(p)
    BY <1>6 DEF IsEventOf, ItemOf
<1>8. /\ IsWorkflow(At(p, k - 1)) /\ IsWorkflow(At(p, k))
      /\ Follows(p.base, At(p, k - 1)) /\ Follows(At(p, k), At(p, Len(p.events)))
    <2>1. At(p, 0) = p.base
        BY PlanRun
    <2> QED BY <1>2, <2>1 DEF Leaves
<1> QED BY <1>1, <1>3, <1>7, <1>8, PlanRun

\* What an event of a plan says of its fact.
LEMMA PlanEventIs ==
    ASSUME NoneIsApart, NEW p, IsAccepted(p), NEW k \in 1..Len(p.events), IsTaken(p.events[k])
    PROVE  \E n \in 1..FactsCount(p) :
             LET e == p.events[k]
                 m == p.snapshot.mapping
                 f == FactAt(p, n)
                 u == Before(p, n)
             IN  /\ e \in EventsAt(p, n) /\ IsEventOf(e, m, f) /\ TypeOf[f.object] = "issue"
                 /\ \/ IsCreation(e, m, f) \/ IsLinking(e, u, m, f) \/ IsObservation(e, u, m, f)
                    \/ IsUpdate(e, m, f)
                 /\ \A g \in EventsAt(p, n) : g = e \/ ~IsLinkEvent(e) \/ ~IsLinkEvent(g)
<1>1. IsPlanned(p) /\ p.events[k] \in PlanEvents(p)
    BY PlanRun DEF IsAccepted
<1>2. PICK n \in 1..FactsCount(p) : p.events[k] \in EventsAt(p, n)
    BY <1>1, PlanEventsOfFacts
<1> DEFINE e == p.events[k]
           m == p.snapshot.mapping
           f == FactAt(p, n)
           u == Before(p, n)
           E == EventsOf(StepsOf(u, m, f))
<1>3. IsFact(f) /\ IsEventOf(e, m, f)
    BY <1>1, <1>2, PlanFacts
<1>4. e \in E /\ EventsAt(p, n) = E
    BY <1>2 DEF EventsAt
<1> HIDE DEF e, m, f, u
<1>5. TypeOf[f.object] = "issue"
    BY <1>3, <1>4, OtherEvents DEF IsTaken, IsLinkEvent, e
<1>6. PICK g \in E : /\ IsCreation(g, m, f) \/ IsLinking(g, u, m, f) \/ IsObservation(g, u, m, f)
                     /\ \A h \in E : h = g \/ IsUpdate(h, m, f)
    BY <1>3, <1>4, <1>5, IssueEvents
<1> HIDE DEF E
<1>7. \A h : IsUpdate(h, m, f) => ~IsLinkEvent(h)
    BY DEF IsUpdate, IsLinkEvent
<1>8. \/ IsCreation(e, m, f) \/ IsLinking(e, u, m, f) \/ IsObservation(e, u, m, f)
      \/ IsUpdate(e, m, f)
    BY <1>4, <1>6
<1>9. \A h \in E : h = e \/ ~IsLinkEvent(e) \/ ~IsLinkEvent(h)
    BY <1>4, <1>6, <1>7
<1> QED BY <1>2, <1>3, <1>4, <1>5, <1>8, <1>9 DEF e, m, f, u

\* No plan lets a link manage a title without knowing it.
LEMMA PlanKeepsOneManager ==
    ASSUME NoneIsApart, NEW p, IsAccepted(p), NEW k \in 0..Len(p.events)
    PROVE  OneManager(At(p, k))
<1>1. \A j \in 1..Len(p.events) : ManagesKnowingly(p.events[j])
    <2> SUFFICES ASSUME NEW j \in 1..Len(p.events), p.events[j].type = "work_item.created"
                 PROVE  ~p.events[j].payload.link.legacy
        BY DEF ManagesKnowingly
    <2>1. PICK n \in 1..FactsCount(p) :
             /\ IsEventOf(p.events[j], p.snapshot.mapping, FactAt(p, n))
             /\ \/ IsCreation(p.events[j], p.snapshot.mapping, FactAt(p, n))
                \/ IsLinking(p.events[j], Before(p, n), p.snapshot.mapping, FactAt(p, n))
                \/ IsObservation(p.events[j], Before(p, n), p.snapshot.mapping, FactAt(p, n))
                \/ IsUpdate(p.events[j], p.snapshot.mapping, FactAt(p, n))
        BY PlanEventIs DEF IsTaken, IsLinkEvent
    <2>2. p.events[j].payload.link = RichLinkOf(p.snapshot.mapping, FactAt(p, n))
        BY <2>1 DEF IsCreation, IsLinking, IsObservation, IsUpdate
    <2> QED BY <2>2 DEF RichLinkOf, RichLink
<1>2. 0 \in 0..Len(p.events) /\ k \in 0..Len(p.events) /\ 0 + 1 = 1 /\ At(p, 0) = p.base
      /\ k \in Nat /\ Len(p.events) \in Nat
    BY PlanRun
<1>3. Leaves(At(p, 0), At(p, k), p.events, 0, k)
    BY <1>2, PlanRun
<1>4. \A j \in 1..k : j \in 1..Len(p.events)
    BY <1>2
<1> QED BY <1>1, <1>2, <1>3, <1>4 DEF Leaves, IsAccepted

\* A plan creates its item once, if it is not there.
LEMMA CreatedOnce ==
    ASSUME NoneIsApart, NEW p, IsAccepted(p)
    PROVE  /\ \A e \in PlanEvents(p) : e.type = "work_item.created" => ItemOf(p) \notin Known(p.base)
           /\ \A e, g \in PlanEvents(p) :
                e.type = "work_item.created" /\ g.type = "work_item.created" => e = g
<1> DEFINE q == p.events
           IsCreated(k) == k \in 1..Len(q) /\ q[k].type = "work_item.created"
<1>1. ASSUME NEW k, IsCreated(k)
      PROVE  /\ ItemOf(p) \notin Known(At(p, k - 1)) /\ ItemOf(p) \in Known(At(p, k))
             /\ Follows(p.base, At(p, k - 1))
    <2>1. q[k] \notin At(p, k - 1).processed
        BY <1>1, TakenIsNewThere DEF IsTaken, IsLinkEvent
    <2>2. /\ IsWorkflow(At(p, k - 1)) /\ Follows(p.base, At(p, k - 1)) /\ SaysWhen(q[k])
          /\ q[k].item = ItemOf(p) /\ ItemOf(p) \in ItemId
          /\ At(p, k) = Applied(At(p, k - 1), q[k]) /\ Refusal(At(p, k - 1), q[k]) = "none"
        BY <1>1, PlanStep
    <2> HIDE DEF q
    <2>3. q[k].item \notin Known(At(p, k - 1))
        BY <1>1, <2>1, <2>2, AcceptedEvent
    <2>4. q[k].item \in Known(Applied(At(p, k - 1), q[k]))
        BY <2>1, <2>2, AcceptedItem
    <2> QED BY <2>2, <2>3, <2>4
<1>2. ASSUME NEW k, IsCreated(k) PROVE ItemOf(p) \notin Known(p.base)
    BY <1>1, <1>2 DEF Follows
<1>3. ASSUME NEW j \in 1..Len(q), NEW k \in 1..Len(q), IsCreated(j), IsCreated(k), j < k
      PROVE  FALSE
    <2>1. j \in 0..Len(q) /\ k - 1 \in j..Len(q)
        BY <1>3, PlanRun
    <2>2. Leaves(At(p, j), At(p, k - 1), q, j, k - 1)
        BY <2>1, PlanRun
    <2>3. ItemOf(p) \in Known(At(p, j)) /\ ItemOf(p) \notin Known(At(p, k - 1))
        BY <1>1, <1>3
    <2> QED BY <2>2, <2>3 DEF Leaves, Follows
<1>4. ASSUME NEW e \in PlanEvents(p), NEW g \in PlanEvents(p),
             e.type = "work_item.created", g.type = "work_item.created"
      PROVE  e = g
    <2>1. PICK j \in 1..Len(q) : q[j] = e
        BY PlanRun
    <2>2. PICK k \in 1..Len(q) : q[k] = g
        BY PlanRun
    <2>3. IsCreated(j) /\ IsCreated(k)
        BY <1>4, <2>1, <2>2
    <2> HIDE DEF IsCreated
    <2>4. ~(j < k) /\ ~(k < j)
        BY <1>3, <2>3
    <2>5. j = k
        BY <2>4, PlanRun
    <2> QED BY <2>1, <2>2, <2>5
<1>5. ASSUME NEW e \in PlanEvents(p), e.type = "work_item.created"
      PROVE  ItemOf(p) \notin Known(p.base)
    <2>1. PICK j \in 1..Len(q) : q[j] = e
        BY PlanRun
    <2> QED BY <1>2, <1>5, <2>1
<1> QED BY <1>4, <1>5

\* An update of a plan is of a title its link manages, then and in the end.
LEMMA UpdateManages ==
    ASSUME NoneIsApart, NEW p, IsAccepted(p), NEW k \in 1..Len(p.events),
           p.events[k].type = "work_item.updated"
    PROVE  LET e == p.events[k]
               i == ItemOf(p)
               x == At(p, k - 1)
           IN  /\ i \in Known(x) /\ i \in Known(At(p, k))
               /\ \E h \in x.items[i].links :
                    h.object = e.payload.object /\ h.managed /\ h.last.title = e.payload.after
               /\ At(p, k).items[i].links = x.items[i].links
               /\ At(p, k).items[i].title = e.payload.after
               /\ \E h \in At(p, Len(p.events)).items[i].links :
                    h.object = e.payload.object /\ h.managed
<1> DEFINE e == p.events[k]
           i == ItemOf(p)
           x == At(p, k - 1)
           y == At(p, k)
           v == At(p, Len(p.events))
<1>1. e \notin x.processed
    BY TakenIsNewThere DEF IsTaken
<1>2. /\ IsWorkflow(x) /\ SaysWhen(e) /\ e.item = i /\ i \in ItemId
      /\ y = Applied(x, e) /\ Refusal(x, e) = "none" /\ Follows(y, v)
      /\ k - 1 \in 0..Len(p.events)
    BY PlanStep
<1>3. OneManager(x)
    BY <1>2, PlanKeepsOneManager
<1>4. e.type = "work_item.updated"
    OBVIOUS
<1> HIDE DEF e, i, x, y, v
<1>5. i \in Known(x) /\ UpdateRefusal(x, e) = "none"
    BY <1>1, <1>2, <1>4, AcceptedEvent
<1>6. PICK h \in x.items[i].links :
        h.object = e.payload.object /\ h.managed /\ h.last.title = e.payload.after
    <2> DEFINE links == LinkOf(x, e.item, e.payload.object)
               h == CHOOSE l \in links : TRUE
    <2>1. links # {} /\ h.managed /\ h.last.title = e.payload.after
        BY <1>5 DEF UpdateRefusal
    <2>2. h \in links
        BY <2>1
    <2> QED BY <1>2, <2>1, <2>2 DEF LinkOf
<1>7. /\ e.item \in Known(Applied(x, e)) /\ Applied(x, e).items[e.item] = ItemAfter(x, e)
      /\ ItemAfter(x, e).links = x.items[e.item].links /\ ItemAfter(x, e).title = e.payload.after
    BY <1>1, <1>2, <1>4, AcceptedItem DEF IsLinkEvent
<1>8. i \in Known(y) /\ y.items[i].links = x.items[i].links /\ y.items[i].title = e.payload.after
    BY <1>2, <1>7
<1>9. PICK l \in v.items[i].links : LinkStays(h, l)
    BY <1>2, <1>6, <1>8 DEF Follows, LinksStay
<1>10. l.object = e.payload.object /\ l.managed
    BY <1>3, <1>5, <1>6, <1>9 DEF LinkStays, OneManager
<1> QED BY <1>5, <1>6, <1>8, <1>10 DEF e, i, x, y, v

\* The event of an issue's link is the only one about it.
LEMMA OnlyOneAbout ==
    ASSUME NoneIsApart, NEW p, IsAccepted(p), NEW o,
           NEW j \in 1..Len(p.events), NEW k \in 1..Len(p.events),
           IsAbout(p.events[j], o), IsAbout(p.events[k], o)
    PROVE  j = k
<1>1. IsLinkEvent(p.events[j]) /\ IsLinkEvent(p.events[k]) /\ IsPlanned(p)
    BY DEF IsAbout, IsLinkEvent, IsAccepted
<1>2. PICK n \in 1..FactsCount(p) :
        /\ p.events[j] \in EventsAt(p, n)
        /\ IsEventOf(p.events[j], p.snapshot.mapping, FactAt(p, n))
        /\ \A g \in EventsAt(p, n) :
             g = p.events[j] \/ ~IsLinkEvent(p.events[j]) \/ ~IsLinkEvent(g)
    BY <1>1, PlanEventIs DEF IsTaken
<1>3. PICK h \in 1..FactsCount(p) :
        /\ p.events[k] \in EventsAt(p, h)
        /\ IsEventOf(p.events[k], p.snapshot.mapping, FactAt(p, h))
    BY <1>1, PlanEventIs DEF IsTaken
<1>4. FactAt(p, n).object = o /\ FactAt(p, h).object = o
    BY <1>2, <1>3 DEF IsEventOf, IsAbout
<1>5. n = h
    BY <1>1, <1>4, PlanFacts
<1>6. p.events[j] = p.events[k]
    BY <1>1, <1>2, <1>3, <1>5
<1> QED BY <1>6, PlanRun

\* Nothing follows an update but what is quiet, if all updates are of one title.
LEMMA UpdatesComeLast ==
    ASSUME NoneIsApart, NEW p, IsAccepted(p), NEW k \in 1..Len(p.events),
           p.events[k].type = "work_item.updated",
           \A j \in 1..Len(p.events) : p.events[j].type = "work_item.updated" =>
                p.events[j].payload.object = p.events[k].payload.object,
           NEW j \in (k + 1)..Len(p.events)
    PROVE  IsQuiet(p.events[j])
<1> DEFINE e == p.events[k]
           g == p.events[j]
<1>1. j \in 1..Len(p.events) /\ k < j /\ j # k
    BY PlanRun
<1>2. EventBefore(e, g) /\ e # g /\ e \in PlanEvents(p) /\ g \in PlanEvents(p)
    BY <1>1, PlanRun
<1>3. AreOrderable(PlanEvents(p)) /\ IsPlanned(p)
    BY PlannedAreOrderable DEF IsAccepted, IsPlanned, PlanEvents
<1>4. e.type = "work_item.updated" /\ (g.type = "work_item.updated" => g.payload.object = e.payload.object)
    BY <1>1
<1>5. e.id[3] = e.payload.object /\ (g.type = "work_item.updated" => g.id[3] = g.payload.object)
    <2>1. PICK n \in 1..FactsCount(p) : IsEventOf(e, p.snapshot.mapping, FactAt(p, n))
        BY PlanEventIs DEF IsTaken
    <2>2. g.type = "work_item.updated" =>
            \E h \in 1..FactsCount(p) : IsEventOf(g, p.snapshot.mapping, FactAt(p, h))
        BY <1>1, PlanEventIs DEF IsTaken
    <2> HIDE DEF e, g
    <2> QED BY <1>4, <2>1, <2>2 DEF IsEventOf
<1> HIDE DEF e, g
<1>6. g.type # "work_item.updated"
    BY <1>2, <1>3, <1>4, <1>5 DEF AreOrderable
<1>7. g.type \notin {"work_item.created", "external_link.linked", "external_link.observed"}
    BY <1>2, <1>4, EventPositions DEF EventBefore
<1> QED BY <1>6, <1>7 DEF IsQuiet, IsLinkEvent, g

\* The title of the item in the end, where the plan updates it.
LEMMA UpdatedTitle ==
    ASSUME NoneIsApart, NEW p, IsAccepted(p), NEW k \in 1..Len(p.events),
           p.events[k].type = "work_item.updated",
           NEW l \in At(p, Len(p.events)).items[ItemOf(p)].links, l.managed
    PROVE  At(p, Len(p.events)).items[ItemOf(p)].title = l.last.title
<1> DEFINE i == ItemOf(p)
           x == At(p, k - 1)
           y == At(p, k)
           v == At(p, Len(p.events))
           e == p.events[k]
<1>1. Len(p.events) \in 0..Len(p.events) /\ k \in 0..Len(p.events) /\ Len(p.events) \in k..Len(p.events)
      /\ k - 1 \in 0..Len(p.events)
    BY PlanRun
<1>2. OneManager(x) /\ OneManager(v)
    BY <1>1, PlanKeepsOneManager
<1>3. /\ i \in Known(x) /\ i \in Known(y)
      /\ \E h \in x.items[i].links :
            h.object = e.payload.object /\ h.managed /\ h.last.title = e.payload.after
      /\ y.items[i].links = x.items[i].links /\ y.items[i].title = e.payload.after
    BY UpdateManages
<1>4. Follows(y, v)
    BY PlanStep
<1>5. i \in Known(v)
    BY <1>3, <1>4 DEF Follows
<1>6. ASSUME NEW j \in 1..Len(p.events), p.events[j].type = "work_item.updated"
      PROVE  p.events[j].payload.object = l.object
    <2>1. PICK h \in v.items[i].links : h.object = p.events[j].payload.object /\ h.managed
        BY <1>6, UpdateManages
    <2> QED BY <1>2, <1>5, <2>1 DEF OneManager
<1>7. \A j \in (k + 1)..Len(p.events) : IsQuiet(p.events[j])
    <2>1. \A j \in 1..Len(p.events) : p.events[j].type = "work_item.updated" =>
                p.events[j].payload.object = p.events[k].payload.object
        BY <1>6
    <2> QED BY <2>1, UpdatesComeLast
<1>8. Leaves(y, v, p.events, k, Len(p.events))
    BY <1>1, PlanRun
<1>9. v.items[i].links = y.items[i].links /\ v.items[i].title = y.items[i].title
    BY <1>3, <1>7, <1>8 DEF Leaves
<1>10. l \in x.items[i].links
    BY <1>3, <1>9
<1> HIDE DEF x, y, v, i, e
<1>11. l.last.title = e.payload.after
    BY <1>2, <1>3, <1>10 DEF OneManager
<1> QED BY <1>3, <1>9, <1>11 DEF v, i

\* Where it updates none, the title is as it was, or as it was created.
LEMMA TitleOfPlan ==
    ASSUME NoneIsApart, NEW p, IsAccepted(p),
           \A e \in PlanEvents(p) : e.type # "work_item.updated",
           NEW v, v = At(p, Len(p.events)) \/ \E n \in 1..FactsCount(p) : v = Before(p, n),
           ItemOf(p) \in Known(v)
    PROVE  /\ ItemOf(p) \in Known(p.base) =>
                v.items[ItemOf(p)].title = p.base.items[ItemOf(p)].title
           /\ \A e \in PlanEvents(p) :
                e.type = "work_item.created" => v.items[ItemOf(p)].title = e.payload.title
           /\ ItemOf(p) \notin Known(p.base) =>
                \E e \in PlanEvents(p) : e.type = "work_item.created"
<1> DEFINE i == ItemOf(p)
<1>1. \/ i \in Known(p.base) /\ v.items[i].title = p.base.items[i].title
      \/ \E e \in PlanEvents(p) : /\ e.type = "work_item.created" /\ e.item = i
                                  /\ v.items[i].title = e.payload.title
    <2>1. CASE v = At(p, Len(p.events))
        <3>1. 0 \in 0..Len(p.events) /\ Len(p.events) \in 0..Len(p.events) /\ 0 + 1 = 1
              /\ At(p, 0) = p.base
            BY PlanRun
        <3>2. Leaves(At(p, 0), v, p.events, 0, Len(p.events))
            BY <2>1, <3>1, PlanRun
        <3>3. \A k \in 1..Len(p.events) : p.events[k] \in PlanEvents(p)
            BY PlanRun
        <3>4. \A k \in 1..Len(p.events) : p.events[k].type # "work_item.updated"
            BY <3>3
        <3>5. \/ i \in Known(p.base) /\ v.items[i].title = p.base.items[i].title
              \/ \E k \in 1..Len(p.events) :
                    /\ p.events[k].type = "work_item.created" /\ p.events[k].item = i
                    /\ v.items[i].title = p.events[k].payload.title
            BY <3>1, <3>2, <3>4 DEF Leaves
        <3> QED BY <3>3, <3>5
    <2>2. CASE \E n \in 1..FactsCount(p) : v = Before(p, n)
        <3>1. PICK n \in 1..FactsCount(p) : v = Before(p, n)
            BY <2>2
        <3>2. IsPlanned(p)
            BY DEF IsAccepted
        <3> QED BY <3>1, <3>2, PlanFacts
    <2> QED BY <2>1, <2>2
<1>2. /\ \A e \in PlanEvents(p) : e.type = "work_item.created" => i \notin Known(p.base)
      /\ \A e, g \in PlanEvents(p) :
            e.type = "work_item.created" /\ g.type = "work_item.created" => e = g
    BY CreatedOnce
<1> QED BY <1>1, <1>2

\* The link an event about it leaves: the event's, or the one there was with what the event
\* has observed.
LinkIsLeft(w, e, o, l) ==
    /\ e.type \in {"work_item.created", "external_link.linked"} => l = e.payload.link
    /\ e.type = "external_link.observed" =>
        /\ l.last = e.payload.observation
        /\ \E h \in w.items[e.item].links :
             /\ h.object = o
             /\ l.managed = IF e.payload.expected = None THEN e.payload.managed ELSE h.managed
             /\ e.payload.expected = None => h.legacy

LEMMA LinkAfter ==
    ASSUME NoneIsApart, NEW w, NEW e, IsWorkflow(w), SaysWhen(e), e.item \in ItemId,
           e \notin w.processed, Refusal(w, e) = "none", NEW o, IsAbout(e, o),
           NEW l \in Applied(w, e).items[e.item].links, l.object = o
    PROVE  LinkIsLeft(w, e, o, l)
<1> DEFINE y == ItemAfter(w, e)
           x == w.items[e.item]
<1>1. l \in y.links
    BY AcceptedItem
<1>2. CASE e.type = "work_item.created"
    <2>1. y.links = {e.payload.link}
        BY <1>2, AcceptedItem
    <2> QED BY <1>1, <1>2, <2>1 DEF LinkIsLeft
<1>3. CASE e.type = "external_link.linked"
    <2>1. y.links = x.links \cup {e.payload.link}
        BY <1>3, AcceptedItem
    <2>2. LinkRefusal(w, e) = "none" /\ e.item \in Known(w)
        BY <1>3, AcceptedEvent
    <2>3. e.item \notin Owners(w, e.payload.link.object) /\ e.payload.link.object = o
        BY <1>3, <2>2 DEF LinkRefusal, IsAbout
    <2>4. \A h \in x.links : h.object # o
        BY <2>2, <2>3 DEF Owners, LinkOf
    <2> HIDE DEF x, y
    <2>5. l = e.payload.link
        BY <1>1, <2>1, <2>4
    <2> QED BY <1>3, <2>5 DEF LinkIsLeft
<1>4. CASE e.type = "external_link.observed"
    <2>1. PICK h \in x.links : \E k :
            /\ h.object = e.payload.object /\ k.object = e.payload.object
            /\ ~k.legacy /\ k.last = e.payload.observation
            /\ k.managed = IF e.payload.expected = None THEN e.payload.managed ELSE h.managed
            /\ y.links = (x.links \ {h}) \cup {k}
        BY <1>4, AcceptedItem
    <2>2. PICK k :
            /\ k.last = e.payload.observation
            /\ k.managed = IF e.payload.expected = None THEN e.payload.managed ELSE h.managed
            /\ y.links = (x.links \ {h}) \cup {k}
        BY <2>1
    <2>3. h.object = o /\ e.payload.object = o
        BY <1>4, <2>1 DEF IsAbout
    <2>4. ObserveRefusal(w, e) = "none" /\ e.item \in Known(w)
        BY <1>4, AcceptedEvent
    <2>5. \A g \in x.links : g.object = o => g = h
        BY <2>3, <2>4 DEF IsWorkflow, IsItem
    <2>6. LinkOf(w, e.item, o) # {} /\ h \in LinkOf(w, e.item, o)
        BY <2>3 DEF LinkOf
    <2>7. e.payload.expected = None => h.legacy
        <3>1. e.payload.expected = None => BaselineRefusal(w, e) = "none"
            BY <2>3, <2>4, <2>6 DEF ObserveRefusal
        <3>2. e.payload.expected = None => \A g \in LinkOf(w, e.item, o) : g.legacy
            BY <2>3, <3>1 DEF BaselineRefusal
        <3> QED BY <2>6, <3>2
    <2> HIDE DEF y
    <2>8. l = k
        BY <1>1, <2>2, <2>5
    <2> HIDE DEF x
    <2>9. /\ l.last = e.payload.observation
          /\ h \in x.links /\ h.object = o
          /\ l.managed = IF e.payload.expected = None THEN e.payload.managed ELSE h.managed
        BY <2>2, <2>3, <2>8
    <2>10. \E g \in w.items[e.item].links :
             /\ g.object = o
             /\ l.managed = IF e.payload.expected = None THEN e.payload.managed ELSE g.managed
             /\ e.payload.expected = None => g.legacy
        BY <2>7, <2>9 DEF x
    <2> QED BY <1>4, <2>9, <2>10 DEF LinkIsLeft
<1> QED BY <1>2, <1>3, <1>4 DEF IsAbout

\* Two workflows say the same of an object.
LEMMA SameLink ==
    ASSUME NEW u, NEW w, NEW i, NEW o, LinksTo(u, i, o) = LinksTo(w, i, o),
           i \in Known(w), NEW l \in w.items[i].links, l.object = o
    PROVE  i \in Known(u) /\ l \in u.items[i].links
<1>1. l \in LinksTo(w, i, o)
    BY DEF LinksTo, LinkOf
<1> QED BY <1>1 DEF LinksTo, LinkOf

\* The link of a plan's item that no event of the plan is about.
LEMMA TitleElsewhere ==
    ASSUME NoneIsApart, NEW p, IsAccepted(p),
           \A e \in PlanEvents(p) : e.type # "work_item.updated",
           ItemOf(p) \in Known(At(p, Len(p.events))),
           NEW l \in At(p, Len(p.events)).items[ItemOf(p)].links, l.managed,
           \A k \in 1..Len(p.events) : ~IsAbout(p.events[k], l.object)
    PROVE  At(p, Len(p.events)).items[ItemOf(p)].title = l.last.title
<1> DEFINE i == ItemOf(p)
           v == At(p, Len(p.events))
           w == p.base
<1>1. 0 \in 0..Len(p.events) /\ Len(p.events) \in 0..Len(p.events) /\ 0 + 1 = 1 /\ At(p, 0) = w
    BY PlanRun
<1>2. Leaves(At(p, 0), v, p.events, 0, Len(p.events))
    BY <1>1, PlanRun
<1>3. i \in ItemId /\ TitleHeld(w)
    BY DEF IsAccepted, IsPlanned, IsSnapshot, ItemOf
<1>4. LinksTo(v, i, l.object) = LinksTo(w, i, l.object)
    BY <1>1, <1>2, <1>3 DEF Leaves
<1>5. i \in Known(w) /\ l \in w.items[i].links
    BY <1>4, SameLink
<1>6. w.items[i].title = l.last.title
    BY <1>3, <1>5 DEF TitleHeld
<1>7. i \in Known(w) => v.items[i].title = w.items[i].title
    BY TitleOfPlan
<1> QED BY <1>5, <1>6, <1>7

\* Around the one event about an object, the object's link is what the workflow said
\* before the plan, and what the plan leaves.
LEMMA AroundEvent ==
    ASSUME NoneIsApart, NEW p, IsAccepted(p), NEW k \in 1..Len(p.events), NEW o,
           IsAbout(p.events[k], o)
    PROVE  /\ LinksTo(At(p, k - 1), ItemOf(p), o) = LinksTo(p.base, ItemOf(p), o)
           /\ LinksTo(At(p, Len(p.events)), ItemOf(p), o) = LinksTo(At(p, k), ItemOf(p), o)
<1>1. /\ 0 \in 0..Len(p.events) /\ k - 1 \in 0..Len(p.events) /\ k \in 0..Len(p.events)
      /\ Len(p.events) \in k..Len(p.events) /\ 0 + 1 = 1 /\ At(p, 0) = p.base
      /\ \A j \in 1..(k - 1) : j \in 1..Len(p.events) /\ j # k
      /\ \A j \in (k + 1)..Len(p.events) : j \in 1..Len(p.events) /\ j # k
    BY PlanRun
<1>2. ItemOf(p) \in ItemId
    BY DEF IsAccepted, IsPlanned, IsSnapshot, ItemOf
<1>3. /\ \A j \in 1..(k - 1) : ~IsAbout(p.events[j], o)
      /\ \A j \in (k + 1)..Len(p.events) : ~IsAbout(p.events[j], o)
    BY <1>1, OnlyOneAbout
<1>4. LinksTo(At(p, k - 1), ItemOf(p), o) = LinksTo(At(p, 0), ItemOf(p), o)
    <2>1. Leaves(At(p, 0), At(p, k - 1), p.events, 0, k - 1)
        BY <1>1, PlanRun
    <2> QED BY <1>1, <1>2, <1>3, <2>1 DEF Leaves
<1>5. LinksTo(At(p, Len(p.events)), ItemOf(p), o) = LinksTo(At(p, k), ItemOf(p), o)
    <2>1. Leaves(At(p, k), At(p, Len(p.events)), p.events, k, Len(p.events))
        BY <1>1, PlanRun
    <2> QED BY <1>2, <1>3, <2>1 DEF Leaves
<1> QED BY <1>1, <1>4, <1>5

\* What an event leaves of a link that manages the title: the fact it was read from, whose
\* mapping manages it.
LEMMA ManagerIsFact ==
    ASSUME NoneIsApart, NEW p, IsAccepted(p), NEW k \in 1..Len(p.events),
           ItemOf(p) \in Known(At(p, Len(p.events))),
           NEW l \in At(p, Len(p.events)).items[ItemOf(p)].links, l.managed,
           IsAbout(p.events[k], l.object)
    PROVE  \E n \in 1..FactsCount(p) :
             /\ p.events[k] \in EventsAt(p, n)
             /\ l.last.title = FactAt(p, n).title /\ p.snapshot.mapping.managed
             /\ \/ IsCreation(p.events[k], p.snapshot.mapping, FactAt(p, n))
                \/ IsTitled(Before(p, n), p.snapshot.mapping, FactAt(p, n))
<1> DEFINE e == p.events[k]
           i == ItemOf(p)
           x == At(p, k - 1)
           m == p.snapshot.mapping
<1>1. PICK n \in 1..FactsCount(p) :
        /\ e \in EventsAt(p, n) /\ IsEventOf(e, m, FactAt(p, n))
        /\ \/ IsCreation(e, m, FactAt(p, n)) \/ IsLinking(e, Before(p, n), m, FactAt(p, n))
           \/ IsObservation(e, Before(p, n), m, FactAt(p, n))
           \/ IsUpdate(e, m, FactAt(p, n))
    <2>1. IsTaken(e)
        BY DEF IsTaken, IsAbout, IsLinkEvent
    <2> QED BY <2>1, PlanEventIs
<1> DEFINE f == FactAt(p, n)
           u == Before(p, n)
           v == At(p, Len(p.events))
<1>2. f.object = l.object
    BY <1>1 DEF IsEventOf, IsAbout
<1>3. /\ LinksTo(x, i, l.object) = LinksTo(p.base, i, l.object)
      /\ LinksTo(v, i, l.object) = LinksTo(At(p, k), i, l.object)
    BY AroundEvent
<1>4. LinksTo(u, i, l.object) = LinksTo(p.base, i, l.object) /\ IsWorkflow(u) /\ i = m.item
    <2>1. IsPlanned(p) /\ i \in ItemId /\ i = m.item
        BY DEF IsAccepted, IsPlanned, IsSnapshot, ItemOf
    <2> QED BY <1>2, <2>1, PlanFacts
<1>5. /\ IsWorkflow(x) /\ SaysWhen(e) /\ e.item = i /\ i \in ItemId
      /\ At(p, k) = Applied(x, e) /\ Refusal(x, e) = "none"
    BY PlanStep
<1>6. e \notin x.processed
    BY TakenIsNewThere DEF IsTaken, IsAbout, IsLinkEvent
<1>7. l \in Applied(x, e).items[e.item].links
    BY <1>3, <1>5, SameLink
<1>8. IsAbout(e, l.object) /\ l.managed /\ EventsAt(p, n) = EventsAt(p, n)
    OBVIOUS
<1> HIDE DEF e, i, x, m, f, u
<1>9. LinkIsLeft(x, e, l.object, l)
    BY <1>5, <1>6, <1>7, <1>8, LinkAfter
<1>10. /\ RichLinkOf(m, f).managed = m.managed /\ RichLinkOf(m, f).last.title = f.title
       /\ ObservationOf(f).title = f.title
    BY DEF RichLinkOf, RichLink, ObservationOf
<1>11. CASE IsCreation(e, m, f)
    BY <1>1, <1>8, <1>9, <1>10, <1>11 DEF IsCreation, LinkIsLeft, e, m, f, u
<1>12. CASE IsLinking(e, u, m, f)
    BY <1>1, <1>8, <1>9, <1>10, <1>12 DEF IsLinking, LinkIsLeft, e, m, f, u
<1>13. CASE IsObservation(e, u, m, f)
    <2>1. PICK h \in x.items[i].links :
            /\ h.object = l.object
            /\ l.managed = IF e.payload.expected = None THEN e.payload.managed ELSE h.managed
            /\ e.payload.expected = None => h.legacy
        BY <1>5, <1>9, <1>13 DEF IsObservation, LinkIsLeft
    <2>2. l.last = ObservationOf(f) /\ IsTitled(u, m, f)
        BY <1>9, <1>13 DEF IsObservation, LinkIsLeft
    <2>3. e.type # "work_item.created"
        BY <1>13 DEF IsObservation
    <2>4. i \in Known(x)
        BY <1>5, <1>6, <2>3, AcceptedEvent
    <2>5. LinksTo(u, i, l.object) = LinksTo(x, i, l.object)
        BY <1>3, <1>4
    <2>6. i \in Known(u) /\ h \in u.items[i].links
        BY <2>1, <2>4, <2>5, SameLink
    <2>7. LinkIn(u, m, f) = h
        <3>1. h \in LinkOf(u, i, l.object) /\ \A g \in LinkOf(u, i, l.object) : g = h
            BY <1>4, <2>1, <2>6 DEF IsWorkflow, IsItem, LinkOf
        <3>2. (CHOOSE g \in LinkOf(u, i, l.object) : TRUE) = h
            BY <3>1
        <3> QED BY <1>2, <1>4, <3>2 DEF LinkIn, f
    <2>8. m.managed
        BY <1>8, <1>13, <2>1, <2>7 DEF IsObservation
    <2>9. l.last.title = f.title
        BY <1>10, <2>2
    <2> QED BY <1>1, <2>2, <2>8, <2>9 DEF e, m, f, u
<1>14. CASE IsUpdate(e, m, f)
    BY <1>8, <1>14 DEF IsUpdate, IsAbout
<1> QED BY <1>1, <1>11, <1>12, <1>13, <1>14 DEF e, m, f, u

\* The title of the item in the end is the one its managing link last observed.
LEMMA TitleOfItem ==
    ASSUME NoneIsApart, NEW p, IsAccepted(p), ItemOf(p) \in Known(At(p, Len(p.events))),
           NEW l \in At(p, Len(p.events)).items[ItemOf(p)].links, l.managed
    PROVE  At(p, Len(p.events)).items[ItemOf(p)].title = l.last.title
<1> DEFINE i == ItemOf(p)
           v == At(p, Len(p.events))
           m == p.snapshot.mapping
<1>1. CASE \E k \in 1..Len(p.events) : p.events[k].type = "work_item.updated"
    BY <1>1, UpdatedTitle
<1>2. CASE \A k \in 1..Len(p.events) : p.events[k].type # "work_item.updated"
    <2>1. \A e \in PlanEvents(p) : e.type # "work_item.updated"
        BY <1>2, PlanRun
    <2>2. CASE \A k \in 1..Len(p.events) : ~IsAbout(p.events[k], l.object)
        BY <2>1, <2>2, TitleElsewhere
    <2>3. CASE \E k \in 1..Len(p.events) : IsAbout(p.events[k], l.object)
        <3>1. PICK k \in 1..Len(p.events) : IsAbout(p.events[k], l.object)
            BY <2>3
        <3>2. PICK n \in 1..FactsCount(p) :
                 /\ p.events[k] \in EventsAt(p, n)
                 /\ l.last.title = FactAt(p, n).title /\ m.managed
                 /\ \/ IsCreation(p.events[k], m, FactAt(p, n))
                    \/ IsTitled(Before(p, n), m, FactAt(p, n))
            BY <3>1, ManagerIsFact
        <3>3. /\ i \in Known(p.base) => v.items[i].title = p.base.items[i].title
              /\ \A e \in PlanEvents(p) :
                    e.type = "work_item.created" => v.items[i].title = e.payload.title
              /\ i \notin Known(p.base) => \E e \in PlanEvents(p) : e.type = "work_item.created"
            BY <2>1, TitleOfPlan
        <3>4. CASE IsCreation(p.events[k], m, FactAt(p, n))
            <4>1. p.events[k] \in PlanEvents(p)
                BY PlanRun
            <4> QED BY <3>2, <3>3, <3>4, <4>1 DEF IsCreation
        <3>5. CASE IsTitled(Before(p, n), m, FactAt(p, n))
            <4>1. i \in Known(Before(p, n)) /\ i = m.item
                BY <3>5 DEF IsTitled, ItemOf
            <4>2. \A g \in EventsAt(p, n) : g.type # "work_item.updated"
                BY <2>1, PlanFacts DEF IsAccepted
            <4>3. Before(p, n).items[i].title = FactAt(p, n).title
                BY <3>2, <3>5, <4>1, <4>2 DEF IsTitled, EventsAt
            <4>4. /\ i \in Known(p.base) => Before(p, n).items[i].title = p.base.items[i].title
                  /\ \A e \in PlanEvents(p) :
                        e.type = "work_item.created" => Before(p, n).items[i].title = e.payload.title
                BY <2>1, <4>1, TitleOfPlan
            <4> QED BY <3>2, <3>3, <4>3, <4>4
        <3> QED BY <3>2, <3>4, <3>5
    <2> QED BY <2>2, <2>3
<1> QED BY <1>1, <1>2

\* A plan that is carried out leaves every title where its source is.
LEMMA TitlesAfterPlan ==
    ASSUME NoneIsApart, NEW p, IsAccepted(p)
    PROVE  LET v == AppliedAll(p.base, p.events)
           IN  OneManager(v) /\ TitleHeld(v) /\ UpdatesRemembered(v)
<1> DEFINE v == At(p, Len(p.events))
           w == p.base
<1>1. AppliedAll(p.base, p.events) = v
    BY DEF AppliedAll, At
<1>2. 0 \in 0..Len(p.events) /\ Len(p.events) \in 0..Len(p.events) /\ 0 + 1 = 1 /\ At(p, 0) = w
    BY PlanRun
<1>3. OneManager(v)
    BY <1>2, PlanKeepsOneManager
<1>4. Leaves(w, v, p.events, 0, Len(p.events))
    <2>1. Leaves(At(p, 0), v, p.events, 0, Len(p.events))
        BY <1>2, PlanRun
    <2> QED BY <1>2, <2>1
<1>5. /\ IsPlanned(p) /\ p.conflicts = {} /\ Projects(p, p.base) /\ Remembered(w)
      /\ OneManager(w) /\ TitleHeld(w) /\ UpdatesRemembered(w) /\ IsWorkflow(w)
    BY DEF IsAccepted, IsPlanned
<1>6. TitleHeld(v)
    <2> SUFFICES ASSUME NEW j \in Known(v), NEW l \in v.items[j].links, l.managed
                 PROVE  v.items[j].title = l.last.title
        BY DEF TitleHeld
    <2>1. CASE j = ItemOf(p)
        BY <2>1, TitleOfItem
    <2>2. CASE j # ItemOf(p)
        <3>1. \A k \in 1..Len(p.events) : p.events[k].item # j
            BY <2>2, PlanStep
        <3>2. j \in ItemId
            BY DEF Known
        <3> HIDE DEF v
        <3>3. v.items[j] = w.items[j]
            BY <1>2, <1>4, <3>1, <3>2 DEF Leaves
        <3>4. j \in Known(w)
            BY <3>2, <3>3 DEF Known
        <3> QED BY <1>5, <3>3, <3>4 DEF TitleHeld
    <2> QED BY <2>1, <2>2
<1>7. UpdatesRemembered(v)
    <2>1. PlanEvents(p) \subseteq v.processed /\ Remembered(v) /\ IsWorkflow(v)
        BY <1>1, <1>5, AllProcessed DEF PlanEvents
    <2> SUFFICES ASSUME NEW e \in v.processed, e.type = "work_item.updated"
                 PROVE  Holds(v, e.item, e.payload.object, e.at)
        BY DEF UpdatesRemembered
    <2>2. CASE e \in w.processed
        <3>1. Holds(w, e.item, e.payload.object, e.at)
            BY <1>5, <2>2 DEF UpdatesRemembered
        <3>2. Follows(w, v)
            BY <1>4 DEF Leaves
        <3> HIDE DEF v
        <3> QED BY <1>5, <2>1, <3>1, <3>2, HoldsOn
    <2>3. CASE e \notin w.processed
        <3>1. PICK k \in 1..Len(p.events) : e = p.events[k]
            BY <1>2, <1>4, <2>3 DEF Leaves
        <3>2. IsTaken(p.events[k])
            BY <3>1 DEF IsTaken
        <3>3. PICK n \in 1..FactsCount(p) :
                /\ e \in EventsAt(p, n) /\ IsEventOf(e, p.snapshot.mapping, FactAt(p, n))
                /\ TypeOf[FactAt(p, n).object] = "issue"
                /\ \/ IsCreation(e, p.snapshot.mapping, FactAt(p, n))
                   \/ IsLinking(e, Before(p, n), p.snapshot.mapping, FactAt(p, n))
                   \/ IsObservation(e, Before(p, n), p.snapshot.mapping, FactAt(p, n))
                   \/ IsUpdate(e, p.snapshot.mapping, FactAt(p, n))
            BY <3>1, <3>2, PlanEventIs
        <3>4. IsUpdate(e, p.snapshot.mapping, FactAt(p, n))
            BY <3>3 DEF IsCreation, IsLinking, IsObservation
        <3>5. EventsAt(p, n) \subseteq PlanEvents(p) /\ IsFact(FactAt(p, n))
            BY <1>5, PlanFacts
        <3> DEFINE m == p.snapshot.mapping
                   f == FactAt(p, n)
                   u == Before(p, n)
        <3>6. EventsOf(StepsOf(u, m, f)) # {} /\ EventsOf(StepsOf(u, m, f)) \subseteq v.processed
            BY <2>1, <3>3, <3>5 DEF EventsAt
        <3>7. IsFact(f) /\ TypeOf[f.object] = "issue" /\ e.item = m.item
            BY <3>3, <3>5 DEF IsEventOf
        <3>8. e.payload.object = f.object /\ e.at = f.at
            BY <3>4 DEF IsUpdate
        <3> HIDE DEF m, f, u, v
        <3>9. Holds(v, m.item, f.object, f.at)
            BY <2>1, <3>6, <3>7, EventHolds
        <3> QED BY <3>7, <3>8, <3>9
    <2> QED BY <2>2, <2>3
<1> QED BY <1>1, <1>3, <1>6, <1>7

\* What else is appended says nothing of titles that are managed.
LEMMA TitlesAfterAppend ==
    ASSUME NoneIsApart, NEW w, IsWorkflow(w), OneManager(w), TitleHeld(w), UpdatesRemembered(w),
           NEW e \in DirectEvents, IsDirect(e)
    PROVE  LET v == Applied(w, e)
           IN  OneManager(v) /\ TitleHeld(v) /\ UpdatesRemembered(v)
<1> DEFINE v == Applied(w, e)
<1>1. /\ e.item \in ItemId /\ SaysWhen(e) /\ e.type # "work_item.updated"
      /\ e.type = "work_item.created" => e.payload.link = LegacyLink(e.payload.link.object)
      /\ e.type # "work_item.created" => IsQuiet(e)
    BY SnapshotAssumption DEF IsDirect, SaysWhen, IsQuiet, IsLinkEvent
<1>2. e.type = "work_item.created" => ~e.payload.link.managed
    BY <1>1 DEF LegacyLink
<1>3. OneManager(v)
    BY <1>1, <1>2, EventKeepsOneManager DEF ManagesKnowingly
<1>4. TitleHeld(v)
    <2>1. CASE e \in w.processed \/ Refusal(w, e) # "none"
        BY <2>1 DEF Applied
    <2>2. CASE e.type # "work_item.created"
        <3>1. /\ \A i \in Known(w) : v.items[i].links = w.items[i].links /\ v.items[i].title = w.items[i].title
              /\ \A i \in Known(v) : i \in Known(w)
            BY <1>1, <2>2, EventSays
        <3> HIDE DEF v
        <3> QED BY <3>1 DEF TitleHeld
    <2>3. CASE e.type = "work_item.created" /\ e \notin w.processed /\ Refusal(w, e) = "none"
        <3>1. /\ v.items[e.item].links = {e.payload.link}
              /\ \A i \in ItemId : i # e.item => v.items[i] = w.items[i]
            BY <1>1, <2>3, AcceptedItem
        <3> HIDE DEF v
        <3>2. \A i \in Known(v) : i \in ItemId /\ (i # e.item => i \in Known(w))
            BY <3>1 DEF Known
        <3> QED BY <1>2, <2>3, <3>1, <3>2 DEF TitleHeld
    <2> QED BY <2>1, <2>2, <2>3
<1>5. UpdatesRemembered(v)
    <2>1. IsWorkflow(v) /\ Follows(w, v) /\ \A g \in v.processed : g \in w.processed \/ g = e
        BY <1>1, EventKeepsLinks, EventProcessed
    <2> HIDE DEF v
    <2>2. ASSUME NEW i, NEW o, NEW at, Holds(w, i, o, at) PROVE Holds(v, i, o, at)
        BY <2>1, <2>2, HoldsOn
    <2> QED BY <1>1, <2>1, <2>2 DEF UpdatesRemembered
<1> QED BY <1>3, <1>4, <1>5

\* Titles: the invariant.
TitleInv ==
    ImportInv /\ OneManager(workflow) /\ TitleHeld(workflow) /\ UpdatesRemembered(workflow)

LEMMA TitleInitHolds ==
    ASSUME workflow = EmptyWorkflow, version = [o \in Object |-> 1], plans = {}, applying = None
    PROVE  TitleInv
<1>1. ImportInv
    BY ImportInitHolds
<1>2. Known(workflow) = {} /\ workflow.processed = {}
    BY DEF Known, EmptyWorkflow
<1> QED BY <1>1, <1>2 DEF TitleInv, OneManager, TitleHeld, UpdatesRemembered

LEMMA TitleStepKeeps ==
    ASSUME NoneIsApart, TitleInv, [ImportNext]_importVars
    PROVE  TitleInv'
<1>1. ImportInv' /\ ImportInv
    BY ImportStepKeeps DEF TitleInv
<1>2. CASE Commit
    <2> DEFINE p == applying.plan
    <2>1. applying # None /\ workflow' = AppliedAll(workflow, p.events)
        BY <1>2 DEF Commit
    <2>2. /\ IsPlanned(p) /\ p.base = workflow /\ p.conflicts = {} /\ Projects(p, p.base)
          /\ Remembered(workflow)
        BY <1>1, <2>1 DEF ImportInv, IsAtWork
    <2>3. IsAccepted(p)
        BY <2>2 DEF IsAccepted, TitleInv
    <2> HIDE DEF p
    <2>4. OneManager(workflow') /\ TitleHeld(workflow') /\ UpdatesRemembered(workflow')
        BY <2>1, <2>2, <2>3, TitlesAfterPlan
    <2> QED BY <1>1, <2>4 DEF TitleInv, OneManager, TitleHeld, UpdatesRemembered, Known, Holds
<1>3. ASSUME NEW e \in DirectEvents, AppendEvent(e) PROVE TitleInv'
    <2>1. workflow' = Applied(workflow, e) /\ IsDirect(e)
        BY <1>3 DEF AppendEvent
    <2>2. IsWorkflow(workflow)
        BY <1>1 DEF ImportInv
    <2>3. OneManager(workflow') /\ TitleHeld(workflow') /\ UpdatesRemembered(workflow')
        BY <2>1, <2>2, TitlesAfterAppend DEF TitleInv
    <2> QED BY <1>1, <2>3 DEF TitleInv, OneManager, TitleHeld, UpdatesRemembered, Known, Holds
<1>4. CASE UNCHANGED workflow
    BY <1>1, <1>4 DEF TitleInv, OneManager, TitleHeld, UpdatesRemembered, Known, Holds
<1>5. Commit \/ (\E e \in DirectEvents : AppendEvent(e)) \/ UNCHANGED workflow
    BY DEF ImportNext, importVars, Preview, BeginApply, Discard, Edit, Verify, Abandon, SetPolicy
<1> QED BY <1>2, <1>3, <1>4, <1>5

LEMMA TitleInvFollows ==
    ASSUME TitleInv
    PROVE  TitleFollowsItsSource
<1> SUFFICES ASSUME NEW i \in Known(workflow)
             PROVE  LET managers == {l \in workflow.items[i].links : l.managed}
                    IN  /\ Cardinality(managers) <= 1
                        /\ \A l \in managers : workflow.items[i].title = l.last.title
    BY DEF TitleFollowsItsSource
<1> DEFINE managers == {l \in workflow.items[i].links : l.managed}
<1>1. \A l, k \in managers : l = k
    BY DEF TitleInv, OneManager
<1>2. \A l \in managers : workflow.items[i].title = l.last.title
    BY DEF TitleInv, TitleHeld
<1>3. Cardinality(managers) <= 1
    <2>1. CASE managers = {}
        BY <2>1, FS_EmptySet
    <2>2. CASE managers # {}
        <3>1. PICK l : managers = {l}
            BY <1>1, <2>2
        <3>2. Cardinality({l}) = 1
            BY FS_Singleton
        <3> HIDE DEF managers
        <3> QED BY <3>1, <3>2
    <2> QED BY <2>1, <2>2
<1> QED BY <1>2, <1>3

\* snapshot-import.ts, workflow.ts: a title that a link manages is the title that link has
\* last observed, and no second link manages it, whatever plans are applied and whatever
\* others append; for any objects, histories, mappings and policies.
THEOREM TitlesFollowTheirSource ==
    ASSUME NoneIsApart PROVE ImportSpec => []TitleFollowsItsSource
<1>1. ImportInit => TitleInv
    BY TitleInitHolds DEF ImportInit
<1>2. TitleInv /\ [ImportNext]_importVars => TitleInv'
    BY TitleStepKeeps
<1>3. TitleInv => TitleFollowsItsSource
    BY TitleInvFollows
<1> QED BY <1>1, <1>2, <1>3, PTL DEF ImportSpec

\* The first n of a list.
FirstOf(list, n) == {list[i] : i \in 1..n}

\* What a page adds to the pages before it.
LEMMA PagesAddUp ==
    ASSUME NEW list, Scoped!IsSequence(list), NEW after \in 0..Len(list)
    PROVE  LET page == Scoped!Page(list, after) IN
           /\ page.endCursor \in 0..Len(list)
           /\ FirstOf(list, after) \cup page.nodes = FirstOf(list, page.endCursor)
           /\ ~page.hasNextPage => FirstOf(list, page.endCursor) = Scoped!ToSet(list)
<1> DEFINE last == IF after + PAGE_SIZE < Len(list) THEN after + PAGE_SIZE ELSE Len(list)
           T == Scoped!ToSet(list)
<1>1. list \in Seq(T) /\ Len(list) \in Nat /\ DOMAIN list = 1..Len(list)
    BY DEF Scoped!IsSequence
<1>2. last \in after..Len(list) /\ last \in Nat /\ last <= Len(list) /\ after \in Nat
    BY <1>1, LinearAssumption
<1> HIDE DEF last, T
<1>3. /\ Len(SubSeq(list, after + 1, last)) = last - after
      /\ \A i \in 1..(last - after) : SubSeq(list, after + 1, last)[i] = list[after + i]
      /\ DOMAIN SubSeq(list, after + 1, last) = 1..(last - after)
    <2>1. after + 1 \in 1..(Len(list) + 1) /\ last \in ((after + 1) - 1)..Len(list)
        BY <1>1, <1>2
    <2> QED BY <1>1, <1>2, <2>1, SubSeqProperties
<1>4. Scoped!ToSet(SubSeq(list, after + 1, last)) = {list[i] : i \in (after + 1)..last}
    <2>1. Scoped!ToSet(SubSeq(list, after + 1, last))
            = {SubSeq(list, after + 1, last)[i] : i \in 1..(last - after)}
        BY <1>3 DEF Scoped!ToSet
    <2>2. ASSUME NEW i \in 1..(last - after)
          PROVE  after + i \in (after + 1)..last
        BY <1>2
    <2>3. ASSUME NEW i \in (after + 1)..last
          PROVE  i - after \in 1..(last - after) /\ after + (i - after) = i
        BY <1>2
    <2>4. ASSUME NEW x \in {SubSeq(list, after + 1, last)[i] : i \in 1..(last - after)}
          PROVE  x \in {list[i] : i \in (after + 1)..last}
        BY <1>3, <2>2
    <2>5. ASSUME NEW x \in {list[i] : i \in (after + 1)..last}
          PROVE  x \in {SubSeq(list, after + 1, last)[i] : i \in 1..(last - after)}
        <3>1. PICK i \in (after + 1)..last : x = list[i]
            OBVIOUS
        <3>2. SubSeq(list, after + 1, last)[i - after] = list[after + (i - after)]
            BY <1>3, <2>3
        <3> QED BY <2>3, <3>1, <3>2
    <2> QED BY <2>1, <2>4, <2>5
<1>5. FirstOf(list, after) \cup {list[i] : i \in (after + 1)..last} = FirstOf(list, last)
    <2>1. \A i : i \in 1..last <=> (i \in 1..after \/ i \in (after + 1)..last)
        BY <1>1, <1>2
    <2> QED BY <2>1 DEF FirstOf
<1>6. FirstOf(list, Len(list)) = Scoped!ToSet(list)
    BY <1>1 DEF FirstOf, Scoped!ToSet
<1>7. Scoped!Page(list, after)
        = [nodes |-> Scoped!ToSet(SubSeq(list, after + 1, last)),
           hasNextPage |-> last < Len(list), endCursor |-> last]
    BY DEF Scoped!Page, last
<1>8. ~(last < Len(list)) => last = Len(list)
    <2>1. last \in Nat /\ Len(list) \in Nat /\ last <= Len(list)
        BY <1>1, <1>2
    <2> QED BY ONLY <2>1
<1>9. last \in 0..Len(list)
    BY <1>1, <1>2
<1> DEFINE page == Scoped!Page(list, after)
<1>10. /\ page.nodes = {list[i] : i \in (after + 1)..last}
       /\ page.hasNextPage = (last < Len(list))
       /\ page.endCursor = last
    <2>1. page = [nodes |-> {list[i] : i \in (after + 1)..last},
                  hasNextPage |-> last < Len(list), endCursor |-> last]
        BY <1>4, <1>7, Zenon
    <2> HIDE DEF page
    <2> QED BY ONLY <2>1
<1> HIDE DEF page
<1>11. /\ page.endCursor \in 0..Len(list)
       /\ FirstOf(list, after) \cup page.nodes = FirstOf(list, page.endCursor)
       /\ ~page.hasNextPage => FirstOf(list, page.endCursor) = Scoped!ToSet(list)
    BY <1>5, <1>6, <1>8, <1>9, <1>10
<1> QED BY <1>11 DEF page

-----------------------------------------------------------------------------
(* The scope.                                                              *)

Stages == {"teams", "projects", "members", "states"}
ReadingFields == {"stage", "after", "page", "visited", "nodes", "org", "team", "project"}

\* What a reading knows when every page came from the same lists: what it found,
Found(linear, r) ==
    /\ r.stage \in Stages
    /\ r.stage # "teams" =>
        /\ Scoped!IsWorkspace(linear.org)
        /\ \E t \in Scoped!ToSet(linear.teams) : t.id = r.team
        /\ \A t \in Scoped!ToSet(linear.teams) : Scoped!IsTeam(t) <=> t.id = r.team
    /\ r.stage \in {"members", "states"} =>
        /\ \E p \in Scoped!ToSet(linear.projects) : p.id = r.project
        /\ \A p \in Scoped!ToSet(linear.projects) : Scoped!IsProject(p) <=> p.id = r.project
    /\ r.stage = "states" => \E n \in Scoped!ToSet(linear.members[r.project]) : n.id = r.team

\* and what it has read of the list it is at.
Reads(linear, r) ==
    /\ Found(linear, r)
    /\ r.after \in 0..Len(Scoped!ListOf(linear, r))
    /\ r.nodes = FirstOf(Scoped!ListOf(linear, r), r.after)

Resolved(linear, q) == q.stage = "resolved" /\ Scoped!IsScope(linear, Scoped!ReadyScope(q))

\* A steady list has one object of an id, and a name that is there once has one id.
LEMMA OnlyOfItsName ==
    ASSUME NEW nodes, Scoped!IsSteady(nodes), NEW named \in SUBSET nodes, Scoped!IsUnique(named)
    PROVE  /\ Scoped!Only(named) \in named
           /\ \A n \in nodes : n \in named <=> n.id = Scoped!Only(named).id
<1>1. PICK x \in named : named = {x}
    BY DEF Scoped!IsUnique
<1>2. Scoped!Only(named) = x
    BY <1>1 DEF Scoped!Only
<1> QED BY <1>1, <1>2 DEF Scoped!IsSteady

\* A list that was read to its end.
LEMMA NextListReads ==
    ASSUME NEW linear, Scoped!IsListed(linear), NEW r, Found(linear, r),
           r.nodes = Scoped!ToSet(Scoped!ListOf(linear, r)),
           r.stage = "teams" => r.org = linear.org,
           DOMAIN r = ReadingFields, Scoped!Accepts(r)
    PROVE  LET q == Scoped!NextList(r) IN Reads(linear, q) \/ Resolved(linear, q)
<1> DEFINE q == Scoped!NextList(r)
           n == [r EXCEPT !.after = 0, !.page = 0, !.visited = {}, !.nodes = {}]
<1>1. \A list : FirstOf(list, 0) = {}
    BY DEF FirstOf
<1>2. /\ n.stage = r.stage /\ n.after = 0 /\ n.nodes = {}
      /\ n.org = r.org /\ n.team = r.team /\ n.project = r.project
      /\ DOMAIN n = ReadingFields
    BY DEF ReadingFields
<1>3. \A list : Scoped!IsSequence(list) => 0 \in 0..Len(list)
    BY DEF Scoped!IsSequence
<1> HIDE DEF n
<1>4. CASE r.stage = "teams"
    <2> DEFINE t == Scoped!Only(Scoped!Teams(r.nodes))
    <2>1. r.nodes = Scoped!ToSet(linear.teams)
        BY <1>4 DEF Scoped!ListOf
    <2>2. /\ Scoped!IsWorkspace(linear.org)
          /\ t \in r.nodes
          /\ \A x \in r.nodes : Scoped!IsTeam(x) <=> x.id = t.id
        <3>1. Scoped!IsSteady(r.nodes) /\ Scoped!IsUnique(Scoped!Teams(r.nodes))
            BY <1>4 DEF Scoped!Accepts
        <3>2. Scoped!Teams(r.nodes) \in SUBSET r.nodes
            BY DEF Scoped!Teams
        <3>3. \A x \in r.nodes : x \in Scoped!Teams(r.nodes) <=> Scoped!IsTeam(x)
            BY DEF Scoped!Teams
        <3> QED BY <1>4, <3>1, <3>2, <3>3, OnlyOfItsName DEF Scoped!Accepts
    <2> HIDE DEF t
    <2>3. q = [n EXCEPT !.stage = "projects", !.team = t.id]
        BY <1>4 DEF Scoped!NextList, n, t
    <2>4. q.stage = "projects" /\ q.team = t.id /\ q.after = 0 /\ q.nodes = {}
        BY <1>2, <2>3 DEF ReadingFields
    <2> HIDE DEF q
    <2>5. Scoped!ListOf(linear, q) = linear.projects
        BY <2>4 DEF Scoped!ListOf
    <2>6. 0 \in 0..Len(linear.projects)
        BY <1>3 DEF Scoped!IsListed
    <2>7. Reads(linear, q)
        BY <1>1, <2>1, <2>2, <2>4, <2>5, <2>6 DEF Reads, Found, Stages
    <2> QED BY <2>7 DEF q
<1>5. CASE r.stage = "projects"
    <2> DEFINE p == Scoped!Only(Scoped!Projects(r.nodes))
    <2>1. r.nodes = Scoped!ToSet(linear.projects)
        BY <1>5 DEF Scoped!ListOf
    <2>2. /\ p \in r.nodes
          /\ \A x \in r.nodes : Scoped!IsProject(x) <=> x.id = p.id
        <3>1. Scoped!IsSteady(r.nodes) /\ Scoped!IsUnique(Scoped!Projects(r.nodes))
            BY <1>5 DEF Scoped!Accepts
        <3>2. Scoped!Projects(r.nodes) \in SUBSET r.nodes
            BY DEF Scoped!Projects
        <3>3. \A x \in r.nodes : x \in Scoped!Projects(r.nodes) <=> Scoped!IsProject(x)
            BY DEF Scoped!Projects
        <3> QED BY <3>1, <3>2, <3>3, OnlyOfItsName
    <2> HIDE DEF p
    <2>3. q = [n EXCEPT !.stage = "members", !.project = p.id]
        BY <1>5 DEF Scoped!NextList, n, p
    <2>4. /\ q.stage = "members" /\ q.project = p.id /\ q.after = 0 /\ q.nodes = {}
          /\ q.team = r.team
        BY <1>2, <2>3 DEF ReadingFields
    <2> HIDE DEF q
    <2>5. Scoped!ListOf(linear, q) = linear.members[p.id]
        BY <2>4 DEF Scoped!ListOf
    <2>6. 0 \in 0..Len(linear.members[p.id])
        BY <1>3, <2>1, <2>2 DEF Scoped!IsListed
    <2>7. Reads(linear, q)
        BY <1>1, <1>5, <2>1, <2>2, <2>4, <2>5, <2>6 DEF Reads, Found, Stages
    <2> QED BY <2>7 DEF q
<1>6. CASE r.stage = "members"
    <2>1. q = [n EXCEPT !.stage = "states"]
        BY <1>6 DEF Scoped!NextList, n
    <2>2. /\ q.stage = "states" /\ q.project = r.project /\ q.after = 0 /\ q.nodes = {}
          /\ q.team = r.team
        BY <1>2, <2>1 DEF ReadingFields
    <2> HIDE DEF q
    <2>3. Scoped!ListOf(linear, q) = linear.states[r.team] /\ Scoped!ListOf(linear, r) = linear.members[r.project]
        BY <1>6, <2>2 DEF Scoped!ListOf
    <2>4. 0 \in 0..Len(linear.states[r.team])
        BY <1>3, <1>6 DEF Scoped!IsListed, Found
    <2>5. \E m \in Scoped!ToSet(linear.members[r.project]) : m.id = r.team
        BY <1>6, <2>3 DEF Scoped!Accepts
    <2>6. Reads(linear, q)
        BY <1>1, <1>6, <2>2, <2>3, <2>4, <2>5 DEF Reads, Found, Stages
    <2> QED BY <2>6 DEF q
<1>7. CASE r.stage = "states"
    <2>1. q = [r EXCEPT !.stage = "resolved"]
        BY <1>7 DEF Scoped!NextList
    <2>2. q.stage = "resolved" /\ q.project = r.project /\ q.nodes = r.nodes /\ q.team = r.team
        BY <2>1 DEF ReadingFields
    <2> HIDE DEF q
    <2>3. r.nodes = Scoped!ToSet(linear.states[r.team])
        BY <1>7 DEF Scoped!ListOf
    <2> DEFINE ready == Scoped!Named(r.nodes, Configured.ready)
               completed == Scoped!Named(r.nodes, Configured.completed)
               s == Scoped!ReadyScope(q)
    <2>4. /\ Scoped!IsSteady(r.nodes) /\ Scoped!IsUnique(ready) /\ Scoped!IsUnique(completed)
          /\ Scoped!Only(ready).type = "unstarted" /\ Scoped!Only(completed).type = "completed"
        BY <1>7 DEF Scoped!Accepts, Scoped!HasReadyStates
    <2>5. ready \in SUBSET r.nodes /\ completed \in SUBSET r.nodes
        BY DEF Scoped!Named
    <2>6. /\ \A x \in r.nodes : x \in ready <=> x.name = Configured.ready
          /\ \A x \in r.nodes : x \in completed <=> x.name = Configured.completed
        BY DEF Scoped!Named
    <2>7. /\ s.team = r.team /\ s.project = r.project
          /\ s.ready = Scoped!Only(ready).id /\ s.completed = Scoped!Only(completed).id
        BY <2>2 DEF Scoped!ReadyScope
    <2> HIDE DEF ready, completed, s
    <2>8. /\ Scoped!Only(ready) \in ready
          /\ \A x \in r.nodes : x.name = Configured.ready <=> x.id = s.ready
        BY <2>4, <2>5, <2>6, <2>7, OnlyOfItsName
    <2>9. /\ Scoped!Only(completed) \in completed
          /\ \A x \in r.nodes : x.name = Configured.completed <=> x.id = s.completed
        BY <2>4, <2>5, <2>6, <2>7, OnlyOfItsName
    <2>10. \A x \in r.nodes : x.id = s.ready => x.type = "unstarted"
        BY <2>4, <2>5, <2>7, <2>8 DEF Scoped!IsSteady
    <2>11. \A x \in r.nodes : x.id = s.completed => x.type = "completed"
        BY <2>4, <2>5, <2>7, <2>9 DEF Scoped!IsSteady
    <2>12. Scoped!IsScope(linear, s)
        BY <1>7, <2>3, <2>7, <2>8, <2>9, <2>10, <2>11 DEF Scoped!IsScope, Found
    <2>13. Resolved(linear, q)
        BY <2>2, <2>12 DEF Resolved, s
    <2> QED BY <2>13 DEF q
<1> QED BY <1>4, <1>5, <1>6, <1>7 DEF Found, Stages

\* One more page of the same lists.
LEMMA PageReads ==
    ASSUME NEW linear \in Lists, NEW r, Reads(linear, r), DOMAIN r = ReadingFields,
           Scoped!AfterPage(linear, r) # None
    PROVE  LET q == Scoped!AfterPage(linear, r) IN Reads(linear, q) \/ Resolved(linear, q)
<1> DEFINE list == Scoped!ListOf(linear, r)
           page == Scoped!Page(list, r.after)
           next == Scoped!NextCursor(page, r.visited)
           read == [r EXCEPT !.nodes = @ \cup page.nodes,
                             !.org = IF r.stage = "teams" THEN linear.org ELSE @]
           q == Scoped!AfterPage(linear, r)
           more == [read EXCEPT !.after = next.cursor, !.page = @ + 1,
                                !.visited = @ \cup {next.cursor}]
<1>1. Scoped!IsListed(linear)
    BY LinearAssumption
<1>2. Scoped!IsSequence(list)
    BY <1>1 DEF Reads, Found, Stages, Scoped!ListOf, Scoped!IsListed
<1>3. r.after \in 0..Len(list)
    BY DEF Reads, Found, Stages
<1>4. /\ page.endCursor \in 0..Len(list)
      /\ FirstOf(list, r.after) \cup page.nodes = FirstOf(list, page.endCursor)
      /\ ~page.hasNextPage => FirstOf(list, page.endCursor) = Scoped!ToSet(list)
    BY <1>2, <1>3, PagesAddUp
<1>5. /\ page.hasNextPage => next.cursor = page.endCursor
      /\ ~page.hasNextPage => next.cursor = None
    BY DEF Scoped!NextCursor
<1>6. /\ Scoped!SameOrganization(linear, r)
      /\ next.cursor # None => q = more
      /\ next.cursor = None => Scoped!Accepts(read) /\ q = Scoped!NextList(read)
    BY Zenon DEF Scoped!AfterPage
<1>7. page.endCursor # None
    <2>1. Len(list) \in Nat
        BY <1>2 DEF Scoped!IsSequence
    <2> QED BY <1>4, <2>1, LinearAssumption
<1> HIDE DEF page, next, q
<1>8. /\ read.stage = r.stage /\ read.after = r.after /\ read.team = r.team
      /\ read.project = r.project /\ read.nodes = r.nodes \cup page.nodes
      /\ read.org = IF r.stage = "teams" THEN linear.org ELSE r.org
      /\ DOMAIN read = ReadingFields
    BY DEF ReadingFields
<1> HIDE DEF read
<1>9. /\ more.stage = r.stage /\ more.after = next.cursor /\ more.team = r.team
      /\ more.project = r.project /\ more.nodes = read.nodes
    BY <1>8 DEF ReadingFields
<1> HIDE DEF more
<1>10. /\ Scoped!ListOf(linear, read) = list
       /\ Scoped!ListOf(linear, more) = list
    BY <1>8, <1>9 DEF Scoped!ListOf
<1>11. read.nodes = FirstOf(list, page.endCursor)
    BY <1>4, <1>8 DEF Reads, Found, Stages
<1>12. CASE next.cursor # None
    <2>1. next.cursor = page.endCursor
        BY <1>5, <1>12
    <2>2. Reads(linear, more)
        <3>1. /\ more.stage \in {"teams", "projects", "members", "states"}
              /\ more.after \in 0..Len(Scoped!ListOf(linear, more))
              /\ more.nodes = FirstOf(Scoped!ListOf(linear, more), more.after)
            BY <1>4, <1>9, <1>10, <1>11, <2>1 DEF Reads, Found, Stages
        <3> QED BY <1>9, <3>1 DEF Reads, Found, Stages
    <2>3. q = more
        BY <1>6, <1>12
    <2> QED BY <2>2, <2>3 DEF q
<1>13. CASE next.cursor = None
    <2>1. ~page.hasNextPage
        BY <1>5, <1>7, <1>13
    <2>2. read.nodes = Scoped!ToSet(Scoped!ListOf(linear, read))
        BY <1>4, <1>10, <1>11, <2>1
    <2>3. Scoped!Accepts(read) /\ q = Scoped!NextList(read)
        BY <1>6, <1>13
    <2>4. Found(linear, read)
        BY <1>8 DEF Reads, Found, Stages
    <2>5. read.stage = "teams" => read.org = linear.org
        BY <1>8
    <2>6. Reads(linear, q) \/ Resolved(linear, q)
        BY <1>1, <1>8, <2>2, <2>3, <2>4, <2>5, NextListReads
    <2> QED BY <2>6 DEF q
<1> QED BY <1>12, <1>13 DEF q

\* A reading stays one, whatever lists it reads.
LEMMA PageIsReading ==
    ASSUME NEW linear, NEW r, DOMAIN r = ReadingFields, r.stage \in Stages,
           Scoped!AfterPage(linear, r) # None
    PROVE  LET q == Scoped!AfterPage(linear, r) IN
           DOMAIN q = ReadingFields /\ q.stage \in Stages \cup {"resolved"}
<1> DEFINE page == Scoped!Page(Scoped!ListOf(linear, r), r.after)
           next == Scoped!NextCursor(page, r.visited)
           read == [r EXCEPT !.nodes = @ \cup page.nodes,
                             !.org = IF r.stage = "teams" THEN linear.org ELSE @]
           more == [read EXCEPT !.after = next.cursor, !.page = @ + 1,
                                !.visited = @ \cup {next.cursor}]
           q == Scoped!AfterPage(linear, r)
<1>1. q = more \/ q = Scoped!NextList(read)
    BY Zenon DEF Scoped!AfterPage
<1> HIDE DEF page, next, q
<1>2. DOMAIN read = ReadingFields /\ read.stage \in Stages
    BY DEF ReadingFields
<1> HIDE DEF read
<1>3. DOMAIN more = ReadingFields /\ more.stage \in Stages
    BY <1>2 DEF ReadingFields
<1>4. LET n == Scoped!NextList(read) IN DOMAIN n = ReadingFields /\ n.stage \in Stages \cup {"resolved"}
    BY <1>2 DEF ReadingFields, Stages, Scoped!NextList
<1>5. DOMAIN q = ReadingFields /\ q.stage \in Stages \cup {"resolved"}
    BY <1>1, <1>3, <1>4
<1> QED BY <1>5 DEF q

-----------------------------------------------------------------------------
(* Taking in a task: the invariant.                                        *)

CommandFields ==
    {"selection", "expected", "plan", "stage", "reading", "during", "scope", "issues", "after",
     "page", "done"}

\* A scope was read of lists that stood still, or nothing is said of it.
ScopeFollows(c) ==
    IF c.stage = "scope"
    THEN /\ DOMAIN c.reading = ReadingFields /\ c.reading.stage \in Stages
         /\ c.issues = <<>>
         /\ \A linear \in Lists : c.during \subseteq {linear} => Reads(linear, c.reading)
    ELSE \A linear \in c.during : Scoped!IsScope(linear, c.scope)

\* What is listed was ready when it was read, and says whether it names all its blockers.
IsListing(c, o) ==
    /\ Versions[o][c.issues[o].k].state = c.scope.ready
    /\ Versions[o][c.issues[o].k].project = c.scope.project
    /\ c.issues[o].native = Native(c.issues[o].really)
    /\ c.issues[o].really \subseteq LinearIssue

\* What is applied is the plan of an issue that nothing blocked.
IsSelected(c) ==
    LET o == c.selection.issue IN
    /\ o \in DOMAIN c.issues
    /\ c.plan.snapshot.facts[o].k = c.issues[o].k
    /\ IsReallyReady(o, c.issues[o].really, c.done)

CommandInv(c) ==
    /\ DOMAIN c = CommandFields
    /\ c.stage \in {"scope", "issues", "states", "apply", "applying"}
    /\ ScopeFollows(c)
    /\ \A o \in DOMAIN c.issues : IsListing(c, o)
    /\ c.stage \in {"apply", "applying"} => IsSelected(c)

\* The apply at work is the command's.
ReadyInv ==
    /\ command # None => CommandInv(command)
    /\ applying # None => DOMAIN applying = ApplyFields
    /\ (command # None /\ applying # None) =>
        command.stage = "applying" /\ applying.plan = command.plan

LEMMA ReadyInitHolds == ReadyInit => ReadyInv
    BY DEF ReadyInit, ReadyInv

LEMMA BeginKeeps ==
    ASSUME NEW s, NEW p, ReadyInv, Begin(s, p)
    PROVE  ReadyInv'
<1> DEFINE c == [selection |-> s, expected |-> p, plan |-> None,
                 stage |-> "scope", reading |-> Scoped!EmptyReading, during |-> {},
                 scope |-> None, issues |-> <<>>, after |-> 0, page |-> 0, done |-> {}]
<1>1. command' = c /\ applying' = None
    BY DEF Begin
<1>2. /\ DOMAIN c = CommandFields /\ c.stage = "scope" /\ c.during = {} /\ c.issues = <<>>
      /\ c.reading = Scoped!EmptyReading
    BY DEF CommandFields
<1> HIDE DEF c
<1>3. ASSUME NEW linear \in Lists PROVE Reads(linear, Scoped!EmptyReading)
    <2> DEFINE r == Scoped!EmptyReading
    <2>1. r.stage = "teams" /\ r.after = 0 /\ r.nodes = {}
        BY DEF Scoped!EmptyReading
    <2> HIDE DEF r
    <2>2. Scoped!ListOf(linear, r) = linear.teams
        BY <2>1 DEF Scoped!ListOf
    <2>3. Scoped!IsSequence(linear.teams)
        BY LinearAssumption DEF Scoped!IsListed
    <2>4. 0 \in 0..Len(linear.teams)
        BY <2>3 DEF Scoped!IsSequence
    <2>5. FirstOf(linear.teams, 0) = {}
        BY DEF FirstOf
    <2>6. Reads(linear, r)
        BY <2>1, <2>2, <2>4, <2>5 DEF Reads, Found, Stages
    <2> QED BY <2>6 DEF r
<1>4. DOMAIN Scoped!EmptyReading = ReadingFields /\ Scoped!EmptyReading.stage \in Stages
    BY DEF Scoped!EmptyReading, ReadingFields, Stages
<1>5. ScopeFollows(c)
    BY <1>2, <1>3, <1>4 DEF ScopeFollows
<1>6. DOMAIN c.issues = {}
    BY <1>2
<1>7. CommandInv(c)
    BY <1>2, <1>5, <1>6 DEF CommandInv
<1> QED BY <1>1, <1>7 DEF ReadyInv

\* A page of the scope, read of some lists.
LEMMA ReadScopeKeeps ==
    ASSUME ReadyInv, ReadScope
    PROVE  ReadyInv'
<1>1. command # None /\ CommandInv(command) /\ command.stage = "scope" /\ applying' = applying
    BY DEF ReadScope, ReadyInv
<1>2. applying = None
    BY <1>1 DEF ReadyInv
<1>3. PICK lists \in Lists :
        LET r == Scoped!AfterPage(lists, command.reading)
            read == [command EXCEPT !.reading = r, !.during = @ \cup {lists}]
        IN /\ r # None
           /\ IF r.stage = "resolved"
              THEN LET scope == Scoped!ReadyScope(r) IN
                   /\ command' = [read EXCEPT !.stage = "issues", !.scope = scope, !.reading = None,
                                   !.during = IF @ = {lists} THEN @ ELSE {}]
                   /\ policy' = ReadyPolicy(scope.team)
              ELSE command' = read /\ UNCHANGED policy
    BY DEF ReadScope
<1> DEFINE r == Scoped!AfterPage(lists, command.reading)
           read == [command EXCEPT !.reading = r, !.during = @ \cup {lists}]
           known == [read EXCEPT !.stage = "issues", !.scope = Scoped!ReadyScope(r),
                                 !.reading = None,
                                 !.during = IF @ = {lists} THEN @ ELSE {}]
<1>4. /\ r # None
      /\ r.stage = "resolved" => command' = known
      /\ r.stage # "resolved" => command' = read
    BY <1>3
<1>5. DOMAIN r = ReadingFields /\ r.stage \in Stages \cup {"resolved"}
    BY <1>1, <1>4, PageIsReading DEF CommandInv, ScopeFollows
<1>6. ASSUME command.during \subseteq {lists}
      PROVE  Reads(lists, r) \/ Resolved(lists, r)
    <2>1. Reads(lists, command.reading) /\ DOMAIN command.reading = ReadingFields
        BY <1>1, <1>6 DEF CommandInv, ScopeFollows
    <2> QED BY <1>4, <2>1, PageReads
<1> HIDE DEF r
<1>7. /\ DOMAIN read = CommandFields /\ read.stage = "scope" /\ read.reading = r
      /\ read.during = command.during \cup {lists} /\ read.issues = <<>>
    BY <1>1 DEF CommandInv, CommandFields, ScopeFollows
<1> HIDE DEF read
<1>8. /\ DOMAIN known = CommandFields /\ known.stage = "issues"
      /\ known.scope = Scoped!ReadyScope(r) /\ known.issues = <<>>
      /\ known.during = IF read.during = {lists} THEN {lists} ELSE {}
    BY <1>7 DEF CommandFields
<1> HIDE DEF known
<1>9. CASE r.stage = "resolved"
    <2>1. ASSUME NEW linear \in known.during
          PROVE  Scoped!IsScope(linear, known.scope)
        <3>1. linear = lists /\ command.during \subseteq {lists}
            BY <1>7, <1>8
        <3> QED BY <1>6, <1>8, <1>9, <3>1 DEF Resolved, Reads, Found, Stages
    <2>2. ScopeFollows(known) /\ DOMAIN known.issues = {}
        BY <1>8, <2>1 DEF ScopeFollows
    <2>3. CommandInv(known)
        BY <1>8, <2>2 DEF CommandInv
    <2> QED BY <1>1, <1>2, <1>4, <1>9, <2>3 DEF ReadyInv
<1>10. CASE r.stage # "resolved"
    <2>1. ASSUME NEW linear \in Lists, read.during \subseteq {linear}
          PROVE  Reads(linear, read.reading)
        <3>1. linear = lists /\ command.during \subseteq {lists}
            BY <1>7, <2>1
        <3> QED BY <1>6, <1>7, <1>10, <3>1 DEF Resolved
    <2>2. ScopeFollows(read) /\ DOMAIN read.issues = {}
        BY <1>5, <1>7, <1>10, <2>1 DEF ScopeFollows
    <2>3. CommandInv(read)
        BY <1>7, <2>2 DEF CommandInv
    <2> QED BY <1>1, <1>2, <1>4, <1>10, <2>3 DEF ReadyInv
<1> QED BY <1>9, <1>10

\* A page of issues.
LEMMA ReadIssuesKeeps ==
    ASSUME ReadyInv, ReadIssues
    PROVE  ReadyInv'
<1>1. command # None /\ CommandInv(command) /\ command.stage = "issues" /\ applying' = applying
    BY DEF ReadIssues, ReadyInv
<1>2. applying = None
    BY <1>1 DEF ReadyInv
<1> DEFINE page == ReadyPage(command.scope, command.after)
<1>3. PICK blockers \in Blockings :
        LET issues == [o \in page.nodes \cup DOMAIN command.issues |->
                        IF o \in page.nodes THEN Listed(o, blockers[o]) ELSE command.issues[o]]
            read == [command EXCEPT !.issues = issues]
        IN  IF page.hasNextPage
            THEN command' = [read EXCEPT !.after = page.endCursor, !.page = @ + 1]
            ELSE command' = [read EXCEPT !.stage = "states"]
    BY DEF ReadIssues
<1> DEFINE issues == [o \in page.nodes \cup DOMAIN command.issues |->
                        IF o \in page.nodes THEN Listed(o, blockers[o]) ELSE command.issues[o]]
           read == [command EXCEPT !.issues = issues]
<1>4. \/ command' = [read EXCEPT !.after = page.endCursor, !.page = @ + 1]
      \/ command' = [read EXCEPT !.stage = "states"]
    BY <1>3
<1>5. ASSUME NEW o \in page.nodes
      PROVE  /\ o \in LinearIssue
             /\ IssueNow(o).state = command.scope.ready /\ IssueNow(o).project = command.scope.project
    BY DEF ReadyPage, OnePage, IsReadyIn
<1> HIDE DEF page
<1>6. /\ DOMAIN issues = page.nodes \cup DOMAIN command.issues
      /\ \A o \in page.nodes : issues[o] = Listed(o, blockers[o])
      /\ \A o \in DOMAIN command.issues : o \notin page.nodes => issues[o] = command.issues[o]
    OBVIOUS
<1> HIDE DEF issues
<1>7. /\ DOMAIN read = CommandFields /\ read.stage = "issues" /\ read.issues = issues
      /\ read.scope = command.scope /\ read.during = command.during
    BY <1>1 DEF CommandInv, CommandFields
<1> HIDE DEF read
<1>8. /\ DOMAIN command' = CommandFields /\ command'.stage \in {"issues", "states"}
      /\ command'.issues = issues
      /\ command'.scope = command.scope /\ command'.during = command.during
    BY <1>4, <1>7 DEF CommandFields
<1>9. ASSUME NEW o \in DOMAIN issues PROVE IsListing(command', o)
    <2>1. CASE o \in page.nodes
        <3>1. /\ issues[o].k = version[o] /\ issues[o].really = blockers[o]
              /\ issues[o].native = Native(blockers[o])
            <4>1. issues[o] = Listed(o, blockers[o])
                BY <1>6, <2>1
            <4> QED BY ONLY <4>1 DEF Listed
        <3>2. blockers[o] \subseteq LinearIssue
            BY <1>5, <2>1, LinearAssumption
        <3> QED BY <1>5, <1>8, <2>1, <3>1, <3>2 DEF IsListing, IssueNow
    <2>2. CASE o \in DOMAIN command.issues /\ o \notin page.nodes
        <3>1. IsListing(command, o) /\ issues[o] = command.issues[o]
            BY <1>1, <1>6, <2>2 DEF CommandInv
        <3> QED BY <1>8, <3>1 DEF IsListing
    <2> QED BY <1>6, <2>1, <2>2
<1>10. ScopeFollows(command')
    BY <1>1, <1>8 DEF CommandInv, ScopeFollows
<1>11. CommandInv(command')
    BY <1>8, <1>9, <1>10 DEF CommandInv
<1> QED BY <1>1, <1>2, <1>11 DEF ReadyInv

\* What says that an issue is ready saw all that blocks it, and saw it done.
LEMMA ReadyIsReallyReady ==
    ASSUME NEW o, NEW listed, NEW dependencies, NEW done, NEW completed,
           listed.native = Native(listed.really), listed.really \subseteq LinearIssue,
           done = {d \in LinearIssue : IssueNow(d).state = completed},
           Readiness(o, listed, StatesNow(dependencies), completed) = "ready"
    PROVE  IsReallyReady(o, listed.really, done)
<1> DEFINE states == StatesNow(dependencies)
           deps == DependenciesOf(o, listed)
<1>1. /\ IsComplete(o, listed) /\ deps \subseteq DOMAIN states
      /\ \A d \in deps : states[d] = completed
    BY DEF Readiness
<1>2. \A d \in DOMAIN states : states[d] = IssueNow(d).state
    BY DEF StatesNow
<1> HIDE DEF states
<1>3. listed.really = listed.native.issues /\ listed.native.issues \subseteq deps
    <2>1. /\ listed.native.issues = OnePage(listed.really)
          /\ listed.native.complete = (OnePage(listed.really) = listed.really)
        <3>1. listed.native = [issues |-> OnePage(listed.really),
                               complete |-> OnePage(listed.really) = listed.really]
            BY DEF Native
        <3> QED BY ONLY <3>1
    <2>2. listed.native.complete
        BY <1>1 DEF IsComplete
    <2> QED BY <2>1, <2>2 DEF DependenciesOf
<1>4. Declared(o).completeness # "unknown" /\ Declared(o).issues \subseteq deps
    BY <1>1 DEF IsComplete, DependenciesOf
<1> HIDE DEF deps
<1>5. \A d \in deps \cap LinearIssue : d \in done
    BY <1>1, <1>2
<1>6. listed.really \subseteq done
    BY <1>3, <1>5
<1>7. ASSUME NEW t \in DOMAIN Tickets, Tickets[t].issue = o, NEW d \in Tickets[t].dependsOn
      PROVE  d \in DOMAIN Tickets /\ Tickets[d].issue \in done
    <2> DEFINE mine == {u \in DOMAIN Tickets : Tickets[u].issue = o}
    <2>1. mine = {t}
        BY <1>7, DependencyAssumption DEF IsDependencyIndex
    <2>2. (CHOOSE x \in mine : TRUE) = t
        BY <2>1
    <2>3. /\ Declared(o).completeness
                = IF Migrated(t) = Tickets[t].dependsOn THEN "complete" ELSE "unknown"
          /\ Declared(o).issues = {Tickets[u].issue : u \in Migrated(t)}
        BY <2>1, <2>2 DEF Declared
    <2>4. d \in Migrated(t)
        BY <1>4, <2>3
    <2>5. d \in DOMAIN Tickets /\ Tickets[d].issue \in deps
        BY <1>4, <2>3, <2>4 DEF Migrated
    <2> QED BY <1>5, <2>5, LinearAssumption
<1> QED BY <1>6, <1>7 DEF IsReallyReady

\* The states of all dependencies.
LEMMA ReadStatesKeeps ==
    ASSUME ReadyInv, ReadStates
    PROVE  ReadyInv'
<1>1. command # None /\ CommandInv(command) /\ command.stage = "states" /\ applying' = applying
    BY DEF ReadStates, ReadyInv
<1>2. applying = None
    BY <1>1 DEF ReadyInv
<1> DEFINE o == command.selection.issue
           completed == command.scope.completed
           done == {d \in LinearIssue : IssueNow(d).state = completed}
           next == [command EXCEPT !.stage = "apply", !.plan = ReadyPlan, !.done = done]
<1>3. /\ o \in DOMAIN command.issues
      /\ Readiness(o, command.issues[o], StatesNow(AllDependencies(command.issues)), completed) = "ready"
      /\ command' = None \/ command' = next
    BY DEF ReadStates
<1>4. CASE command' = None
    BY <1>1, <1>2, <1>4 DEF ReadyInv
<1>5. CASE command' = next
    <2>1. IsListing(command, o)
        BY <1>1, <1>3 DEF CommandInv
    <2>2. IsReallyReady(o, command.issues[o].really, done)
        BY <1>3, <2>1, ReadyIsReallyReady DEF IsListing
    <2>3. ReadyPlan.snapshot.facts[o].k = command.issues[o].k
        <3> DEFINE k == command.issues[o].k
        <3>1. ReadyPlan.snapshot = ReadySnapshot(command.selection, command.scope, k)
            BY PlanHasSnapshot DEF ReadyPlan
        <3>2. ReadySnapshot(command.selection, command.scope, k).facts[o] = Fact(o, k)
            BY DEF ReadySnapshot
        <3>3. Fact(o, k).k = k
            BY DEF Fact
        <3> QED BY <3>1, <3>2, <3>3
    <2> HIDE DEF done
    <2>4. /\ DOMAIN next = CommandFields /\ next.stage = "apply" /\ next.plan = ReadyPlan
          /\ next.done = done /\ next.issues = command.issues /\ next.scope = command.scope
          /\ next.during = command.during /\ next.selection = command.selection
        BY <1>1 DEF CommandInv, CommandFields
    <2> HIDE DEF next
    <2>5. ScopeFollows(next)
        BY <1>1, <2>4 DEF CommandInv, ScopeFollows
    <2>6. \A x \in DOMAIN next.issues : IsListing(next, x)
        BY <1>1, <2>4 DEF CommandInv, IsListing
    <2>7. IsSelected(next)
        BY <1>3, <2>2, <2>3, <2>4 DEF IsSelected
    <2>8. CommandInv(next)
        BY <2>4, <2>5, <2>6, <2>7 DEF CommandInv
    <2> QED BY <1>1, <1>2, <1>5, <2>8 DEF ReadyInv
<1> QED BY <1>3, <1>4, <1>5

LEMMA ApplySelectedKeeps ==
    ASSUME ReadyInv, ApplySelected
    PROVE  ReadyInv'
<1> DEFINE next == [command EXCEPT !.stage = "applying"]
           begun == [plan |-> command.plan, unread |-> Claimed(command.plan), halfway |-> {},
                     from |-> version, seen |-> {}]
<1>1. /\ command # None /\ CommandInv(command) /\ command.stage = "apply"
      /\ command' = next /\ applying' = begun
    BY DEF ApplySelected, BeginApply, ReadyInv
<1>2. DOMAIN begun = ApplyFields /\ begun.plan = command.plan
    BY DEF ApplyFields
<1>3. /\ DOMAIN next = CommandFields /\ next.stage = "applying" /\ next.plan = command.plan
      /\ next.done = command.done /\ next.issues = command.issues /\ next.scope = command.scope
      /\ next.during = command.during /\ next.selection = command.selection
    BY <1>1 DEF CommandInv, CommandFields
<1> HIDE DEF next, begun
<1>4. CommandInv(next)
    BY <1>1, <1>3 DEF CommandInv, ScopeFollows, IsListing, IsSelected
<1> QED BY <1>1, <1>2, <1>3, <1>4 DEF ReadyInv

LEMMA ApplyKeeps ==
    ASSUME ReadyInv, Apply
    PROVE  ReadyInv'
<1>1. command # None /\ CommandInv(command) /\ command.stage = "applying"
    BY DEF Apply, ReadyInv
<1>2. CASE Verify /\ command' = IF applying' = None THEN None ELSE command
    <2>1. applying # None
        BY <1>2 DEF Verify
    <2>2. applying' = None \/ (DOMAIN applying' = ApplyFields /\ applying'.plan = applying.plan)
        BY <1>2, <2>1, VerifyKeepsPlan DEF ReadyInv
    <2> QED BY <1>1, <1>2, <2>1, <2>2 DEF ReadyInv
<1>3. CASE (Commit \/ Abandon) /\ command' = None
    BY <1>3 DEF Commit, Abandon, ReadyInv
<1> QED BY <1>2, <1>3 DEF Apply

\* Every step of the intake and of the world keeps the invariant.
LEMMA ReadyStepKeeps ==
    ASSUME ReadyInv, [ReadyNext]_readyVars
    PROVE  ReadyInv'
<1>1. CASE UNCHANGED readyVars
    BY <1>1 DEF ReadyInv, readyVars, importVars, CommandInv, ScopeFollows, IsListing, IsSelected
<1>2. ASSUME NEW s, NEW p, Begin(s, p) PROVE ReadyInv'
    BY <1>2, BeginKeeps
<1>3. ASSUME NEW s, NEW p, AnswerWithReceipt(s, p) PROVE ReadyInv'
    BY <1>3 DEF AnswerWithReceipt, ReadyInv, readyVars, importVars
<1>4. CASE Refuse
    BY <1>4 DEF Refuse, ReadyInv
<1>5. CASE World
    <2>1. UNCHANGED <<command, applying>>
        BY <1>5 DEF World, Edit, Discard, AppendEvent
    <2> QED BY <2>1 DEF ReadyInv
<1>6. CASE ReadScope \/ ReadIssues \/ ReadStates \/ ApplySelected \/ Apply
    BY <1>6, ReadScopeKeeps, ReadIssuesKeeps, ReadStatesKeeps, ApplySelectedKeeps, ApplyKeeps
<1> QED BY <1>1, <1>2, <1>3, <1>4, <1>5, <1>6 DEF ReadyNext, Intake

\* What is taken in was ready.
LEMMA ReadyStepImportsReady ==
    ASSUME ReadyInv, [ReadyNext]_readyVars, NEW p \in receipts' \ receipts, command # None
    PROVE  LET o == command.selection.issue
               listed == command.issues[o]
           IN  /\ \A lists \in command.during : Scoped!IsScope(lists, command.scope)
               /\ Versions[o][p.snapshot.facts[o].k].state = command.scope.ready
               /\ Versions[o][p.snapshot.facts[o].k].project = command.scope.project
               /\ IsReallyReady(o, listed.really, command.done)
<1>1. UNCHANGED receipts \/ (Apply /\ Commit)
    <2>1. ASSUME NEW s, NEW q, Begin(s, q) PROVE UNCHANGED receipts
        BY <2>1 DEF Begin
    <2>2. ASSUME NEW s, NEW q, AnswerWithReceipt(s, q) PROVE UNCHANGED receipts
        BY <2>2 DEF AnswerWithReceipt, readyVars, importVars
    <2>3. ASSUME ReadScope \/ ReadIssues \/ ReadStates \/ ApplySelected \/ Refuse
          PROVE  UNCHANGED receipts
        BY <2>3 DEF ReadScope, ReadIssues, ReadStates, ApplySelected, BeginApply, Refuse
    <2>4. ASSUME Apply PROVE UNCHANGED receipts \/ (Apply /\ Commit)
        BY <2>4 DEF Apply, Verify, Abandon
    <2>5. ASSUME World PROVE UNCHANGED receipts
        BY <2>5 DEF World, Edit, Discard, AppendEvent
    <2>6. ASSUME UNCHANGED readyVars PROVE UNCHANGED receipts
        BY <2>6 DEF readyVars, importVars
    <2> QED BY <2>1, <2>2, <2>3, <2>4, <2>5, <2>6 DEF ReadyNext, Intake
<1>2. Commit /\ p = applying.plan /\ applying # None
    BY <1>1 DEF Commit
<1>3. /\ CommandInv(command) /\ command.stage = "applying" /\ applying.plan = command.plan
    BY <1>2 DEF ReadyInv
<1> QED BY <1>2, <1>3 DEF CommandInv, ScopeFollows, IsSelected, IsListing

\* linear-ready-work.ts: an issue is taken in only from the configured project and ready
\* state, and only when, as far as its one apply could see, nothing blocked it; for any
\* issues, lists, pages and dependency index, and whatever Linear does in between.
THEOREM OnlyReadyWorkIsTakenIn == ReadySpec => ReadyWhenImported
<1>1. ReadyInit => ReadyInv
    BY ReadyInitHolds
<1>2. ReadyInv /\ [ReadyNext]_readyVars => ReadyInv'
    BY ReadyStepKeeps
<1>3. ReadyInv /\ [ReadyNext]_readyVars =>
        [\A p \in receipts' \ receipts : command # None =>
            LET o == command.selection.issue
                listed == command.issues[o]
            IN  /\ \A lists \in command.during : Scoped!IsScope(lists, command.scope)
                /\ Versions[o][p.snapshot.facts[o].k].state = command.scope.ready
                /\ Versions[o][p.snapshot.facts[o].k].project = command.scope.project
                /\ IsReallyReady(o, listed.really, command.done)]_readyVars
    BY ReadyStepImportsReady
<1> QED BY <1>1, <1>2, <1>3, PTL DEF ReadySpec, ReadyWhenImported

=============================================================================
