----------------------- MODULE AgentViewSelectionProofs -----------------------
(***************************************************************************)
(* For any catalogs, directories and page size: the cursor stays on the    *)
(* list, a request is served as soon as it can be, an unrelated catalog    *)
(* moves nothing, and the session being renamed keeps the cursor.          *)
(***************************************************************************)
EXTENDS AgentViewSelection, FiniteSetTheorems, SequenceTheorems,
        WellFoundedInduction, TLAPS

(***************************************************************************)
(* Numbers and sequences.                                                  *)
(***************************************************************************)

(* A set of naturals has a least element: what the inductions below use.   *)
LEMMA Least ==
  ASSUME NEW T \in SUBSET Nat, T # {}
  PROVE  \E x \in T : \A y \in T : x <= y
<1> DEFINE R == {ss \in Nat \X Nat : ss[1] < ss[2]}
<1>1. IsWellFoundedOn(R, Nat)
  BY NatLessThanWellFounded DEF OpToRel
<1>2. ASSUME NEW x \in Nat, NEW y \in Nat, y < x PROVE <<y, x>> \in R
  <2>1. <<y, x>> \in Nat \X Nat /\ <<y, x>>[1] < <<y, x>>[2]
    BY <1>2
  <2> QED  BY <2>1
<1> HIDE DEF R
<1>3. PICK x \in T : \A y \in T : ~ (<<y, x>> \in R)
  BY <1>1, WFMin
<1>4. ASSUME NEW y \in T PROVE x <= y
  <2>1. x \in Nat /\ y \in Nat
    OBVIOUS
  <2>2. ~ (y < x)
    BY <1>2, <1>3, <2>1
  <2> QED  BY <2>1, <2>2
<1> QED  BY <1>4

LEMMA MinIsIn ==
  ASSUME NEW T \in SUBSET Nat, T # {}
  PROVE  Min(T) \in T
<1>1. \E x \in T : \A y \in T : x <= y
  BY Least
<1> QED  BY <1>1 DEF Min

LEMMA MaxIsIn ==
  ASSUME NEW T \in SUBSET Nat, T # {}, NEW b \in Nat, \A x \in T : x <= b
  PROVE  Max(T) \in T /\ \A y \in T : y <= Max(T)
<1> DEFINE U == {b - x : x \in T}
<1>1. U \in SUBSET Nat /\ U # {}
  <2>1. \A x \in T : x \in Nat /\ b - x \in Nat
    OBVIOUS
  <2>2. PICK x \in T : TRUE
    OBVIOUS
  <2>3. b - x \in U
    OBVIOUS
  <2> QED  BY <2>1, <2>3
<1>2. PICK u \in U : \A v \in U : u <= v
  BY <1>1, Least
<1>3. PICK x \in T : u = b - x
  OBVIOUS
<1>4. \A y \in T : x >= y
  <2> SUFFICES ASSUME NEW y \in T PROVE x >= y
    OBVIOUS
  <2>1. b - x <= b - y
    BY <1>2, <1>3
  <2>2. x \in Nat /\ y \in Nat
    OBVIOUS
  <2> HIDE DEF U
  <2> QED  BY <2>1, <2>2
<1>5. Max(T) \in T /\ \A y \in T : Max(T) >= y
  BY <1>4 DEF Max
<1> QED  BY <1>5

(* Some enumeration of a finite set has the largest rank first.            *)
LEMMA Sortable ==
  ASSUME NEW D, NEW rank \in [D -> Nat], IsFiniteSet(D),
         \A a, b \in D : rank[a] = rank[b] => a = b
  PROVE  \E s \in [1 .. Cardinality(D) -> D] :
            \A i, j \in 1 .. Cardinality(D) : i < j => rank[s[i]] > rank[s[j]]
<1> DEFINE Sorts(s, n) == \A i, j \in 1 .. n : i < j => rank[s[i]] > rank[s[j]]
           T == {n \in Nat : \E S \in SUBSET D :
                   Cardinality(S) = n /\ ~ \E s \in [1 .. n -> S] : Sorts(s, n)}
<1>1. SUFFICES ASSUME T # {} PROVE FALSE
  <2>1. Cardinality(D) \in Nat
    BY FS_CardinalityType
  <2>2. Cardinality(D) \notin T
    BY <1>1
  <2> QED  BY <2>1, <2>2
<1>2. PICK n \in T : \A m \in T : n <= m
  BY <1>1, Least
<1>3. PICK S \in SUBSET D : Cardinality(S) = n /\ ~ \E s \in [1 .. n -> S] : Sorts(s, n)
  OBVIOUS
<1>4. IsFiniteSet(S) /\ n \in Nat
  BY <1>3, FS_Subset
<1>5. S # {}
  <2> SUFFICES ASSUME S = {} PROVE FALSE
    OBVIOUS
  <2>1. n = 0
    BY <1>3, FS_EmptySet
  <2>2. [i \in 1 .. 0 |-> 0] \in [1 .. 0 -> S] /\ Sorts([i \in 1 .. 0 |-> 0], 0)
    OBVIOUS
  <2> QED  BY <1>3, <2>1, <2>2
<1>6. PICK d \in S : \A a \in S : rank[d] <= rank[a]
  <2>1. {rank[a] : a \in S} \in SUBSET Nat /\ {rank[a] : a \in S} # {}
    BY <1>5
  <2>2. PICK x \in {rank[a] : a \in S} : \A y \in {rank[a] : a \in S} : x <= y
    BY <2>1, Least
  <2> QED  BY <2>2
<1>7. IsFiniteSet(S \ {d}) /\ Cardinality(S \ {d}) = n - 1 /\ n - 1 \in Nat
  <2>1. IsFiniteSet(S \ {d}) /\ Cardinality(S \ {d}) = n - 1
    BY <1>3, <1>4, FS_RemoveElement
  <2> QED  BY <2>1, FS_CardinalityType
<1>8. n - 1 \notin T
  <2> HIDE DEF T
  <2> QED  BY <1>2, <1>4, <1>7
<1>9. PICK s \in [1 .. n - 1 -> S \ {d}] : Sorts(s, n - 1)
  BY <1>7, <1>8
<1> DEFINE t == [i \in 1 .. n |-> IF i < n THEN s[i] ELSE d]
<1>10. t \in [1 .. n -> S]
  BY <1>4, <1>9
<1>11. Sorts(t, n)
  <2> SUFFICES ASSUME NEW i \in 1 .. n, NEW j \in 1 .. n, i < j PROVE rank[t[i]] > rank[t[j]]
    OBVIOUS
  <2>1. i \in 1 .. n - 1 /\ t[i] = s[i] /\ s[i] \in S \ {d}
    BY <1>4
  <2>2. CASE j < n
    BY <1>4, <1>9, <2>1, <2>2
  <2>3. CASE j = n
    <3>1. t[j] = d /\ rank[d] <= rank[s[i]] /\ rank[d] # rank[s[i]]
      BY <1>6, <2>1, <2>3
    <3> QED  BY <2>1, <3>1
  <2> QED  BY <1>4, <2>2, <2>3
<1> QED  BY <1>3, <1>10, <1>11

LEMMA DescendingIs ==
  ASSUME NEW D, NEW rank \in [D -> Nat], IsFiniteSet(D),
         \A a, b \in D : rank[a] = rank[b] => a = b
  PROVE  /\ Descending(rank) \in Seq(D)
         /\ Len(Descending(rank)) = Cardinality(D)
         /\ \A d \in D : \E i \in 1 .. Cardinality(D) : Descending(rank)[i] = d
         /\ \A i, j \in 1 .. Cardinality(D) :
               Descending(rank)[i] = Descending(rank)[j] => i = j
<1> DEFINE n == Cardinality(D)
           s == Descending(rank)
<1>1. n \in Nat
  BY FS_CardinalityType
<1>2. s \in [1 .. n -> D] /\ \A i, j \in 1 .. n : i < j => rank[s[i]] > rank[s[j]]
  BY Sortable DEF Descending
<1> HIDE DEF s
<1>3. s \in Seq(D) /\ Len(s) = n
  BY <1>1, <1>2
<1>4. \A i, j \in 1 .. n : s[i] = s[j] => i = j
  <2> SUFFICES ASSUME NEW i \in 1 .. n, NEW j \in 1 .. n, i < j, s[i] = s[j] PROVE FALSE
    OBVIOUS
  <2> QED  BY <1>2
<1>5. s \in Injection(1 .. n, D)
  BY <1>2, <1>4 DEF Injection, IsInjective
<1>6. Cardinality(1 .. n) = n
  BY <1>1, FS_Interval
<1>7. s \in Surjection(1 .. n, D)
  BY <1>5, <1>6, FS_Injection
<1>8. \A d \in D : \E i \in 1 .. n : s[i] = d
  BY <1>7 DEF Surjection
<1> QED  BY <1>3, <1>4, <1>8 DEF s

(* FlattenSeq's elements are those of the parts.  First, the function it   *)
(* is defined by exists.                                                   *)
Flattens(f, seqs, n) ==
  f = [i \in 1 .. n |-> IF i = 1 THEN seqs[i] ELSE f[i-1] \o seqs[i]]

LEMMA FlattensMore ==
  ASSUME NEW seqs, NEW n \in Nat, NEW f, Flattens(f, seqs, n)
  PROVE  \E g : Flattens(g, seqs, n + 1)
<1> DEFINE g == [i \in 1 .. n + 1 |-> IF i = 1 THEN seqs[i] ELSE f[i-1] \o seqs[i]]
<1>1. \A i \in 1 .. n : g[i] = f[i]
  <2> SUFFICES ASSUME NEW i \in 1 .. n PROVE g[i] = f[i]
    OBVIOUS
  <2>1. g[i] = IF i = 1 THEN seqs[i] ELSE f[i-1] \o seqs[i]
    OBVIOUS
  <2>2. f[i] = IF i = 1 THEN seqs[i] ELSE f[i-1] \o seqs[i]
    BY DEF Flattens
  <2> QED  BY <2>1, <2>2
<1>2. Flattens(g, seqs, n + 1)
  <2>1. \A i \in 1 .. n + 1 : i # 1 => g[i-1] = f[i-1]
    <3> HIDE DEF g
    <3>1. \A i \in 1 .. n + 1 : i # 1 => i - 1 \in 1 .. n
      OBVIOUS
    <3> QED  BY <1>1, <3>1
  <2>2. g = [i \in 1 .. n + 1 |-> IF i = 1 THEN seqs[i] ELSE g[i-1] \o seqs[i]]
    BY <2>1
  <2> QED  BY <2>2 DEF Flattens
<1> HIDE DEF g
<1> QED  BY <1>2

LEMMA FlattensExist ==
  ASSUME NEW seqs, NEW n \in Nat
  PROVE  \E f : Flattens(f, seqs, n)
<1> DEFINE T == {m \in Nat : ~ \E f : Flattens(f, seqs, m)}
<1>1. SUFFICES ASSUME T # {} PROVE FALSE
  OBVIOUS
<1>2. PICK m \in T : \A k \in T : m <= k
  BY <1>1, Least
<1>3. m # 0
  <2> DEFINE f == [i \in 1 .. 0 |-> 0]
  <2>1. f = [i \in 1 .. 0 |-> IF i = 1 THEN seqs[i] ELSE f[i-1] \o seqs[i]]
    OBVIOUS
  <2>2. Flattens(f, seqs, 0)
    BY <2>1 DEF Flattens
  <2> HIDE DEF f
  <2> QED  BY <2>2
<1>4. m - 1 \in Nat /\ m - 1 \notin T
  BY <1>2, <1>3
<1>5. PICK f : Flattens(f, seqs, m - 1)
  BY <1>4
<1>6. \E g : Flattens(g, seqs, m - 1 + 1)
  BY <1>4, <1>5, FlattensMore
<1>7. m - 1 + 1 = m
  OBVIOUS
<1> QED  BY <1>6, <1>7

LEMMA ConcatElements ==
  ASSUME NEW A, NEW s \in Seq(A), NEW t \in Seq(A)
  PROVE  s \o t \in Seq(A) /\ ToSet(s \o t) = ToSet(s) \cup ToSet(t)
<1>1. /\ s \o t \in Seq(A)
      /\ Len(s \o t) = Len(s) + Len(t)
      /\ \A i \in 1 .. Len(s) + Len(t) : (s \o t)[i] = IF i <= Len(s) THEN s[i] ELSE t[i - Len(s)]
  BY ConcatProperties
<1> DEFINE u == s \o t
<1> HIDE DEF u
<1>2. ASSUME NEW x \in ToSet(u) PROVE x \in ToSet(s) \cup ToSet(t)
  BY <1>1, <1>2 DEF ToSet, u
<1>3. ASSUME NEW x \in ToSet(s) PROVE x \in ToSet(u)
  BY <1>1, <1>3 DEF ToSet, u
<1>4. ASSUME NEW x \in ToSet(t) PROVE x \in ToSet(u)
  <2>1. PICK i \in 1 .. Len(t) : x = t[i]
    BY <1>4 DEF ToSet
  <2>2. i + Len(s) \in 1 .. Len(s) + Len(t) /\ u[i + Len(s)] = x
    BY <1>1, <2>1 DEF u
  <2> QED  BY <1>1, <2>2 DEF ToSet, u
<1> QED  BY <1>1, <1>2, <1>3, <1>4 DEF u

LEMMA FlattenIs ==
  ASSUME NEW A, NEW seqs \in Seq(Seq(A))
  PROVE  /\ FlattenSeq(seqs) \in Seq(A)
         /\ ToSet(FlattenSeq(seqs)) = UNION {ToSet(seqs[i]) : i \in 1 .. Len(seqs)}
<1>1. CASE Len(seqs) = 0
  <2>1. FlattenSeq(seqs) = <<>>
    BY <1>1 DEF FlattenSeq
  <2>2. ToSet(<<>>) = {}
    BY DEF ToSet
  <2>3. UNION {ToSet(seqs[i]) : i \in 1 .. Len(seqs)} = {}
    BY <1>1
  <2>4. <<>> \in Seq(A)
    OBVIOUS
  <2> QED  BY <2>1, <2>2, <2>3, <2>4
<1>2. CASE Len(seqs) # 0
  <2> DEFINE n == Len(seqs)
             f == CHOOSE g : g = [i \in 1 .. n |-> IF i = 1 THEN seqs[i] ELSE g[i-1] \o seqs[i]]
             h == CHOOSE g : Flattens(g, seqs, n)
  <2>1. n \in Nat /\ n # 0
    BY <1>2
  <2>2. f = [i \in 1 .. n |-> IF i = 1 THEN seqs[i] ELSE f[i-1] \o seqs[i]]
    <3>1. Flattens(h, seqs, n)
      BY <2>1, FlattensExist
    <3>2. h = f
      BY Zenon DEF Flattens
    <3> QED  BY <3>1, <3>2, Zenon DEF Flattens
  <2>3. FlattenSeq(seqs) = f[n]
    BY <1>2 DEF FlattenSeq
  <2> HIDE DEF f
  <2> DEFINE Right(i) == /\ f[i] \in Seq(A)
                         /\ ToSet(f[i]) = UNION {ToSet(seqs[j]) : j \in 1 .. i}
             T == {i \in Nat : i \in 1 .. n /\ ~ Right(i)}
  <2>4. T = {}
    <3> SUFFICES ASSUME T # {} PROVE FALSE
      OBVIOUS
    <3>1. PICK i \in T : \A j \in T : i <= j
      BY Least
    <3>2. seqs[i] \in Seq(A) /\ i \in 1 .. n
      BY <3>1
    <3>3. CASE i = 1
      <4>1. f[i] = seqs[1]
        BY <2>2, <3>2, <3>3
      <4>2. 1 .. 1 = {1}
        OBVIOUS
      <4>3. {ToSet(seqs[j]) : j \in 1 .. 1} = {ToSet(seqs[1])}
        BY <4>2
      <4>4. UNION {ToSet(seqs[1])} = ToSet(seqs[1])
        OBVIOUS
      <4> QED  BY <3>1, <3>2, <3>3, <4>1, <4>3, <4>4
    <3>4. CASE i # 1
      <4>1. i - 1 \in 1 .. n /\ i - 1 \in Nat /\ ~ (i <= i - 1)
        BY <3>2, <3>4
      <4>5. Right(i - 1)
        <5>1. i - 1 \notin T
          BY <3>1, <4>1
        <5> HIDE DEF Right
        <5> QED  BY <4>1, <5>1
      <4>2. f[i] = f[i-1] \o seqs[i]
        BY <2>2, <3>2, <3>4
      <4>3. f[i] \in Seq(A) /\ ToSet(f[i]) = ToSet(f[i-1]) \cup ToSet(seqs[i])
        BY <3>2, <4>5, <4>2, ConcatElements
      <4>4. UNION {ToSet(seqs[j]) : j \in 1 .. i} = (UNION {ToSet(seqs[j]) : j \in 1 .. i - 1}) \cup ToSet(seqs[i])
        BY <3>2, <3>4
      <4> QED  BY <3>1, <4>5, <4>3, <4>4
    <3> QED  BY <3>3, <3>4
  <2>5. Right(n)
    <3> HIDE DEF Right
    <3> QED  BY <2>1, <2>4
  <2> QED  BY <2>1, <2>3, <2>5
<1> QED  BY <1>1, <1>2

----------------------------------------------------------------------------
(***************************************************************************)
(* The list: what is on it, without its order.                             *)
(***************************************************************************)
DirOK == dir \in Seq(Directories) /\ Len(dir) <= MaxSessions

Items0 == [kind : {"session", "more", "sessions"}, of : Sessions \cup GroupIDs]
Displays == [folded : SUBSET GroupIDs, count : [GroupIDs -> 1 .. MaxSessions + PageSize]]

Known(r) == r.shown \subseteq 1 .. Len(dir)
Groups(r) == {GroupOf(r, k) : k \in r.shown}
In(r, g) == {k \in r.shown : GroupOf(r, k) = g}

(* x is an item of group g.                                                 *)
InGroup(r, d, g, x) ==
  \/ g \in d.folded /\ x = ShowSessions(g)
  \/ g \notin d.folded /\ \E i \in 1 .. VisibleRows(r, d, g) : x = Session(Members(r, g)[i])
  \/ g \notin d.folded /\ VisibleRows(r, d, g) < Len(Members(r, g)) /\ x = ShowMore(g)

LEMMA ShownFinite ==
  ASSUME DirOK, NEW r, Known(r)
  PROVE  /\ r.shown \subseteq Sessions /\ r.shown \subseteq Nat /\ IsFiniteSet(r.shown)
         /\ \A S \in SUBSET r.shown :
               IsFiniteSet(S) /\ Cardinality(S) \in 0 .. MaxSessions
<1>1. Len(dir) \in Nat /\ MaxSessions \in Nat /\ Len(dir) <= MaxSessions
  BY SelectionAssumption DEF DirOK
<1>2. r.shown \subseteq 1 .. MaxSessions /\ r.shown \subseteq Nat
  BY <1>1 DEF Known
<1>3. IsFiniteSet(1 .. MaxSessions) /\ Cardinality(1 .. MaxSessions) = MaxSessions
  BY <1>1, FS_Interval
<1>4. ASSUME NEW S \in SUBSET r.shown
      PROVE  IsFiniteSet(S) /\ Cardinality(S) \in 0 .. MaxSessions
  <2>1. IsFiniteSet(S) /\ Cardinality(S) <= MaxSessions
    BY <1>2, <1>3, FS_Subset
  <2>2. Cardinality(S) \in Nat
    BY <2>1, FS_CardinalityType
  <2> QED  BY <1>1, <2>1, <2>2
<1> QED  BY <1>2, <1>4 DEF Sessions

LEMMA GroupIs ==
  ASSUME DirOK, NEW r, Known(r), NEW k \in r.shown
  PROVE  GroupOf(r, k) \in GroupIDs
BY ElementOfSeq DEF DirOK, Known, GroupOf, GroupIDs

(* A group's members, each once.                                            *)
LEMMA MembersAre ==
  ASSUME DirOK, NEW r, Known(r), NEW g
  PROVE  /\ Members(r, g) \in Seq(In(r, g))
         /\ Len(Members(r, g)) = Cardinality(In(r, g))
         /\ Len(Members(r, g)) \in 0 .. MaxSessions
         /\ \A k \in In(r, g) : \E i \in 1 .. Len(Members(r, g)) : Members(r, g)[i] = k
         /\ g \in Groups(r) => Len(Members(r, g)) # 0
<1> DEFINE D == In(r, g)
           rank == [k \in D |-> k]
<1>1. D \subseteq r.shown /\ D \subseteq Nat /\ IsFiniteSet(D) /\ Cardinality(D) \in 0 .. MaxSessions
  BY ShownFinite DEF In
<1>2. rank \in [D -> Nat] /\ \A a, b \in D : rank[a] = rank[b] => a = b
  BY <1>1
<1>3. Members(r, g) = Descending(rank)
  BY DEF Members, NewestFirst, In
<1> HIDE DEF D, rank
<1>4. /\ Descending(rank) \in Seq(D)
      /\ Len(Descending(rank)) = Cardinality(D)
      /\ \A k \in D : \E i \in 1 .. Cardinality(D) : Descending(rank)[i] = k
  <2>1. IsFiniteSet(D)
    BY <1>1
  <2>2. rank \in [D -> Nat]
    BY <1>2
  <2>3. \A a, b \in D : rank[a] = rank[b] => a = b
    BY <1>2
  <2> QED  BY <2>1, <2>2, <2>3, DescendingIs
<1>5. g \in Groups(r) => D # {}
  BY DEF Groups, In, D
<1>6. D # {} => Cardinality(D) # 0
  BY <1>1, FS_EmptySet
<1> QED  BY <1>1, <1>3, <1>4, <1>5, <1>6 DEF D

LEMMA OrderIs ==
  ASSUME DirOK, NEW r, Known(r)
  PROVE  /\ GroupOrder(r) \in Seq(Groups(r))
         /\ \A g \in Groups(r) : \E i \in 1 .. Len(GroupOrder(r)) : GroupOrder(r)[i] = g
<1> DEFINE D == Groups(r)
           rank == [g \in D |-> IF g = Pinned THEN MaxSessions + 1 ELSE Head(Members(r, g))]
<1>1. IsFiniteSet(D)
  <2> DEFINE f == [k \in r.shown |-> GroupOf(r, k)]
  <2>1. f \in Surjection(r.shown, D)
    BY DEF Surjection, Groups
  <2> QED  BY <2>1, ShownFinite, FS_Surjection
<1>2. ASSUME NEW g \in D PROVE Head(Members(r, g)) \in In(r, g)
  <2>1. Members(r, g) \in Seq(In(r, g)) /\ Len(Members(r, g)) # 0
    BY MembersAre
  <2> QED  BY <2>1, HeadTailProperties
<1>3. \A g \in D : In(r, g) \subseteq 1 .. MaxSessions
  BY ShownFinite DEF In, Sessions
<1>4. rank \in [D -> Nat]
  BY <1>2, <1>3, SelectionAssumption
<1>5. ASSUME NEW g \in D, NEW h \in D, rank[g] = rank[h] PROVE g = h
  <2>1. \A e \in D : e # Pinned => rank[e] \in In(r, e) /\ rank[e] \in 1 .. MaxSessions
    BY <1>2, <1>3
  <2>2. \A e \in D : e = Pinned => rank[e] = MaxSessions + 1
    OBVIOUS
  <2>3. MaxSessions \in Nat
    BY SelectionAssumption
  <2> HIDE DEF rank
  <2>4. CASE g = Pinned \/ h = Pinned
    BY <1>5, <2>1, <2>2, <2>3, <2>4
  <2>5. CASE g # Pinned /\ h # Pinned
    BY <1>5, <2>1, <2>5 DEF In
  <2> QED  BY <2>4, <2>5
<1>6. GroupOrder(r) = Descending(rank)
  BY DEF GroupOrder, Groups
<1> HIDE DEF rank, D
<1>7. /\ Descending(rank) \in Seq(D)
      /\ Len(Descending(rank)) = Cardinality(D)
      /\ \A g \in D : \E i \in 1 .. Cardinality(D) : Descending(rank)[i] = g
  BY <1>1, <1>4, <1>5, DescendingIs
<1> QED  BY <1>6, <1>7 DEF D

(* The items of one group.                                                  *)
LEMMA VisibleIs ==
  ASSUME DirOK, NEW r, Known(r), NEW d \in Displays, NEW g \in Groups(r)
  PROVE  /\ VisibleRows(r, d, g) \in 1 .. Len(Members(r, g))
         /\ g = Pinned => VisibleRows(r, d, g) = Len(Members(r, g))
         /\ g # Pinned => VisibleRows(r, d, g) >= d.count[g]
                            \/ VisibleRows(r, d, g) = Len(Members(r, g))
<1>1. Len(Members(r, g)) \in Nat /\ Len(Members(r, g)) # 0
  BY MembersAre
<1>2. g \in GroupIDs
  BY GroupIs DEF Groups
<1>3. d.count[g] \in Nat /\ d.count[g] # 0
  BY <1>2, SelectionAssumption DEF Displays
<1> QED  BY <1>1, <1>3 DEF VisibleRows, Smaller

LEMMA GroupItemsAre ==
  ASSUME DirOK, NEW r, Known(r), NEW d \in Displays, NEW g \in Groups(r)
  PROVE  /\ GroupItems(r, d, g) \in Seq(Items0)
         /\ Len(GroupItems(r, d, g)) # 0
         /\ \A x : x \in ToSet(GroupItems(r, d, g)) <=> InGroup(r, d, g, x)
         /\ Len(GroupItems(r, d, g)) <= MaxSessions + 1
<1> DEFINE n == VisibleRows(r, d, g)
           m == Members(r, g)
<1>1. n \in 1 .. Len(m) /\ Len(m) \in 0 .. MaxSessions
  BY VisibleIs, MembersAre
<1>2. m \in Seq(In(r, g)) /\ In(r, g) \subseteq Sessions
  BY MembersAre, ShownFinite DEF In
<1>3. g \in GroupIDs /\ MaxSessions \in Nat
  BY GroupIs, SelectionAssumption DEF Groups
<1>4. CASE g \in d.folded
  <2>1. GroupItems(r, d, g) = <<ShowSessions(g)>>
    BY <1>4 DEF GroupItems
  <2>2. ShowSessions(g) \in Items0
    BY <1>3 DEF ShowSessions, Items0
  <2>3. ToSet(<<ShowSessions(g)>>) = {ShowSessions(g)}
    BY DEF ToSet
  <2> QED  BY <1>3, <1>4, <2>1, <2>2, <2>3 DEF InGroup
<1>5. CASE g \notin d.folded
  <2> DEFINE s == [i \in 1 .. n |-> Session(m[i])]
             t == IF n < Len(m) THEN <<ShowMore(g)>> ELSE <<>>
  <2>1. GroupItems(r, d, g) = s \o t
    BY <1>5 DEF GroupItems
  <2>2. \A i \in 1 .. n : m[i] \in Sessions /\ Session(m[i]) \in Items0
    BY <1>1, <1>2 DEF Session, Items0
  <2>3. s \in Seq(Items0) /\ Len(s) = n
    BY <1>1, <2>2
  <2>4. ShowMore(g) \in Items0
    BY <1>3 DEF ShowMore, Items0
  <2>5. t \in Seq(Items0) /\ ToSet(t) = (IF n < Len(m) THEN {ShowMore(g)} ELSE {})
          /\ Len(t) = (IF n < Len(m) THEN 1 ELSE 0)
    BY <2>4 DEF ToSet
  <2>6. ToSet(s) = {Session(m[i]) : i \in 1 .. n}
    BY <2>3 DEF ToSet
  <2> HIDE DEF s, t
  <2>7. s \o t \in Seq(Items0) /\ ToSet(s \o t) = ToSet(s) \cup ToSet(t) /\ Len(s \o t) = Len(s) + Len(t)
    <3>1. s \in Seq(Items0) /\ t \in Seq(Items0)
      BY <2>3, <2>5
    <3> HIDE DEF n, m
    <3>2. ToSet(s \o t) = ToSet(s) \cup ToSet(t)
      BY <3>1, ConcatElements
    <3> QED  BY <3>1, <3>2, ConcatProperties
  <2>8. Len(s \o t) # 0 /\ Len(s \o t) <= MaxSessions + 1
    BY <1>1, <1>3, <2>3, <2>5, <2>7
  <2>9. \A x : x \in ToSet(s \o t) <=> InGroup(r, d, g, x)
    BY <1>5, <2>5, <2>6, <2>7 DEF InGroup
  <2> QED  BY <2>1, <2>7, <2>8, <2>9
<1> QED  BY <1>4, <1>5

LEMMA ListedIff ==
  ASSUME DirOK, NEW r, Known(r), NEW d \in Displays
  PROVE  /\ Items(r, d) \in Seq(Items0)
         /\ \A x : x \in Listed(r, d) <=> \E g \in Groups(r) : InGroup(r, d, g, x)
<1> DEFINE order == GroupOrder(r)
           parts == [i \in 1 .. Len(order) |-> GroupItems(r, d, order[i])]
<1>1. order \in Seq(Groups(r)) /\ \A g \in Groups(r) : \E i \in 1 .. Len(order) : order[i] = g
  BY OrderIs
<1>2. ASSUME NEW i \in 1 .. Len(order)
      PROVE  order[i] \in Groups(r) /\ GroupItems(r, d, order[i]) \in Seq(Items0)
  <2> HIDE DEF order
  <2>1. order[i] \in Groups(r)
    BY <1>1
  <2>2. PICK g \in Groups(r) : g = order[i]
    BY <2>1
  <2>3. GroupItems(r, d, g) \in Seq(Items0)
    BY GroupItemsAre
  <2> QED  BY <2>2, <2>3
<1>3. parts \in Seq(Seq(Items0)) /\ Len(parts) = Len(order)
  BY <1>1, <1>2
<1>4. Items(r, d) = FlattenSeq(parts)
  BY DEF Items
<1>5. \A i \in 1 .. Len(order) : parts[i] = GroupItems(r, d, order[i])
  OBVIOUS
<1> HIDE DEF parts, order
<1>6. Items(r, d) \in Seq(Items0) /\ Listed(r, d) = UNION {ToSet(parts[i]) : i \in 1 .. Len(parts)}
  BY <1>3, <1>4, FlattenIs DEF Listed
<1>7. \A x : x \in Listed(r, d) <=> \E i \in 1 .. Len(order) : InGroup(r, d, order[i], x)
  BY <1>2, <1>3, <1>5, <1>6, GroupItemsAre
<1> QED  BY <1>1, <1>2, <1>6, <1>7

LEMMA PositionIs ==
  ASSUME NEW A, NEW s \in Seq(A), NEW x \in ToSet(s)
  PROVE  Position(s, x) \in 1 .. Len(s) /\ s[Position(s, x)] = x
BY DEF Position, ToSet

LEMMA PageIs ==
  ASSUME NEW a \in Nat, NEW b \in Nat \ {0}
  PROVE  a \div b \in Nat /\ (a \div b) * b <= a /\ a < (a \div b) * b + b
BY Z3

(* ensureSessionVisible does.                                               *)
LEMMA RevealedIs ==
  ASSUME DirOK, NEW r, Known(r), NEW d \in Displays, NEW k \in r.shown
  PROVE  /\ Revealed(r, d, k) \in Displays
         /\ Session(k) \in Listed(r, Revealed(r, d, k))
<1> DEFINE g == GroupOf(r, k)
           m == Members(r, g)
           p == Position(m, k)
           e == Revealed(r, d, k)
           page == (p - 1) \div PageSize + 1
<1>1. g \in GroupIDs /\ g \in Groups(r) /\ k \in In(r, g)
  BY GroupIs DEF Groups, In
<1>2. m \in Seq(In(r, g)) /\ Len(m) \in 0 .. MaxSessions /\ k \in ToSet(m)
  BY <1>1, MembersAre DEF ToSet
<1>3. p \in 1 .. Len(m) /\ m[p] = k
  BY <1>2, PositionIs
<1>4. MaxSessions \in Nat /\ PageSize \in Nat \ {0} /\ d.count[g] \in 1 .. MaxSessions + PageSize
  BY <1>1, SelectionAssumption DEF Displays
<1>5. page * PageSize \in Nat /\ page * PageSize >= p /\ page * PageSize <= MaxSessions + PageSize
  <2>1. p - 1 \in Nat
    BY <1>3
  <2> DEFINE q == (p - 1) \div PageSize
  <2>2. q \in Nat /\ q * PageSize <= p - 1 /\ p - 1 < q * PageSize + PageSize
    BY <1>4, <2>1, PageIs
  <2> HIDE DEF q
  <2>3. (q + 1) * PageSize = q * PageSize + PageSize /\ q * PageSize \in Nat
    BY <1>4, <2>2
  <2>4. page = q + 1
    BY DEF q
  <2> DEFINE z == q * PageSize
             y == page * PageSize
  <2>5. y = z + PageSize /\ z \in Nat /\ z <= p - 1 /\ p - 1 < z + PageSize
    BY <2>2, <2>3, <2>4
  <2> HIDE DEF z, y, m, p, page
  <2> QED
    <3>1. y \in Nat /\ y >= p /\ y <= MaxSessions + PageSize
      BY <1>2, <1>3, <1>4, <2>5
    <3> QED  BY <3>1 DEF y
<1>7. Larger(d.count[g], page * PageSize) \in 1 .. MaxSessions + PageSize
        /\ Larger(d.count[g], page * PageSize) >= p
  BY <1>3, <1>4, <1>5 DEF Larger
<1> DEFINE c == IF g = Pinned THEN PageSize ELSE Larger(d.count[g], page * PageSize)
<1>8. e = [folded |-> d.folded \ {g}, count |-> [d.count EXCEPT ![g] = c]]
  BY <1>1 DEF Revealed, Displays
<1>9. c \in 1 .. MaxSessions + PageSize /\ (g # Pinned => c >= p)
  BY <1>4, <1>7
<1> HIDE DEF c, e, p, m, g, page
<1>10. e \in Displays
  BY <1>8, <1>9 DEF Displays
<1>11. e.count[g] = c /\ g \notin e.folded
  BY <1>1, <1>8 DEF Displays
<1>12. p <= VisibleRows(r, e, g)
  <2>1. CASE g = Pinned
    BY <1>1, <1>3, <1>10, <2>1, VisibleIs DEF m
  <2>2. CASE g # Pinned
    <3>1. VisibleRows(r, e, g) \in Nat /\ (VisibleRows(r, e, g) >= c \/ VisibleRows(r, e, g) = Len(m))
      BY <1>1, <1>10, <1>11, <2>2, VisibleIs DEF m
    <3> QED  BY <1>2, <1>3, <1>9, <2>2, <3>1
  <2> QED  BY <2>1, <2>2
<1>13. VisibleRows(r, e, g) \in Nat
  BY <1>1, <1>10, VisibleIs
<1>14. InGroup(r, e, g, Session(k))
  BY <1>3, <1>11, <1>12, <1>13 DEF InGroup, m
<1> QED  BY <1>1, <1>10, <1>14, ListedIff DEF e

(* What the list is in the next state: dir only ever grows.                 *)
LEMMA ListedNext ==
  ASSUME \A k \in rows'.shown : dir'[k] = dir[k]
  PROVE  Listed(rows, groups)' = Listed(rows', groups')
<1>1. \A g : {k \in rows'.shown : GroupOf(rows, k)' = g} = {k \in rows'.shown : GroupOf(rows', k) = g}
  BY DEF GroupOf
<1>2. \A g : Members(rows, g)' = Members(rows', g)
  BY <1>1 DEF Members
<1>3. {GroupOf(rows, k) : k \in rows.shown}' = {GroupOf(rows', k) : k \in rows'.shown}
  BY DEF GroupOf
<1>4. GroupOrder(rows)' = GroupOrder(rows')
  BY <1>2, <1>3 DEF GroupOrder
<1>5. \A g : VisibleRows(rows, groups, g)' = VisibleRows(rows', groups', g)
  BY <1>2 DEF VisibleRows
<1>6. \A g : GroupItems(rows, groups, g)' = GroupItems(rows', groups', g)
  <2> SUFFICES ASSUME NEW g PROVE GroupItems(rows, groups, g)' = GroupItems(rows', groups', g)
    OBVIOUS
  <2>1. Members(rows, g)' = Members(rows', g) /\ VisibleRows(rows, groups, g)' = VisibleRows(rows', groups', g)
    BY <1>2, <1>5
  <2> QED  BY <2>1 DEF GroupItems, Session, ShowMore, ShowSessions
<1>7. Items(rows, groups)' = Items(rows', groups')
  BY <1>4, <1>6 DEF Items
<1> QED  BY <1>7 DEF Listed

(* What an item on the list says of its session or group.                   *)
LEMMA ItemIs ==
  ASSUME DirOK, NEW r, Known(r), NEW d \in Displays, NEW x \in Listed(r, d)
  PROVE  /\ x.kind \in {"session", "more", "sessions"} /\ x # None
         /\ IsSession(x) =>
              LET g == GroupOf(r, x.of)
              IN  /\ x = Session(x.of) /\ x.of \in r.shown /\ g \notin d.folded
                  /\ \E i \in 1 .. VisibleRows(r, d, g) : Members(r, g)[i] = x.of
         /\ x.kind = "more" => /\ x.of \in Groups(r) /\ x.of \notin d.folded
                               /\ VisibleRows(r, d, x.of) < Len(Members(r, x.of))
         /\ x.kind = "sessions" => x.of \in Groups(r) /\ x.of \in d.folded
<1>1. PICK g \in Groups(r) : InGroup(r, d, g, x)
  BY ListedIff
<1> USE DEF Session, ShowMore, ShowSessions, None, IsSession
<1>2. CASE g \in d.folded /\ x = ShowSessions(g)
  BY <1>2
<1>3. CASE g \notin d.folded /\ \E i \in 1 .. VisibleRows(r, d, g) : x = Session(Members(r, g)[i])
  <2>1. PICK i \in 1 .. VisibleRows(r, d, g) : x = Session(Members(r, g)[i])
    BY <1>3
  <2>2. i \in 1 .. Len(Members(r, g)) /\ Members(r, g) \in Seq(In(r, g))
    BY VisibleIs, MembersAre
  <2>3. x.of = Members(r, g)[i] /\ x.of \in In(r, g)
    BY <2>1, <2>2, ElementOfSeq
  <2>4. GroupOf(r, x.of) = g /\ x.of \in r.shown
    BY <2>3 DEF In
  <2> QED  BY <1>3, <2>1, <2>3, <2>4
<1>4. CASE g \notin d.folded /\ VisibleRows(r, d, g) < Len(Members(r, g)) /\ x = ShowMore(g)
  BY <1>4
<1> QED  BY <1>1, <1>2, <1>3, <1>4 DEF InGroup

(* Every group is on the list.                                              *)
LEMMA ListNotEmpty ==
  ASSUME DirOK, NEW r, Known(r), NEW d \in Displays, NEW g \in Groups(r)
  PROVE  /\ Listed(r, d) # {} /\ Len(Items(r, d)) # 0
         /\ \A x \in ToSet(GroupItems(r, d, g)) : x \in Listed(r, d)
<1>1. \A x \in ToSet(GroupItems(r, d, g)) : x \in Listed(r, d)
  BY GroupItemsAre, ListedIff
<1>2. GroupItems(r, d, g) \in Seq(Items0) /\ Len(GroupItems(r, d, g)) # 0
  BY GroupItemsAre
<1>3. GroupItems(r, d, g)[1] \in ToSet(GroupItems(r, d, g))
  BY <1>2 DEF ToSet
<1>4. Listed(r, d) # {}
  BY <1>1, <1>3
<1>5. Items(r, d) \in Seq(Items0)
  BY ListedIff
<1>6. Len(Items(r, d)) # 0
  BY <1>4, <1>5 DEF Listed, ToSet
<1> QED  BY <1>1, <1>4, <1>6

----------------------------------------------------------------------------
(***************************************************************************)
(* The invariant.                                                          *)
(***************************************************************************)
IInv == TypeOK /\ Known(rows) /\ CursorIsListed /\ RequestIsAwaited

LEMMA IInvGives ==
  ASSUME IInv
  PROVE  /\ DirOK /\ Known(rows) /\ groups \in Displays
         /\ rows.shown \subseteq Sessions
         /\ IF Listed(rows, groups) = {} THEN cursor = None ELSE cursor \in Listed(rows, groups)
         /\ cursor # None => cursor \in Listed(rows, groups)
         /\ MaxSessions \in Nat /\ PageSize \in Nat \ {0} /\ NoSession \notin Nat
BY SelectionAssumption DEF IInv, TypeOK, DirOK, Displays, CursorIsListed

(* A cursor that is on the next list.                                       *)
LEMMA CursorNext ==
  ASSUME \A k \in rows'.shown : dir'[k] = dir[k],
         cursor' \in Listed(rows', groups')
  PROVE  CursorIsListed'
BY ListedNext DEF CursorIsListed

LEMMA SelectNext ==
  ASSUME DirOK, NEW r, Known(r), groups \in Displays, NEW k \in r.shown,
         rows' = r, dir' = dir, Select(r, k)
  PROVE  groups' \in Displays /\ CursorIsListed'
<1>1. groups' = Revealed(r, groups, k) /\ cursor' = Session(k)
  BY DEF Select
<1>2. Revealed(r, groups, k) \in Displays /\ Session(k) \in Listed(r, Revealed(r, groups, k))
  BY RevealedIs
<1>3. cursor' \in Listed(rows', groups')
  BY <1>1, <1>2
<1> QED  BY <1>1, <1>2, <1>3, CursorNext

(* Init: nothing is listed.                                                 *)
LEMMA InitIInv == Init => IInv
<1> SUFFICES ASSUME Init PROVE IInv
  OBVIOUS
<1> USE SelectionAssumption
<1>1. TypeOK
  BY DEF Init, TypeOK, Prompts
<1>2. Known(rows) /\ rows.shown = {}
  BY DEF Init, Known
<1>3. Listed(rows, groups) = {}
  <2>1. DirOK /\ groups \in Displays
    BY <1>1 DEF TypeOK, DirOK, Displays
  <2>2. Groups(rows) = {}
    BY <1>2 DEF Groups
  <2> QED  BY <1>2, <2>1, <2>2, ListedIff
<1> QED  BY <1>1, <1>2, <1>3 DEF IInv, CursorIsListed, RequestIsAwaited, Init

(* A key that moves neither cursor nor list, or the cursor on the list.     *)
LEMMA CursorStays ==
  ASSUME IInv, UNCHANGED <<rows, groups, cursor>>, \A k \in rows.shown : dir'[k] = dir[k]
  PROVE  CursorIsListed'
<1>1. Listed(rows, groups)' = Listed(rows, groups)
  BY ListedNext
<1> QED  BY <1>1, IInvGives DEF CursorIsListed

LEMMA CursorMoves ==
  ASSUME IInv, UNCHANGED <<dir, rows, groups>>, cursor' \in Listed(rows, groups)
  PROVE  CursorIsListed'
<1>1. Listed(rows, groups)' = Listed(rows, groups)
  BY ListedNext
<1> QED  BY <1>1 DEF CursorIsListed

LEMMA ToSetHas ==
  ASSUME NEW A, NEW s \in Seq(A), NEW i \in 1 .. Len(s)
  PROVE  s[i] \in ToSet(s)
BY DEF ToSet

LEMMA NearbyIs ==
  ASSUME NEW A, NEW old \in Seq(A), NEW new \in Seq(A), NEW target
  PROVE  IF ToSet(new) = {} THEN Nearby(old, new, target) = None
                            ELSE Nearby(old, new, target) \in ToSet(new)
<1> DEFINE at == IF target \in ToSet(old) THEN Position(old, target) ELSE 0
           alive == {i \in 1 .. Len(old) : at > 0 /\ old[i] \in ToSet(new)}
           after == {i \in alive : i > at}
<1>1. alive \in SUBSET Nat /\ after \in SUBSET Nat /\ Len(old) \in Nat
        /\ \A i \in alive : i <= Len(old) /\ old[i] \in ToSet(new)
  OBVIOUS
<1>2. after \subseteq alive
  OBVIOUS
<1>3. Nearby(old, new, target) =
        IF after # {} THEN old[Min(after)]
        ELSE IF alive # {} THEN old[Max(alive)]
        ELSE IF new # <<>> THEN new[1] ELSE None
  BY DEF Nearby
<1> HIDE DEF alive, after
<1>4. CASE after # {}
  BY <1>1, <1>2, <1>3, <1>4, MinIsIn
<1>5. CASE after = {} /\ alive # {}
  <2>1. Max(alive) \in alive
    BY <1>1, <1>5, MaxIsIn
  <2> QED  BY <1>1, <1>3, <1>5, <2>1
<1>6. CASE after = {} /\ alive = {}
  <2>1. CASE new = <<>>
    BY <1>3, <1>6, <2>1 DEF ToSet
  <2>2. CASE new # <<>>
    <3>1. 1 \in 1 .. Len(new)
      BY <2>2
    <3>2. new[1] \in ToSet(new)
      BY <3>1, ToSetHas
    <3> QED  BY <1>3, <1>6, <2>2, <3>2
  <2> QED  BY <2>1, <2>2
<1> QED  BY <1>4, <1>5, <1>6

LEMMA CatalogStep ==
  ASSUME IInv, CatalogArrives
  PROVE  IInv'
<1> USE IInvGives
<1>1. PICK r \in Catalogs : r.pinned \subseteq r.shown /\ r.busy \subseteq r.shown /\ SetRows(r)
  BY DEF CatalogArrives
<1>2. UNCHANGED <<dir, rename, confirming, prompt, archived>> /\ rows' = r
  BY <1>1 DEF CatalogArrives, SetRows
<1>3. r \in [shown : SUBSET (1 .. Len(dir)), pinned : SUBSET (1 .. Len(dir)), busy : SUBSET (1 .. Len(dir))]
  <2>1. r.shown \subseteq 1 .. Len(dir)
    BY DEF Catalogs
  <2> QED  BY <1>1, <2>1 DEF Catalogs
<1>4. Known(r) /\ 1 .. Len(dir) \subseteq Sessions
  BY <1>3 DEF Known, DirOK, Sessions
<1>5. CASE Resolves(r, rename)
  <2>1. requested \in r.shown /\ Select(r, requested) /\ requested' = NoSession
    BY <1>1, <1>5 DEF SetRows, Resolves
  <2>2. groups' \in Displays /\ CursorIsListed'
    BY <1>2, <1>4, <2>1, SelectNext
  <2>3. TypeOK'
    BY <1>1, <1>2, <1>3, <1>4, <2>1, <2>2 DEF IInv, TypeOK, Displays
  <2>4. RequestIsAwaited'
    BY <1>2, <1>3, <2>1 DEF RequestIsAwaited
  <2> QED  BY <1>2, <1>4, <2>2, <2>3, <2>4 DEF IInv, Known
<1>6. CASE ~Resolves(r, rename) /\ IsSession(Tracked) /\ Tracked.of \in r.shown
  <2>1. Select(r, Tracked.of) /\ requested' = requested
    BY <1>1, <1>6 DEF SetRows
  <2>2. groups' \in Displays /\ CursorIsListed'
    BY <1>2, <1>4, <1>6, <2>1, SelectNext
  <2>3. TypeOK'
    BY <1>1, <1>2, <1>3, <1>4, <2>1, <2>2 DEF IInv, TypeOK, Displays
  <2>4. RequestIsAwaited'
    BY <1>2, <1>6, <2>1 DEF RequestIsAwaited, Resolves
  <2> QED  BY <1>2, <1>4, <2>2, <2>3, <2>4 DEF IInv, Known
<1>7. CASE ~Resolves(r, rename) /\ ~(IsSession(Tracked) /\ Tracked.of \in r.shown)
  <2> DEFINE new == Items(r, groups)
  <2>1. /\ cursor' = IF Tracked \in ToSet(new) THEN Tracked ELSE Nearby(Items(rows, groups), new, Tracked)
        /\ groups' = groups /\ requested' = requested
    BY <1>1, <1>7 DEF SetRows
  <2>2. new \in Seq(Items0) /\ Items(rows, groups) \in Seq(Items0)
    BY <1>4, ListedIff
  <2>3. IF ToSet(new) = {} THEN cursor' = None ELSE cursor' \in ToSet(new)
    <3> HIDE DEF new
    <3> QED  BY <2>1, <2>2, NearbyIs
  <2>4. Listed(rows, groups)' = ToSet(new)
    <3>1. Listed(rows, groups)' = Listed(rows', groups')
      BY <1>2, ListedNext
    <3> QED  BY <1>2, <2>1, <3>1 DEF Listed
  <2>5. CursorIsListed'
    BY <2>3, <2>4 DEF CursorIsListed
  <2>6. TypeOK'
    BY <1>1, <1>2, <1>3, <1>4, <2>1 DEF IInv, TypeOK
  <2>7. RequestIsAwaited'
    BY <1>2, <1>7, <2>1 DEF RequestIsAwaited, Resolves
  <2> QED  BY <1>2, <1>4, <2>5, <2>6, <2>7 DEF IInv, Known
<1> QED  BY <1>1, <1>5, <1>6, <1>7

(* Keys that leave the list and the cursor alone.                           *)
LEMMA QuietStep ==
  ASSUME IInv, DropConfirmation \/ Stop \/ ArmArchive \/ Archive \/ StartRename \/ Dispatch \/ EditPrompt
  PROVE  IInv'
<1> USE IInvGives
<1>1. UNCHANGED <<rows, groups, cursor>>
  BY DEF DropConfirmation, Stop, ArmArchive, Archive, StartRename, Dispatch, EditPrompt
<1>2. \A k \in rows.shown : dir'[k] = dir[k]
  <2>1. CASE Dispatch
    <3>1. dir' = Append(dir, ComposerCWD) /\ dir \in Seq(Directories)
      BY <2>1 DEF Dispatch, DirOK
    <3> QED  BY <3>1 DEF Known
  <2> QED  BY <2>1 DEF DropConfirmation, Stop, ArmArchive, Archive, StartRename, EditPrompt
<1>3. CursorIsListed'
  BY <1>1, <1>2, CursorStays
<1>4. HasSelectedRow => Selected \in Sessions /\ Selected # NoSession
  BY DEF HasSelectedRow, Selected, Sessions
<1>5. TypeOK' /\ Known(rows)' /\ RequestIsAwaited'
  <2>1. CASE Dispatch
    <3>1. ComposerCWD \in Directories
      <4>1. CASE HasSelectedRow
        BY <4>1, ElementOfSeq DEF ComposerCWD, HasSelectedRow, Selected, Known, DirOK
      <4>2. CASE ~HasSelectedRow /\ cursor.kind \in {"more", "sessions"} /\ cursor.of # Pinned
        <5>1. cursor # None
          BY <4>2 DEF None
        <5>2. cursor.of \in Groups(rows)
          BY <4>2, <5>1, ItemIs
        <5> QED  BY <4>2, <5>2, GroupIs DEF ComposerCWD, Groups, GroupIDs
      <4> QED  BY <4>1, <4>2, SelectionAssumption DEF ComposerCWD
    <3>2. dir \in Seq(Directories) /\ Len(dir) < MaxSessions /\ dir' = Append(dir, ComposerCWD)
            /\ requested' = Len(dir) + 1
      BY <2>1 DEF Dispatch, DirOK
    <3>3. dir' \in Seq(Directories) /\ Len(dir') = Len(dir) + 1 /\ Len(dir) \in Nat
      BY <3>1, <3>2
    <3>4. TypeOK'
      BY <2>1, <3>2, <3>3 DEF IInv, TypeOK, Dispatch, Prompts, Sessions
    <3>5. requested' \notin rows.shown
      BY <3>2, <3>3 DEF Known
    <3> QED  BY <1>1, <3>3, <3>4, <3>5 DEF Known, RequestIsAwaited
  <2>2. CASE DropConfirmation \/ Stop \/ ArmArchive \/ Archive \/ StartRename \/ EditPrompt
    <3>1. UNCHANGED <<dir, requested>> /\ Known(rows)'
      BY <1>1, <2>2 DEF DropConfirmation, Stop, ArmArchive, Archive, StartRename, EditPrompt, Known
    <3>2. RequestIsAwaited'
      BY <1>1, <1>4, <2>2, <3>1 DEF IInv, RequestIsAwaited, DropConfirmation, Stop, ArmArchive, Archive, StartRename, EditPrompt
    <3>3. TypeOK'
      BY <1>1, <1>4, <2>2, <3>1 DEF IInv, TypeOK, DropConfirmation, Stop, ArmArchive, Archive, StartRename, EditPrompt, Prompts
    <3> QED  BY <3>1, <3>2, <3>3
  <2> QED  BY <2>1, <2>2
<1> QED  BY <1>3, <1>5 DEF IInv

LEMMA MoveSelectionStep ==
  ASSUME IInv, NEW delta \in {-1, 1}, MoveSelection(delta)
  PROVE  IInv'
<1> USE IInvGives
<1> DEFINE items == Items(rows, groups)
           next == Position(items, cursor) + delta
<1>1. next \in 1 .. Len(items) /\ cursor' = items[next]
        /\ confirming' = NoSession /\ UNCHANGED <<dir, rows, groups, requested, rename, prompt, archived>>
  BY DEF MoveSelection, MoveTo
<1>2. items \in Seq(Items0)
  BY ListedIff
<1>3. cursor' \in Listed(rows, groups)
  <2> HIDE DEF items, next
  <2> QED  BY <1>1, <1>2, ToSetHas DEF Listed, items
<1>4. CursorIsListed'
  BY <1>1, <1>3, CursorMoves
<1>5. TypeOK' /\ Known(rows)' /\ RequestIsAwaited'
  BY <1>1 DEF IInv, TypeOK, Known, RequestIsAwaited
<1> QED  BY <1>4, <1>5 DEF IInv

LEMMA MoveGroupStep ==
  ASSUME IInv, NEW delta \in {-1, 1}, MoveGroup(delta)
  PROVE  IInv'
<1> USE IInvGives
<1> DEFINE order == GroupOrder(rows)
           target == Position(order, CursorGroup) + delta
           itemsOf(i) == GroupItems(rows, groups, order[i])
           upper == {i \in DOMAIN itemsOf(target) : itemsOf(target)[i].kind # "more"}
           entered == IF delta > 0 THEN Head(itemsOf(target)) ELSE itemsOf(target)[Max(upper)]
           own == itemsOf(Position(order, CursorGroup))
<1>1. /\ cursor' = IF target \in 1 .. Len(order) THEN entered
                   ELSE IF delta > 0 THEN Last(own) ELSE Head(own)
      /\ confirming' = NoSession /\ UNCHANGED <<dir, rows, groups, requested, rename, prompt, archived>>
      /\ cursor \in Listed(rows, groups)
  BY DEF MoveGroup, MoveTo
<1>2. order \in Seq(Groups(rows)) /\ \A g \in Groups(rows) : g \in ToSet(order)
  BY OrderIs DEF ToSet
<1>3. CursorGroup \in Groups(rows)
  <2>1. CASE IsSession(cursor)
    BY <1>1, <2>1, ItemIs DEF CursorGroup, Groups
  <2>2. CASE ~IsSession(cursor)
    BY <1>1, <2>2, ItemIs DEF CursorGroup, IsSession
  <2> QED  BY <2>1, <2>2
<1>4. Position(order, CursorGroup) \in 1 .. Len(order)
  BY <1>2, <1>3, PositionIs
<1> HIDE DEF order
<1>5. ASSUME NEW i \in 1 .. Len(order)
      PROVE  /\ itemsOf(i) \in Seq(Items0) /\ Len(itemsOf(i)) # 0
             /\ \A j \in 1 .. Len(itemsOf(i)) : itemsOf(i)[j] \in Listed(rows, groups)
  <2>1. order[i] \in Groups(rows)
    BY <1>2
  <2>2. itemsOf(i) \in Seq(Items0) /\ Len(itemsOf(i)) # 0
    BY <2>1, GroupItemsAre
  <2>3. \A x \in ToSet(itemsOf(i)) : x \in Listed(rows, groups)
    BY <2>1, ListNotEmpty
  <2> HIDE DEF itemsOf
  <2> QED  BY <2>2, <2>3, ToSetHas
<1>6. ASSUME NEW i \in 1 .. Len(order)
      PROVE  Head(itemsOf(i)) \in Listed(rows, groups) /\ Last(itemsOf(i)) \in Listed(rows, groups)
  <2> HIDE DEF itemsOf
  <2>1. 1 \in 1 .. Len(itemsOf(i)) /\ Len(itemsOf(i)) \in 1 .. Len(itemsOf(i)) /\ Head(itemsOf(i)) = itemsOf(i)[1]
    BY <1>5
  <2> QED  BY <1>5, <2>1 DEF Last
<1>7. ASSUME target \in 1 .. Len(order)
      PROVE  itemsOf(target)[Max(upper)] \in Listed(rows, groups)
  <2> HIDE DEF target
  <2> DEFINE g == order[target]
             seq == itemsOf(target)
  <2>1. g \in Groups(rows) /\ seq = GroupItems(rows, groups, g)
    BY <1>2, <1>7
  <2>2. seq \in Seq(Items0) /\ Len(seq) \in Nat /\ DOMAIN seq = 1 .. Len(seq)
    BY <1>5, <1>7
  <2>3. \E x \in ToSet(seq) : x.kind # "more"
    <3>1. CASE g \in groups.folded
      <4>1. InGroup(rows, groups, g, ShowSessions(g)) /\ ShowSessions(g).kind # "more"
        BY <3>1 DEF InGroup, ShowSessions
      <4>2. ShowSessions(g) \in ToSet(seq)
        BY <2>1, <4>1, GroupItemsAre
      <4> QED  BY <4>1, <4>2
    <3>2. CASE g \notin groups.folded
      <4>1. 1 \in 1 .. VisibleRows(rows, groups, g)
        BY <2>1, VisibleIs
      <4>2. InGroup(rows, groups, g, Session(Members(rows, g)[1])) /\ Session(Members(rows, g)[1]).kind # "more"
        BY <3>2, <4>1 DEF InGroup, Session
      <4>3. Session(Members(rows, g)[1]) \in ToSet(seq)
        BY <2>1, <4>2, GroupItemsAre
      <4> QED  BY <4>2, <4>3
    <3> QED  BY <3>1, <3>2
  <2> HIDE DEF seq
  <2>4. upper = {i \in DOMAIN seq : seq[i].kind # "more"}
    BY DEF seq
  <2> HIDE DEF upper, itemsOf, g
  <2>5. upper \in SUBSET Nat /\ upper # {} /\ \A i \in upper : i <= Len(seq) /\ i \in 1 .. Len(seq)
    BY <2>2, <2>3, <2>4 DEF ToSet
  <2>6. Max(upper) \in upper
    BY <2>2, <2>5, MaxIsIn
  <2> QED  BY <1>5, <1>7, <2>5, <2>6 DEF seq
<1>8. cursor' \in Listed(rows, groups)
  <2> HIDE DEF itemsOf, target, upper
  <2> QED  BY <1>1, <1>4, <1>6, <1>7
<1>9. CursorIsListed'
  BY <1>1, <1>8, CursorMoves
<1>10. TypeOK' /\ Known(rows)' /\ RequestIsAwaited'
  BY <1>1 DEF IInv, TypeOK, Known, RequestIsAwaited
<1> QED  BY <1>9, <1>10 DEF IInv

LEMMA FinishRenameStep ==
  ASSUME IInv, FinishRename
  PROVE  IInv'
<1> USE IInvGives
<1>1. UNCHANGED <<dir, rows, confirming, prompt, archived>> /\ rename' = NoSession
  BY DEF FinishRename
<1>2. CASE RetriesRequest(rows)
  <2>1. requested \in rows.shown /\ Select(rows, requested) /\ requested' = NoSession
    BY <1>2 DEF FinishRename, RetriesRequest
  <2>2. groups' \in Displays /\ CursorIsListed'
    BY <1>1, <2>1, SelectNext
  <2>3. TypeOK'
    BY <1>1, <2>1, <2>2 DEF IInv, TypeOK, Displays
  <2>4. NoSession \notin rows.shown
    BY DEF Sessions
  <2> QED  BY <1>1, <2>1, <2>2, <2>3, <2>4 DEF IInv, Known, RequestIsAwaited
<1>3. CASE ~RetriesRequest(rows)
  <2>1. UNCHANGED <<groups, cursor, requested>>
    BY <1>3 DEF FinishRename
  <2>2. CursorIsListed'
    BY <1>1, <2>1, CursorStays
  <2> QED  BY <1>1, <1>3, <2>1, <2>2 DEF IInv, TypeOK, Known, RequestIsAwaited, RetriesRequest
<1> QED  BY <1>2, <1>3

LEMMA FoldStep ==
  ASSUME IInv, FoldSelectedGroup
  PROVE  IInv'
<1> USE IInvGives
<1> DEFINE k == cursor.of
           g == GroupOf(rows, k)
           m == Members(rows, g)
           position == Position(m, k) - 1
           whole == g = Pinned \/ position < PageSize
           c == (position \div PageSize) * PageSize
<1>1. cursor \in Listed(rows, groups) /\ IsSession(cursor) /\ k \in rows.shown /\ CursorGroup = g
  BY DEF FoldSelectedGroup, HasSelectedRow, CursorGroup
<1>2. /\ groups' = [folded |-> IF whole THEN groups.folded \cup {g} ELSE groups.folded \ {g},
                    count |-> [groups.count EXCEPT ![g] = IF whole THEN @ ELSE c]]
      /\ cursor' = (IF whole THEN ShowSessions(g) ELSE ShowMore(g))
      /\ confirming' = NoSession /\ UNCHANGED <<dir, rows, requested, rename, prompt, archived>>
  BY <1>1 DEF FoldSelectedGroup, AfterFold
<1>3. g \in Groups(rows) /\ g \in GroupIDs /\ k \in In(rows, g)
  BY <1>1, GroupIs DEF Groups, In
<1>4. m \in Seq(In(rows, g)) /\ Len(m) \in 1 .. MaxSessions /\ k \in ToSet(m)
  BY <1>3, MembersAre DEF ToSet
<1>5. position \in Nat /\ position < Len(m)
  <2>1. Position(m, k) \in 1 .. Len(m)
    BY <1>4, PositionIs
  <2> QED  BY <1>4, <2>1
<1> HIDE DEF position, m, g, k
<1>6. c \in Nat /\ c <= position /\ (~whole => c # 0)
  <2>1. position \div PageSize \in Nat /\ c <= position /\ position < c + PageSize
    BY <1>5, PageIs
  <2>2. c \in Nat
    BY <2>1
  <2> HIDE DEF c
  <2> QED  BY <1>5, <2>1, <2>2
<1> HIDE DEF c
<1>7. groups' \in Displays
  <2>1. groups.count \in [GroupIDs -> 1 .. MaxSessions + PageSize] /\ groups.folded \subseteq GroupIDs
    BY DEF Displays
  <2>2. ~whole => c \in 1 .. MaxSessions + PageSize
    BY <1>4, <1>5, <1>6
  <2> HIDE DEF whole
  <2> QED  BY <1>2, <1>3, <2>1, <2>2 DEF Displays
<1>8. InGroup(rows, groups', g, cursor')
  <2>1. CASE whole
    <3> HIDE DEF whole
    <3> QED  BY <1>2, <2>1 DEF InGroup
  <2>2. CASE ~whole
    <3>1. g \notin groups'.folded /\ groups'.count[g] = c /\ g # Pinned /\ cursor' = ShowMore(g)
      BY <1>2, <1>3, <2>2 DEF Displays
    <3>2. VisibleRows(rows, groups', g) = c
      <4>1. Len(Members(rows, g)) = Len(m)
        BY DEF m
      <4> HIDE DEF whole
      <4> QED  BY <1>4, <1>5, <1>6, <3>1, <4>1 DEF VisibleRows, Smaller
    <3>3. c < Len(Members(rows, g))
      BY <1>4, <1>5, <1>6 DEF m
    <3> QED  BY <3>1, <3>2, <3>3 DEF InGroup
  <2> QED  BY <2>1, <2>2
<1>9. cursor' \in Listed(rows', groups')
  BY <1>2, <1>3, <1>7, <1>8, ListedIff
<1>10. CursorIsListed'
  BY <1>2, <1>9, CursorNext
<1>11. TypeOK' /\ Known(rows)' /\ RequestIsAwaited'
  BY <1>2, <1>7 DEF IInv, TypeOK, Known, RequestIsAwaited, Displays
<1> QED  BY <1>10, <1>11 DEF IInv

LEMMA ExpandStep ==
  ASSUME IInv, ExpandSelectedControl
  PROVE  IInv'
<1> USE IInvGives
<1> DEFINE g == cursor.of
           m == Members(rows, g)
           n == VisibleRows(rows, groups, g)
<1>1. /\ cursor.kind \in {"more", "sessions"} /\ cursor \in Listed(rows, groups)
      /\ confirming' = NoSession /\ UNCHANGED <<dir, rows, requested, rename, prompt, archived>>
  BY DEF ExpandSelectedControl
<1>2. g \in Groups(rows) /\ g \in GroupIDs /\ (cursor.kind = "more" => n < Len(m) /\ g \notin groups.folded)
  <2>1. g \in Groups(rows) /\ (cursor.kind = "more" => n < Len(m) /\ g \notin groups.folded)
    BY <1>1, ItemIs
  <2> QED  BY <2>1, GroupIs DEF Groups
<1>3. n \in 1 .. Len(m) /\ Len(m) \in 0 .. MaxSessions /\ (g = Pinned => n = Len(m))
  BY <1>2, VisibleIs, MembersAre
<1>4. groups.count \in [GroupIDs -> 1 .. MaxSessions + PageSize] /\ groups.folded \subseteq GroupIDs
  BY DEF Displays
<1>5. PICK i \in 1 .. Len(m), c \in 1 .. MaxSessions + PageSize :
          /\ groups' = [folded |-> groups.folded \ {g}, count |-> [groups.count EXCEPT ![g] = c]]
          /\ cursor' = Session(m[i])
          /\ g # Pinned => c >= i
  <2>1. CASE cursor.kind = "sessions"
    <3> DEFINE c == IF g = Pinned THEN groups.count[g] ELSE PageSize
    <3>1. groups' = [folded |-> groups.folded \ {g}, count |-> [groups.count EXCEPT ![g] = c]]
            /\ cursor' = Session(m[1])
      BY <2>1 DEF ExpandSelectedControl
    <3>2. c \in 1 .. MaxSessions + PageSize /\ (g # Pinned => c >= 1)
      BY <1>2, <1>4, SelectionAssumption
    <3> HIDE DEF c, m, g, n
    <3>3. 1 \in 1 .. Len(m)
      BY <1>3
    <3> QED  BY <3>1, <3>2, <3>3
  <2>2. CASE cursor.kind = "more"
    <3>1. groups' = [folded |-> groups.folded \ {g}, count |-> [groups.count EXCEPT ![g] = n + PageSize]]
            /\ cursor' = Session(m[n + 1])
      BY <2>2 DEF ExpandSelectedControl
    <3>2. n < Len(m)
      BY <1>2, <2>2
    <3> HIDE DEF m, g, n
    <3>3. n + 1 \in 1 .. Len(m) /\ n + PageSize \in 1 .. MaxSessions + PageSize /\ n + PageSize >= n + 1
      BY <1>3, <3>2
    <3> QED  BY <3>1, <3>3
  <2> QED  BY <1>1, <2>1, <2>2
<1>6. groups' \in Displays
  BY <1>2, <1>4, <1>5 DEF Displays
<1>7. i <= VisibleRows(rows, groups', g) /\ VisibleRows(rows, groups', g) \in Nat
  <2>1. VisibleRows(rows, groups', g) \in 1 .. Len(m)
    BY <1>2, <1>6, VisibleIs
  <2>2. CASE g = Pinned
    BY <1>2, <1>3, <1>6, <2>1, <2>2, VisibleIs
  <2>3. CASE g # Pinned
    <3>1. groups'.count[g] = c
      BY <1>2, <1>4, <1>5
    <3>2. VisibleRows(rows, groups', g) >= c \/ VisibleRows(rows, groups', g) = Len(m)
      BY <1>2, <1>6, <2>3, <3>1, VisibleIs
    <3> HIDE DEF g, m
    <3> QED  BY <1>3, <1>5, <2>1, <2>3, <3>2
  <2> QED  BY <2>1, <2>2, <2>3
<1>8. InGroup(rows, groups', g, cursor')
  <2>1. g \notin groups'.folded
    BY <1>5
  <2> QED  BY <1>5, <1>7, <2>1 DEF InGroup
<1>9. cursor' \in Listed(rows', groups')
  BY <1>1, <1>2, <1>6, <1>8, ListedIff
<1>10. CursorIsListed'
  BY <1>1, <1>9, CursorNext
<1>11. TypeOK' /\ Known(rows)' /\ RequestIsAwaited'
  BY <1>1, <1>6 DEF IInv, TypeOK, Known, RequestIsAwaited, Displays
<1> QED  BY <1>10, <1>11 DEF IInv

LEMMA TogglePinStep ==
  ASSUME IInv, NEW pin \in BOOLEAN, TogglePin(pin)
  PROVE  IInv'
<1> USE IInvGives
<1>1. /\ rows' = Repinned(pin) /\ UNCHANGED <<dir, requested, rename, confirming, prompt, archived>>
      /\ IsSession(cursor) /\ Selected \in rows.shown
  BY DEF TogglePin, HasSelectedRow, Selected
<1>2. /\ rows' \in [shown : SUBSET Sessions, pinned : SUBSET Sessions, busy : SUBSET Sessions]
      /\ rows'.shown = rows.shown /\ rows'.pinned \cup rows'.busy \subseteq rows'.shown
  BY <1>1 DEF Repinned, IInv, TypeOK
<1>3. Known(rows')
  BY <1>2 DEF Known
<1>4. CASE /\ ~pin /\ Selected \in rows.pinned /\ cursor' = PinnedNeighbour
           /\ groups' = IF IsSession(cursor') THEN Revealed(rows', groups, cursor'.of) ELSE groups
  <2> DEFINE items == GroupItems(rows, groups, Pinned)
             at == Position(items, cursor)
  <2>1. cursor \in Listed(rows, groups)
    BY <1>1 DEF IsSession, None
  <2>2. GroupOf(rows, cursor.of) = Pinned /\ Pinned \in Groups(rows) /\ Pinned \notin groups.folded
    BY <1>1, <1>4, <2>1, ItemIs DEF GroupOf, Groups, Selected
  <2>3. cursor \in ToSet(items)
    <3>1. cursor = Session(cursor.of) /\ \E i \in 1 .. VisibleRows(rows, groups, Pinned) : Members(rows, Pinned)[i] = cursor.of
      BY <1>1, <2>1, <2>2, ItemIs
    <3>2. InGroup(rows, groups, Pinned, cursor)
      BY <2>2, <3>1 DEF InGroup
    <3> QED  BY <2>2, <3>2, GroupItemsAre
  <2>4. items \in Seq(Items0) /\ at \in 1 .. Len(items)
    BY <2>2, <2>3, GroupItemsAre, PositionIs
  <2>5. \A x \in ToSet(items) : IsSession(x) /\ x.of \in rows.shown
    <3> SUFFICES ASSUME NEW x \in ToSet(items) PROVE IsSession(x) /\ x.of \in rows.shown
      OBVIOUS
    <3>1. InGroup(rows, groups, Pinned, x) /\ x \in Listed(rows, groups)
      BY <2>2, GroupItemsAre, ListNotEmpty
    <3>2. VisibleRows(rows, groups, Pinned) = Len(Members(rows, Pinned)) /\ Len(Members(rows, Pinned)) \in Nat
      BY <2>2, VisibleIs, MembersAre
    <3>3. IsSession(x)
      BY <2>2, <3>1, <3>2 DEF InGroup, IsSession, Session
    <3> QED  BY <3>1, <3>3, ItemIs
  <2>6. ASSUME cursor' \in ToSet(items)
        PROVE  groups' \in Displays /\ CursorIsListed'
    <3>1. cursor'.of \in rows'.shown /\ IsSession(cursor')
      BY <1>2, <2>5, <2>6
    <3>2. cursor' = Session(cursor'.of)
      <4>1. cursor' \in Listed(rows, groups)
        BY <2>2, <2>6, ListNotEmpty
      <4> QED  BY <3>1, <4>1, ItemIs
    <3>3. Select(rows', cursor'.of)
      BY <1>4, <3>1, <3>2 DEF Select
    <3> QED  BY <1>1, <1>3, <3>1, <3>3, SelectNext
  <2>7. ASSUME at >= Len(items) /\ ~(at > 1) /\ cursor' = Head(Items(rows', groups))
        PROVE  groups' \in Displays /\ CursorIsListed'
    <3>1. rows' = Repinned(FALSE)
      BY <1>1, <1>4
    <3>2. Items(rows', groups) \in Seq(Items0) /\ Len(Items(rows', groups)) # 0
      <4>1. GroupOf(rows', Selected) \in Groups(rows')
        BY <1>1, <1>2 DEF Groups
      <4> QED  BY <1>3, <4>1, ListedIff, ListNotEmpty
    <3>3. cursor' \in Listed(rows', groups)
      <4>1. Head(Items(rows', groups)) = Items(rows', groups)[1] /\ 1 \in 1 .. Len(Items(rows', groups))
        BY <3>2
      <4> QED  BY <2>7, <3>2, <4>1, ToSetHas DEF Listed
    <3>4. CASE IsSession(cursor')
      <4>1. cursor' = Session(cursor'.of) /\ cursor'.of \in rows'.shown
        BY <1>3, <3>3, <3>4, ItemIs
      <4>2. Select(rows', cursor'.of)
        BY <1>4, <3>4, <4>1 DEF Select
      <4> QED  BY <1>1, <1>3, <4>1, <4>2, SelectNext
    <3>5. CASE ~IsSession(cursor')
      BY <1>1, <1>2, <1>4, <3>3, <3>5, CursorNext
    <3> QED  BY <3>4, <3>5
  <2>8. cursor' \in ToSet(items) \/ (at >= Len(items) /\ ~(at > 1) /\ cursor' = Head(Items(rows', groups)))
    <3>1. cursor' = IF at < Len(items) THEN items[at + 1]
                    ELSE IF at > 1 THEN items[at - 1]
                    ELSE Head(Items(rows', groups))
      BY <1>1, <1>4 DEF PinnedNeighbour
    <3> HIDE DEF items, at
    <3>2. at < Len(items) => at + 1 \in 1 .. Len(items)
      BY <2>4
    <3>3. at > 1 => at - 1 \in 1 .. Len(items)
      BY <2>4
    <3> QED  BY <2>4, <3>1, <3>2, <3>3, ToSetHas
  <2>9. groups' \in Displays /\ CursorIsListed'
    BY <2>6, <2>7, <2>8
  <2>10. TypeOK' /\ RequestIsAwaited'
    BY <1>1, <1>2, <2>9 DEF IInv, TypeOK, Displays, RequestIsAwaited
  <2> QED  BY <1>1, <1>2, <2>9, <2>10 DEF IInv, Known
<1>5. CASE Select(rows', Selected)
  <2>1. groups' \in Displays /\ CursorIsListed'
    BY <1>1, <1>2, <1>3, <1>5, SelectNext
  <2>2. TypeOK' /\ RequestIsAwaited'
    BY <1>1, <1>2, <2>1 DEF IInv, TypeOK, Displays, RequestIsAwaited
  <2> QED  BY <1>1, <1>2, <2>1, <2>2 DEF IInv, Known
<1> QED  BY <1>4, <1>5 DEF TogglePin

LEMMA Inductive == IInv /\ [Next]_vars => IInv'
<1> SUFFICES ASSUME IInv, [Next]_vars PROVE IInv'
  OBVIOUS
<1>1. CASE CatalogArrives
  BY <1>1, CatalogStep
<1>2. CASE \E delta \in {-1, 1} : MoveSelection(delta)
  BY <1>2, MoveSelectionStep
<1>3. CASE \E delta \in {-1, 1} : MoveGroup(delta)
  BY <1>3, MoveGroupStep
<1>4. CASE FoldSelectedGroup
  BY <1>4, FoldStep
<1>5. CASE ExpandSelectedControl
  BY <1>5, ExpandStep
<1>6. CASE \E pin \in BOOLEAN : TogglePin(pin)
  BY <1>6, TogglePinStep
<1>7. CASE FinishRename
  BY <1>7, FinishRenameStep
<1>8. CASE DropConfirmation \/ Stop \/ ArmArchive \/ Archive \/ StartRename \/ Dispatch \/ EditPrompt
  BY <1>8, QuietStep
<1>9. CASE UNCHANGED vars
  <2>1. CursorIsListed'
    BY <1>9, CursorStays DEF vars
  <2> QED  BY <1>9, <2>1 DEF vars, IInv, TypeOK, Known, RequestIsAwaited
<1> QED
  BY <1>1, <1>2, <1>3, <1>4, <1>5, <1>6, <1>7, <1>8, <1>9 DEF Next

LEMMA InvariantAlways == Spec => []IInv
<1>1. Init => IInv
  BY InitIInv
<1>2. IInv /\ [Next]_vars => IInv'
  BY Inductive
<1> QED  BY <1>1, <1>2, PTL DEF Spec

(* Every reachable state has its type: no key and no catalog makes a page  *)
(* count, a request or a rename target out of range (state.go, group.go).  *)
THEOREM TypeCorrect == Spec => []TypeOK
<1>1. IInv => TypeOK
  BY DEF IInv
<1> QED  BY <1>1, InvariantAlways, PTL

(* The cursor is always on an item of the derived list, or there is no item *)
(* and no cursor: selectableItems, SetRows, moveSelection, moveGroup, the   *)
(* folding keys and TogglePin agree about what is listed.                   *)
THEOREM CursorIsListedAlways == Spec => []CursorIsListed
<1>1. IInv => CursorIsListed
  BY DEF IInv
<1> QED  BY <1>1, InvariantAlways, PTL

(* Outside a rename a requested session is never on the list already:       *)
(* resolveRequestedSelection and finishRename leave no request behind.      *)
THEOREM RequestIsAwaitedAlways == Spec => []RequestIsAwaited
<1>1. IInv => RequestIsAwaited
  BY DEF IInv
<1> QED  BY <1>1, InvariantAlways, PTL

(* A cursor on a session is that session's item, and only that.             *)
LEMMA CursorIsSession ==
  ASSUME IInv, IsSession(cursor)
  PROVE  cursor = Session(cursor.of)
<1>1. cursor # None
  BY DEF IsSession, None
<1> QED  BY <1>1, IInvGives, ItemIs

HoldsNow ==
  /\ rows' # rows
  /\ IsSession(cursor)
  /\ cursor.of \in rows'.shown
  /\ cursor.of \in rows.pinned => cursor.of \in rows'.pinned
  /\ rename \in {NoSession, cursor.of}
  => \/ cursor' = cursor
     \/ requested \in rows'.shown /\ rename = NoSession
          /\ cursor' = Session(requested)

LEMMA StepHolds == IInv /\ [Next]_vars => HoldsNow
<1> SUFFICES ASSUME IInv, [Next]_vars,
                    rows' # rows, IsSession(cursor), cursor.of \in rows'.shown,
                    cursor.of \in rows.pinned => cursor.of \in rows'.pinned,
                    rename \in {NoSession, cursor.of}
             PROVE  \/ cursor' = cursor
                    \/ requested \in rows'.shown /\ rename = NoSession
                         /\ cursor' = Session(requested)
  BY DEF HoldsNow
<1>1. cursor = Session(cursor.of)
  BY CursorIsSession
<1>2. CatalogArrives \/ \E pin \in BOOLEAN : TogglePin(pin)
  BY DEF Next, vars, MoveSelection, DropConfirmation, MoveGroup, FoldSelectedGroup,
         ExpandSelectedControl, Stop, ArmArchive, Archive, StartRename, FinishRename,
         Dispatch, EditPrompt
<1>3. CASE CatalogArrives
  <2>1. SetRows(rows')
    BY <1>3 DEF CatalogArrives, SetRows
  <2>2. Tracked = cursor
    BY <1>1 DEF Tracked
  <2>3. CASE Resolves(rows', rename)
    BY <2>1, <2>3 DEF SetRows, Select, Resolves
  <2>4. CASE ~Resolves(rows', rename)
    BY <1>1, <2>1, <2>2, <2>4 DEF SetRows, Select
  <2> QED  BY <2>3, <2>4
<1>4. CASE \E pin \in BOOLEAN : TogglePin(pin)
  <2>1. PICK pin \in BOOLEAN : TogglePin(pin)
    BY <1>4
  <2>2. Selected = cursor.of /\ rows' = Repinned(pin)
    BY <2>1 DEF Selected, TogglePin
  <2>3. ~pin => Selected \notin rows'.pinned
    BY <2>2 DEF Repinned, IInv, TypeOK
  <2>4. Select(rows', Selected)
    BY <2>1, <2>2, <2>3 DEF TogglePin
  <2> QED  BY <1>1, <2>2, <2>4 DEF Select
<1> QED  BY <1>2, <1>3, <1>4

(* SetRows and TogglePin keep the cursor on the session it is on whenever   *)
(* the new list still has it, unless a dispatched session takes it.         *)
THEOREM SelectionHoldsAlways == Spec => SelectionHolds
<1>1. IInv /\ [Next]_vars => [HoldsNow]_vars
  BY StepHolds
<1> QED  BY <1>1, InvariantAlways, PTL DEF Spec, SelectionHolds, HoldsNow

LEMMA RenameStep == IInv /\ RenameKeepsItsRow /\ [Next]_vars => RenameKeepsItsRow'
<1> SUFFICES ASSUME IInv, RenameKeepsItsRow, [Next]_vars, rename' \in rows'.shown
             PROVE  cursor' = Session(rename')
  BY DEF RenameKeepsItsRow
<1>1. rename' # NoSession
  <2>1. rows'.shown \subseteq Sessions
    BY Inductive DEF IInv, TypeOK
  <2> QED  BY <2>1, SelectionAssumption DEF Sessions
<1>2. CASE CatalogArrives
  <2>1. rename' = rename /\ SetRows(rows')
    BY <1>2 DEF CatalogArrives, SetRows
  <2>2. ~Resolves(rows', rename) /\ Tracked = Session(rename)
    BY <1>1, <2>1 DEF Resolves, Tracked
  <2>3. IsSession(Tracked) /\ Tracked.of = rename
    BY <2>2 DEF IsSession, Session
  <2> QED  BY <2>1, <2>2, <2>3 DEF SetRows, Select
<1>3. CASE StartRename
  BY <1>3, CursorIsSession DEF StartRename, HasSelectedRow, Selected
<1>4. CASE FinishRename
  BY <1>1, <1>4 DEF FinishRename
<1>5. CASE UNCHANGED vars
  BY <1>5 DEF vars, RenameKeepsItsRow
<1>6. ASSUME rename = NoSession, rename' = rename PROVE FALSE
  BY <1>1, <1>6
<1>7. CASE \/ \E delta \in {-1, 1} : MoveSelection(delta) \/ MoveGroup(delta)
           \/ DropConfirmation \/ FoldSelectedGroup \/ ExpandSelectedControl
           \/ Stop \/ ArmArchive \/ Archive
  BY <1>6, <1>7 DEF MoveSelection, MoveGroup, DropConfirmation, FoldSelectedGroup,
                    ExpandSelectedControl, Stop, ArmArchive, Archive
<1>8. CASE (\E pin \in BOOLEAN : TogglePin(pin)) \/ Dispatch \/ EditPrompt
  BY <1>6, <1>8 DEF TogglePin, Dispatch, EditPrompt, Normal
<1> QED  BY <1>2, <1>3, <1>4, <1>5, <1>7, <1>8 DEF Next

(* The session being renamed keeps the cursor while it is listed, and gets *)
(* it back when a later catalog lists it again (SetRows).                   *)
THEOREM RenameKeepsItsRowAlways == Spec => []RenameKeepsItsRow
<1>1. Init => RenameKeepsItsRow
  BY DEF Init, RenameKeepsItsRow
<1>2. IInv /\ RenameKeepsItsRow /\ [Next]_vars => RenameKeepsItsRow'
  BY RenameStep
<1> QED  BY <1>1, <1>2, InvariantAlways, PTL DEF Spec
=============================================================================
