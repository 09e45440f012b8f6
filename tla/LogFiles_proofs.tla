--------------------------- MODULE LogFiles_proofs ---------------------------
(***************************************************************************)
(* The rotation of the log, for any number of threads, any limits and any  *)
(* clock: the directory holds no more files than it may once a rotation    *)
(* could remove what it should, a rotation removes no more than it must,   *)
(* and the last files hold the newest lines, as long as no file was named  *)
(* after an earlier time than the one before.                              *)
(***************************************************************************)
EXTENDS LogFiles, TLAPS, FiniteSetTheorems, WellFoundedInduction

LEMMA Limits ==
    /\ MaxSize \in Nat \ {0} /\ MaxFiles \in Nat \ {0} /\ LastSecond \in Nat \ {0}
    /\ MaxLines \in Nat \ {0} /\ MaxStarts \in Nat \ {0}
BY LogAssumption

LEMMA NoneApart == None \notin Threads /\ None \notin Nat /\ None \notin Seconds
BY LogAssumption, Limits DEF Seconds

-----------------------------------------------------------------------------
(* Which names rotate_logs removes                                         *)

\* The names before a name, and the first k names.
Before(names, name) == {n \in names : n < name}
First(names, k) == {name \in names : Cardinality(Before(names, name)) < k}

LEMMA LeastNumber ==
    ASSUME NEW S, S \subseteq Nat, S # {}
    PROVE  \E x \in S : \A y \in S : x <= y
<1> DEFINE R == OpToRel(<, Nat)
<1>1. \A x, y \in Nat : x < y => <<x, y>> \in R
  BY DEF OpToRel
<1>2. IsWellFoundedOn(R, Nat)
  BY NatLessThanWellFounded
<1>3. \E x \in S : \A y \in S : ~(<<y, x>> \in R)
  <2> HIDE DEF R
  <2> QED
    BY <1>2, WFMin
<1>4. PICK x \in S : \A y \in S : ~(<<y, x>> \in R)
  BY <1>3
<1>5. \A y \in S : ~(y < x)
  BY <1>1, <1>4
<1>6. \A y \in S : x <= y
  BY <1>5
<1> QED
  BY <1>6

\* Induction up to a limit, as a fact about a set of numbers.
LEMMA CountingUp ==
    ASSUME NEW P, NEW limit \in Nat, 0 \in P,
           \A k \in Nat : k < limit /\ k \in P => k + 1 \in P
    PROVE  \A k \in 0..limit : k \in P
<1> DEFINE Bad == {k \in 0..limit : k \notin P}
<1> SUFFICES ASSUME Bad # {} PROVE FALSE
  OBVIOUS
<1>1. Bad \subseteq Nat
  OBVIOUS
<1>2. PICK x \in Bad : \A y \in Bad : x <= y
  BY <1>1, LeastNumber
<1>3. x \in 0..limit /\ x # 0 /\ x \notin P
  OBVIOUS
<1>4. x - 1 \in Nat /\ x - 1 < limit /\ x = (x - 1) + 1 /\ x - 1 \in 0..limit /\ ~(x <= x - 1)
  BY <1>3
<1>5. x - 1 \in P
  BY <1>2, <1>4
<1> QED
  BY <1>3, <1>4, <1>5

LEMMA BeforeFinite ==
    ASSUME NEW names, IsFiniteSet(names), NEW name
    PROVE  /\ IsFiniteSet(Before(names, name)) /\ Cardinality(Before(names, name)) \in Nat
<1>1. Before(names, name) \in SUBSET names
  BY DEF Before
<1> QED
  BY <1>1, FS_Subset, FS_CardinalityType

\* Fewer names are before an earlier name.
LEMMA EarlierFirst ==
    ASSUME NEW names, names \subseteq Nat, IsFiniteSet(names), NEW k \in Nat,
           NEW a \in First(names, k), NEW b \in names, b <= a
    PROVE  b \in First(names, k)
<1>1. Before(names, b) \in SUBSET Before(names, a)
  <2>1. a \in Nat /\ b \in Nat
    BY DEF First
  <2>2. ASSUME NEW n \in names, n < b PROVE n < a
    BY <2>1, <2>2
  <2> QED
    BY <2>2 DEF Before
<1>2. IsFiniteSet(Before(names, a)) /\ Cardinality(Before(names, a)) \in Nat
  BY BeforeFinite
<1>3. Cardinality(Before(names, b)) \in Nat
  BY BeforeFinite
<1>4. Cardinality(Before(names, b)) <= Cardinality(Before(names, a))
  BY <1>1, <1>2, FS_Subset
<1>5. Cardinality(Before(names, a)) < k
  BY DEF First
<1>6. Cardinality(Before(names, b)) < k
  BY <1>2, <1>3, <1>4, <1>5
<1> QED
  BY <1>6 DEF First

\* The first k names are k names.
LEMMA FirstCount ==
    ASSUME NEW names, names \subseteq Nat, IsFiniteSet(names), NEW k \in 0..Cardinality(names)
    PROVE  Cardinality(First(names, k)) = k
<1> DEFINE P == {n \in Nat : Cardinality(First(names, n)) = n}
<1>c. Cardinality(names) \in Nat
  BY FS_CardinalityType
<1>1. 0 \in P
  <2>1. First(names, 0) = {}
    <3>1. \A name \in names : ~(Cardinality(Before(names, name)) < 0)
      BY BeforeFinite
    <3> QED
      BY <3>1 DEF First
  <2> QED
    BY <2>1, FS_EmptySet
<1>2. ASSUME NEW n \in Nat, n < Cardinality(names), n \in P
      PROVE  n + 1 \in P
  <2> DEFINE low == First(names, n)
  <2>1. low \in SUBSET names /\ Cardinality(low) = n
    BY <1>2 DEF First
  <2>2. IsFiniteSet(low)
    BY <2>1, FS_Subset
  <2>3. names \ low # {}
    <3>1. low # names
      BY <1>2, <2>1
    <3> QED
      BY <2>1, <3>1
  <2>4. PICK m \in names \ low : \A y \in names \ low : m <= y
    BY <2>3, LeastNumber
  <2>5. \A x \in low : x < m
    <3> SUFFICES ASSUME NEW x \in low, ~(x < m) PROVE FALSE
      OBVIOUS
    <3>1. m <= x
      <4>1. m \in Nat /\ x \in Nat
        BY <2>1, <2>4
      <4> QED
        BY <4>1
    <3> QED
      BY <3>1, <2>4, EarlierFirst
  <2>6. Before(names, m) = low
    <3>1. low \subseteq Before(names, m)
      BY <2>1, <2>5 DEF Before
    <3>2. ASSUME NEW x \in names, x < m PROVE x \in low
      BY <3>2, <2>4
    <3> QED
      BY <3>1, <3>2 DEF Before
  <2>7. m \in First(names, n + 1)
    <3>1. Cardinality(Before(names, m)) < n + 1
      BY <2>1, <2>6
    <3> QED
      BY <3>1 DEF First
  <2>8. low \subseteq First(names, n + 1)
    <3>1. ASSUME NEW x \in low PROVE x \in First(names, n + 1)
      <4>1. Cardinality(Before(names, x)) < n /\ x \in names
        BY DEF First
      <4>2. Cardinality(Before(names, x)) \in Nat
        BY BeforeFinite
      <4>3. Cardinality(Before(names, x)) < n + 1
        BY <4>1, <4>2
      <4> QED
        BY <4>1, <4>3 DEF First
    <3> QED
      BY <3>1
  <2>9. ASSUME NEW y \in First(names, n + 1) PROVE y \in low \cup {m}
    <3> SUFFICES ASSUME y \notin low, y # m PROVE FALSE
      OBVIOUS
    <3>1. y \in names /\ Cardinality(Before(names, y)) < n + 1
      BY DEF First
    <3>2. m < y
      BY <3>1, <2>4
    <3>3. low \cup {m} \in SUBSET Before(names, y)
      <4>1. \A x \in low : x < y
        BY <2>1, <2>4, <2>5, <3>1, <3>2
      <4> QED
        BY <4>1, <2>1, <2>4, <3>2 DEF Before
    <3>4. IsFiniteSet(Before(names, y)) /\ Cardinality(Before(names, y)) \in Nat
      BY BeforeFinite
    <3>5. Cardinality(low \cup {m}) = n + 1
      <4>1. m \notin low
        BY <2>4
      <4> HIDE DEF low
      <4> QED
        BY <4>1, <2>1, <2>2, FS_AddElement
    <3>6. Cardinality(low \cup {m}) <= Cardinality(Before(names, y))
      BY <3>3, <3>4, FS_Subset
    <3> QED
      BY <3>1, <3>4, <3>5, <3>6
  <2>10. First(names, n + 1) = low \cup {m}
    BY <2>7, <2>8, <2>9
  <2>11. Cardinality(First(names, n + 1)) = n + 1
    BY <2>1, <2>2, <2>4, <2>10, FS_AddElement
  <2> QED
    BY <2>11
<1>3. \A n \in 0..Cardinality(names) : n \in P
  <2> HIDE DEF P
  <2> QED
    BY <1>1, <1>2, <1>c, CountingUp
<1> QED
  BY <1>3

(***************************************************************************)
(* rotate_logs leaves one file less than the limit where there were more,  *)
(* and leaves all of them where there were not.                            *)
(***************************************************************************)
LEMMA OldestCount ==
    ASSUME NEW names, names \subseteq Nat, IsFiniteSet(names)
    PROVE  /\ Cardinality(names \ Oldest(names)) \in Nat
           /\ Cardinality(names) >= MaxFiles => Cardinality(names \ Oldest(names)) = MaxFiles - 1
           /\ Cardinality(names) < MaxFiles => Oldest(names) = {}
           /\ \A a \in Oldest(names), b \in names : b <= a => b \in Oldest(names)
<1> DEFINE excess == Cardinality(names) - MaxFiles + 1
<1>c. Cardinality(names) \in Nat /\ MaxFiles \in Nat /\ MaxFiles > 0
  BY FS_CardinalityType, Limits
<1>1. Oldest(names) = First(names, excess)
  BY DEF Oldest, First, Before
<1>2. CASE Cardinality(names) < MaxFiles
  <2>1. Oldest(names) = {}
    <3>1. \A name \in names : ~(Cardinality(Before(names, name)) < excess)
      <4>1. \A name \in names : Cardinality(Before(names, name)) \in Nat
        BY BeforeFinite
      <4> QED
        BY <4>1, <1>2, <1>c
    <3> QED
      BY <1>1, <3>1 DEF First
  <2> QED
    BY <1>2, <1>c, <2>1
<1>3. CASE Cardinality(names) >= MaxFiles
  <2>1. excess \in Nat /\ excess \in 0..Cardinality(names)
    BY <1>3, <1>c
  <2>2. Cardinality(Oldest(names)) = excess
    BY <1>1, <2>1, FirstCount
  <2>3. names \cap Oldest(names) = Oldest(names)
    BY DEF Oldest
  <2>4. Cardinality(names \ Oldest(names)) = Cardinality(names) - excess
    <3>1. Cardinality(names \ Oldest(names)) = Cardinality(names) - Cardinality(names \cap Oldest(names))
      BY FS_Difference, Zenon
    <3> QED
      BY <3>1, <2>2, <2>3, Zenon
  <2>5. \A a \in Oldest(names), b \in names : b <= a => b \in Oldest(names)
    <3> HIDE DEF excess
    <3> QED
      BY <1>1, <2>1, EarlierFirst
  <2> QED
    BY <1>3, <1>c, <2>4, <2>5
<1> QED
  BY <1>2, <1>3, <1>c

\* The names after a name, and the last MaxFiles - 1 names.
After(names, name) == {n \in names : n > name}
Late(names) == {name \in names : Cardinality(After(names, name)) < MaxFiles - 1}

LEMMA AfterFinite ==
    ASSUME NEW names, IsFiniteSet(names), NEW name
    PROVE  IsFiniteSet(After(names, name)) /\ Cardinality(After(names, name)) \in Nat
<1>1. After(names, name) \in SUBSET names
  BY DEF After
<1> QED
  BY <1>1, FS_Subset, FS_CardinalityType

\* What rotate_logs should leave are the last names, ...
LEMMA SparedLate ==
    ASSUME NEW names, names \subseteq Nat, IsFiniteSet(names),
           NEW a \in names, a \notin Oldest(names)
    PROVE  a \in Late(names)
<1> DEFINE left == names \ Oldest(names)
<1>c. Cardinality(names) \in Nat /\ MaxFiles \in Nat /\ Cardinality(left) \in Nat
  BY FS_CardinalityType, OldestCount, Limits
<1>1. left \in SUBSET names /\ a \in left
  OBVIOUS
<1>2. IsFiniteSet(left)
  <2> HIDE DEF left
  <2> QED
    BY <1>1, FS_Subset
<1>3. Cardinality(left) <= MaxFiles - 1
  <2>1. CASE Cardinality(names) >= MaxFiles
    <3>1. Cardinality(left) = MaxFiles - 1
      BY <2>1, OldestCount
    <3> QED
      BY <3>1, <1>c
  <2>2. CASE Cardinality(names) < MaxFiles
    <3>1. left = names
      BY <2>2, OldestCount
    <3> HIDE DEF left
    <3> QED
      BY <3>1, <2>2, <1>c
  <2> QED
    BY <2>1, <2>2, <1>c
<1>4. After(names, a) \in SUBSET (left \ {a})
  <2>1. ASSUME NEW n \in names, n > a PROVE n \in left /\ n # a
    <3>1. n \in Nat /\ a \in Nat /\ a <= n /\ n # a
      BY <2>1
    <3>2. n \notin Oldest(names)
      BY <3>1, OldestCount
    <3> QED
      BY <3>1, <3>2
  <2> QED
    BY <2>1 DEF After
<1> HIDE DEF left
<1>5. IsFiniteSet(left \ {a}) /\ Cardinality(left \ {a}) = Cardinality(left) - 1
  BY <1>1, <1>2, FS_RemoveElement
<1>6. Cardinality(After(names, a)) <= Cardinality(left \ {a})
  BY <1>4, <1>5, FS_Subset
<1>7. Cardinality(After(names, a)) \in Nat
  BY AfterFinite
<1>8. Cardinality(After(names, a)) < MaxFiles - 1
  BY <1>3, <1>5, <1>6, <1>7, <1>c
<1> QED
  BY <1>8 DEF Late

\* ... and no other name is among the last ones, whatever else is left.
LEMMA LateSpared ==
    ASSUME NEW names, names \subseteq Nat, IsFiniteSet(names),
           NEW gone \in SUBSET Oldest(names), NEW a \in Late(names \ gone)
    PROVE  a \notin Oldest(names)
<1> SUFFICES ASSUME a \in Oldest(names) PROVE FALSE
  OBVIOUS
<1>c. Cardinality(names) \in Nat /\ MaxFiles \in Nat
  BY FS_CardinalityType, Limits
<1>1. Cardinality(names) >= MaxFiles
  <2>1. Oldest(names) # {}
    OBVIOUS
  <2>2. ~(Cardinality(names) < MaxFiles)
    BY <2>1, OldestCount
  <2> QED
    BY <2>2, <1>c
<1>2. Cardinality(names \ Oldest(names)) = MaxFiles - 1
  BY <1>1, OldestCount
<1>3. IsFiniteSet(names \ gone)
  <2>1. names \ gone \in SUBSET names
    OBVIOUS
  <2> QED
    BY <2>1, FS_Subset
<1>4. names \ Oldest(names) \in SUBSET After(names \ gone, a)
  <2>1. ASSUME NEW b \in names, b \notin Oldest(names) PROVE b > a
    <3>1. ~(b <= a) /\ b \in Nat /\ a \in Nat
      BY <2>1, OldestCount DEF Oldest
    <3> QED
      BY <3>1
  <2> QED
    BY <2>1 DEF After
<1>5. IsFiniteSet(After(names \ gone, a)) /\ Cardinality(After(names \ gone, a)) \in Nat
  BY <1>3, AfterFinite
<1>6. Cardinality(names \ Oldest(names)) <= Cardinality(After(names \ gone, a))
  BY <1>4, <1>5, FS_Subset
<1>7. Cardinality(After(names \ gone, a)) < MaxFiles - 1
  BY DEF Late
<1> QED
  BY <1>2, <1>5, <1>6, <1>7, <1>c

-----------------------------------------------------------------------------
(* The inductive invariant                                                 *)

Dir(f) == f \in [DOMAIN f -> Seq(Nat)]

\* Line n is in the directory f.
Has(f, n) == \E name \in DOMAIN f : \E i \in 1..Len(f[name]) : f[name][i] = n

\* The directory f holds n lines in the order of its names, and the newest of
\* them without a gap: in its last files, or in all of them.
Newest(f, n, all) ==
    /\ \A a, b \in DOMAIN f : a < b =>
          \A i \in 1..Len(f[a]), j \in 1..Len(f[b]) : f[a][i] < f[b][j]
    /\ \A a \in DOMAIN f : \A i \in 1..Len(f[a]) : f[a][i] \in 1..n
    /\ \A a \in DOMAIN f : all \/ a \in Late(DOMAIN f) =>
          \A i \in 1..Len(f[a]) : \A m \in f[a][i]..n : Has(f, m)

PcStates == {"down", "idle", "localtime", "write", "open"}

LogTypes ==
    /\ clock \in Seconds /\ tm \in Seconds
    /\ pc \in [Threads -> PcStates] /\ tv \in [Threads -> Seconds]
    /\ lock \in Threads \cup {None}
    /\ Dir(files) /\ Names \subseteq Seconds
    /\ log_fp \in Names \cup {None}
    /\ use_file \in BOOLEAN /\ tidy \in BOOLEAN /\ inStep \in BOOLEAN
    /\ lines \in 0..MaxLines /\ starts \in 0..MaxStarts

(***************************************************************************)
(* After a rotation that removed what it should there is room for one more *)
(* file while a thread opens it; no file is open then, nor when the        *)
(* service is down.                                                        *)
(***************************************************************************)
RoomForFile ==
    /\ tidy => Cardinality(Names) <= MaxFiles
    /\ tidy /\ lock # None => Cardinality(Names) < MaxFiles
    /\ lock # None => log_fp = None
    /\ (\A t \in Threads : pc[t] = "down") => log_fp = None

\* As long as no name went back in time, the open file is the newest one.
NewestOpen ==
    inStep => /\ Newest(files, lines, tidy)
              /\ log_fp # None => \A name \in Names : name <= log_fp

LogInv == LogTypes /\ RoomForFile /\ NewestOpen

-----------------------------------------------------------------------------
(* What the operations do to the directory                                 *)

\* rotate_logs on directory f, which could remove the names in gone
Pruned(f, gone) == [name \in DOMAIN f \ gone |-> f[name]]

\* A new file in directory f, or the one of that name continued.
WithFile(f, new) ==
    [name \in DOMAIN f \cup {new} |-> IF name \in DOMAIN f THEN f[name] ELSE << >>]

LEMMA PrunedNewest ==
    ASSUME NEW f, NEW n \in Nat, Dir(f), DOMAIN f \subseteq Nat, IsFiniteSet(DOMAIN f),
           NEW all, Newest(f, n, all), NEW gone \in SUBSET Oldest(DOMAIN f)
    PROVE  Newest(Pruned(f, gone), n, gone = Oldest(DOMAIN f))
<1> DEFINE g == Pruned(f, gone)
<1>1. /\ DOMAIN g = DOMAIN f \ gone
      /\ \A a \in DOMAIN g : a \in DOMAIN f /\ g[a] = f[a]
  BY DEF Pruned
<1> HIDE DEF g
<1>2. \A a, b \in DOMAIN g : a < b =>
         \A i \in 1..Len(g[a]), j \in 1..Len(g[b]) : g[a][i] < g[b][j]
  BY <1>1 DEF Newest
<1>3. \A a \in DOMAIN g : \A i \in 1..Len(g[a]) : g[a][i] \in 1..n
  BY <1>1 DEF Newest
<1>4. ASSUME NEW a \in DOMAIN g, gone = Oldest(DOMAIN f) \/ a \in Late(DOMAIN g),
             NEW i \in 1..Len(g[a]), NEW m \in g[a][i]..n
      PROVE  Has(g, m)
  <2>1. a \in DOMAIN f /\ g[a] = f[a] /\ f[a][i] \in 1..n
    BY <1>1, <1>3
  <2>a. a \notin Oldest(DOMAIN f)
    BY <1>1, <1>4, LateSpared
  <2>l. a \in Late(DOMAIN f)
    BY <2>1, <2>a, SparedLate
  <2>2. Has(f, m)
    BY <2>1, <2>l DEF Newest
  <2>3. PICK b \in DOMAIN f : \E j \in 1..Len(f[b]) : f[b][j] = m
    BY <2>2 DEF Has
  <2>4. PICK j \in 1..Len(f[b]) : f[b][j] = m
    BY <2>3
  <2>5. b \in DOMAIN g
    <3> SUFFICES ASSUME b \in Oldest(DOMAIN f) PROVE FALSE
      BY <1>1
    <3>1. ~(a <= b)
      BY <2>1, <2>a, OldestCount
    <3>2. b < a
      BY <2>1, <3>1
    <3>3. f[b][j] < f[a][i]
      BY <2>1, <3>2 DEF Newest
    <3> QED
      BY <2>1, <2>4, <3>3
  <2> QED
    BY <1>1, <2>4, <2>5 DEF Has
<1> QED
  BY <1>2, <1>3, <1>4 DEF Newest, g

LEMMA WrittenNewest ==
    ASSUME NEW f, NEW n \in Nat, Dir(f), DOMAIN f \subseteq Nat, NEW all, Newest(f, n, all),
           NEW top \in DOMAIN f, \A name \in DOMAIN f : name <= top,
           NEW g, g = [f EXCEPT ![top] = Append(f[top], n + 1)]
    PROVE  Newest(g, n + 1, all)
<1>f. f[top] \in Seq(Nat)
  BY DEF Dir
<1>1. /\ DOMAIN g = DOMAIN f /\ g[top] = Append(f[top], n + 1)
      /\ \A a \in DOMAIN f : a # top => g[a] = f[a]
  BY DEF Dir
<1>2. /\ Len(f[top]) \in Nat /\ Len(g[top]) = Len(f[top]) + 1 /\ g[top][Len(f[top]) + 1] = n + 1
      /\ \A i \in 1..Len(f[top]) : g[top][i] = f[top][i]
  BY <1>f, <1>1
<1>3. \A a \in DOMAIN f : \A i \in 1..Len(f[a]) : i \in 1..Len(g[a]) /\ g[a][i] = f[a][i]
  BY <1>1, <1>2
\* Every line of g is one of f, or the new one.
<1>4. ASSUME NEW a \in DOMAIN g, NEW i \in 1..Len(g[a])
      PROVE  \/ i \in 1..Len(f[a]) /\ g[a][i] = f[a][i] /\ f[a][i] \in 1..n
             \/ a = top /\ g[a][i] = n + 1
  <2>1. CASE a # top
    BY <2>1, <1>1 DEF Newest
  <2>2. CASE a = top /\ i \in 1..Len(f[top])
    BY <2>2, <1>1, <1>2 DEF Newest
  <2>3. CASE a = top /\ i \notin 1..Len(f[top])
    <3>1. i = Len(f[top]) + 1
      BY <2>3, <1>2
    <3> QED
      BY <3>1, <2>3, <1>2
  <2> QED
    BY <2>1, <2>2, <2>3
<1>5. ASSUME NEW a \in DOMAIN g, NEW b \in DOMAIN g, a < b,
             NEW i \in 1..Len(g[a]), NEW j \in 1..Len(g[b])
      PROVE  g[a][i] < g[b][j]
  <2>1. a # top
    BY <1>1, <1>5
  <2>2. i \in 1..Len(f[a]) /\ g[a][i] = f[a][i] /\ f[a][i] \in 1..n
    BY <1>4, <2>1
  <2>3. CASE j \in 1..Len(f[b]) /\ g[b][j] = f[b][j]
    BY <2>2, <2>3, <1>1, <1>5 DEF Newest
  <2>4. CASE g[b][j] = n + 1
    BY <2>2, <2>4
  <2> QED
    BY <2>3, <2>4, <1>4
<1>6. \A a \in DOMAIN g : \A i \in 1..Len(g[a]) : g[a][i] \in 1..(n + 1)
  <2> SUFFICES ASSUME NEW a \in DOMAIN g, NEW i \in 1..Len(g[a]) PROVE g[a][i] \in 1..(n + 1)
    OBVIOUS
  <2>1. g[a][i] \in 1..n \/ g[a][i] = n + 1
    BY <1>4
  <2> QED
    BY <2>1
<1>7. Has(g, n + 1)
  <2>1. Len(f[top]) + 1 \in 1..Len(g[top])
    BY <1>2
  <2> QED
    BY <2>1, <1>1, <1>2 DEF Has
<1>8. ASSUME NEW a \in DOMAIN g, all \/ a \in Late(DOMAIN g),
             NEW i \in 1..Len(g[a]), NEW m \in g[a][i]..(n + 1)
      PROVE  Has(g, m)
  <2>1. CASE m = n + 1
    BY <2>1, <1>7
  <2>2. CASE m # n + 1
    <3>1. i \in 1..Len(f[a]) /\ g[a][i] = f[a][i] /\ f[a][i] \in 1..n
      <4>1. g[a][i] # n + 1
        BY <2>2
      <4> QED
        BY <4>1, <1>4
    <3>2. m \in f[a][i]..n
      BY <2>2, <3>1
    <3>3. Has(f, m)
      BY <1>1, <1>8, <3>1, <3>2 DEF Newest
    <3>4. PICK b \in DOMAIN f : \E j \in 1..Len(f[b]) : f[b][j] = m
      BY <3>3 DEF Has
    <3>5. PICK j \in 1..Len(f[b]) : f[b][j] = m
      BY <3>4
    <3> QED
      BY <3>5, <1>1, <1>3 DEF Has
  <2> QED
    BY <2>1, <2>2
<1> QED
  BY <1>5, <1>6, <1>8 DEF Newest

LEMMA OpenedNewest ==
    ASSUME NEW f, NEW n \in Nat, Dir(f), DOMAIN f \subseteq Nat, IsFiniteSet(DOMAIN f),
           NEW all, Newest(f, n, all), NEW new
    PROVE  Newest(WithFile(f, new), n, all)
<1> DEFINE g == WithFile(f, new)
<1>1. /\ DOMAIN g = DOMAIN f \cup {new}
      /\ \A a \in DOMAIN f : g[a] = f[a]
      /\ \A a \in DOMAIN g : a \notin DOMAIN f => g[a] = << >>
  BY DEF WithFile
<1> HIDE DEF g
<1>2. \A a \in DOMAIN g : \A i \in 1..Len(g[a]) : a \in DOMAIN f /\ g[a] = f[a]
  <2>1. \A i : i \notin 1..Len(<< >>)
    OBVIOUS
  <2> QED
    BY <1>1, <2>1
<1>3. \A a, b \in DOMAIN g : a < b =>
         \A i \in 1..Len(g[a]), j \in 1..Len(g[b]) : g[a][i] < g[b][j]
  BY <1>2 DEF Newest
<1>4. \A a \in DOMAIN g : \A i \in 1..Len(g[a]) : g[a][i] \in 1..n
  BY <1>2 DEF Newest
<1>5. \A m : Has(f, m) => Has(g, m)
  BY <1>1 DEF Has
\* A file that is among the last ones still was so before.
<1>l. ASSUME NEW a \in DOMAIN f, a \in Late(DOMAIN g) PROVE a \in Late(DOMAIN f)
  <2>1. After(DOMAIN f, a) \in SUBSET After(DOMAIN g, a)
    BY <1>1 DEF After
  <2>2. IsFiniteSet(DOMAIN g)
    BY <1>1, FS_AddElement
  <2>3. IsFiniteSet(After(DOMAIN g, a)) /\ Cardinality(After(DOMAIN g, a)) \in Nat
    BY <2>2, AfterFinite
  <2>4. Cardinality(After(DOMAIN f, a)) <= Cardinality(After(DOMAIN g, a))
    BY <2>1, <2>3, FS_Subset
  <2>5. Cardinality(After(DOMAIN f, a)) \in Nat
    BY AfterFinite
  <2>6. Cardinality(After(DOMAIN g, a)) < MaxFiles - 1
    BY <1>l DEF Late
  <2>7. Cardinality(After(DOMAIN f, a)) < MaxFiles - 1
    BY <2>3, <2>4, <2>5, <2>6, Limits
  <2> QED
    BY <2>7 DEF Late
<1>6. ASSUME NEW a \in DOMAIN g, all \/ a \in Late(DOMAIN g),
             NEW i \in 1..Len(g[a]), NEW m \in g[a][i]..n
      PROVE  Has(g, m)
  <2>1. a \in DOMAIN f /\ g[a] = f[a]
    BY <1>2
  <2>2. Has(f, m)
    BY <2>1, <1>6, <1>l DEF Newest
  <2> QED
    BY <2>2, <1>5
<1> QED
  BY <1>3, <1>4, <1>6 DEF Newest, g

-----------------------------------------------------------------------------
(* The inductive invariant, step by step                                   *)

LEMMA NamesFinite ==
    ASSUME NEW S, S \subseteq Seconds
    PROVE  /\ S \subseteq Nat /\ IsFiniteSet(S) /\ Cardinality(S) \in Nat
<1>1. IsFiniteSet(0..LastSecond) /\ 0..LastSecond \subseteq Nat
  BY Limits, FS_Interval
<1>2. S \in SUBSET (0..LastSecond)
  BY DEF Seconds
<1> QED
  BY <1>1, <1>2, FS_Subset, FS_CardinalityType

\* A rotation makes room for a file, if it could remove what it should.
LEMMA PrunedRoom ==
    ASSUME NEW f, Dir(f), DOMAIN f \subseteq Seconds, NEW gone \in SUBSET Oldest(DOMAIN f),
           NEW g, g = Pruned(f, gone)
    PROVE  /\ Dir(g) /\ DOMAIN g = DOMAIN f \ gone /\ DOMAIN g \subseteq Seconds
           /\ gone = Oldest(DOMAIN f) => Cardinality(DOMAIN g) < MaxFiles
<1>1. /\ DOMAIN g = DOMAIN f \ gone
      /\ \A a \in DOMAIN g : a \in DOMAIN f /\ g[a] = f[a]
      /\ g = [a \in DOMAIN g |-> g[a]]
  BY DEF Pruned
<1>2. Dir(g)
  BY <1>1 DEF Dir
<1>3. /\ DOMAIN f \subseteq Nat /\ IsFiniteSet(DOMAIN f) /\ Cardinality(DOMAIN f) \in Nat
  BY NamesFinite
<1>4. MaxFiles \in Nat /\ MaxFiles > 0
  BY Limits
<1>5. ASSUME gone = Oldest(DOMAIN f) PROVE Cardinality(DOMAIN g) < MaxFiles
  <2>1. CASE Cardinality(DOMAIN f) < MaxFiles
    <3>1. DOMAIN g = DOMAIN f
      BY <1>1, <1>3, <1>5, <2>1, OldestCount
    <3> QED
      BY <2>1, <3>1
  <2>2. CASE Cardinality(DOMAIN f) >= MaxFiles
    <3>1. Cardinality(DOMAIN g) = MaxFiles - 1
      BY <1>1, <1>3, <1>5, <2>2, OldestCount
    <3> QED
      BY <1>4, <3>1
  <2> QED
    BY <1>3, <1>4, <2>1, <2>2
<1> QED
  BY <1>1, <1>2, <1>5

LEMMA WithFileRoom ==
    ASSUME NEW f, Dir(f), DOMAIN f \subseteq Seconds,
           NEW new \in Seconds, NEW g, g = WithFile(f, new)
    PROVE  /\ Dir(g) /\ DOMAIN g = DOMAIN f \cup {new}
           /\ Cardinality(DOMAIN f) < MaxFiles => Cardinality(DOMAIN g) <= MaxFiles
<1>1. DOMAIN g = DOMAIN f \cup {new}
  BY DEF WithFile
<1>2. Dir(g)
  <2>1. << >> \in Seq(Nat)
    OBVIOUS
  <2>2. \A a \in DOMAIN g : g[a] \in Seq(Nat)
    BY <2>1 DEF WithFile, Dir
  <2>3. g = [a \in DOMAIN g |-> g[a]]
    BY DEF WithFile
  <2> QED
    BY <2>2, <2>3 DEF Dir
<1>3. IsFiniteSet(DOMAIN f) /\ Cardinality(DOMAIN f) \in Nat
  BY NamesFinite
<1>4. Cardinality(DOMAIN g) <= Cardinality(DOMAIN f) + 1
  BY <1>1, <1>3, FS_AddElement
<1>5. Cardinality(DOMAIN f) < MaxFiles => Cardinality(DOMAIN f) + 1 <= MaxFiles
  BY <1>3, Limits
<1>6. Cardinality(DOMAIN g) \in Nat
  BY <1>1, NamesFinite
<1> QED
  BY <1>1, <1>2, <1>3, <1>4, <1>5, <1>6, Limits

\* The directory with one more line.
LEMMA WrittenDir ==
    ASSUME NEW f, Dir(f), NEW top \in DOMAIN f, NEW n \in Nat,
           NEW g, g = [f EXCEPT ![top] = Append(f[top], n)]
    PROVE  Dir(g) /\ DOMAIN g = DOMAIN f
<1>1. f \in [DOMAIN f -> Seq(Nat)] /\ f[top] \in Seq(Nat)
  BY DEF Dir
<1>2. PICK content \in Seq(Nat) : content = Append(f[top], n)
  <2>1. \A s \in Seq(Nat) : Append(s, n) \in Seq(Nat)
    OBVIOUS
  <2> QED
    BY <1>1, <2>1
<1>3. g = [f EXCEPT ![top] = content]
  BY <1>2
<1>4. g \in [DOMAIN f -> Seq(Nat)] /\ DOMAIN g = DOMAIN f
  BY <1>1, <1>3
<1> QED
  BY <1>4 DEF Dir

LEMMA InitLog == Init => LogInv
<1> SUFFICES ASSUME Init PROVE LogInv
  OBVIOUS
<1>1. Names = {} /\ Dir(files)
  BY DEF Init, Dir, Names
<1>2. LogTypes
  <2>1. clock \in Seconds /\ tm \in Seconds /\ 0 \in Seconds
    BY Limits DEF Init, Seconds
  <2>2. pc \in [Threads -> PcStates] /\ tv \in [Threads -> Seconds]
    BY <2>1 DEF Init, PcStates
  <2>3. lines \in 0..MaxLines /\ starts \in 0..MaxStarts
    BY Limits DEF Init
  <2>4. use_file \in BOOLEAN /\ tidy \in BOOLEAN /\ inStep \in BOOLEAN
    BY DEF Init
  <2>5. lock \in Threads \cup {None} /\ log_fp \in Names \cup {None} /\ Names \subseteq Seconds
    BY <1>1 DEF Init
  <2> QED
    BY <1>1, <2>1, <2>2, <2>3, <2>4, <2>5 DEF LogTypes
<1>3. RoomForFile
  BY <1>1, FS_EmptySet, Limits DEF Init, RoomForFile
<1>4. NewestOpen
  BY <1>1 DEF Init, NewestOpen, Newest, Names
<1> QED
  BY <1>2, <1>3, <1>4 DEF LogInv

LEMMA LogInitKeeps == ASSUME LogInv, LogInit PROVE LogInv'
<1>1. /\ Dir(files) /\ DOMAIN files \subseteq Seconds /\ Names = DOMAIN files
      /\ Names' = DOMAIN files' /\ log_fp = None /\ lines \in Nat
  BY DEF LogInv, LogTypes, RoomForFile, LogInit, Names
<1>2. PICK gone \in SUBSET Oldest(DOMAIN files) :
         files' = Pruned(files, gone) /\ tidy' = (gone = Oldest(DOMAIN files))
  BY DEF LogInit, RotateLogs, Pruned, Names
<1>3. /\ Dir(files') /\ Names' \subseteq Names /\ Names' \subseteq Seconds
      /\ tidy' => Cardinality(Names') < MaxFiles
      /\ Cardinality(Names') \in Nat /\ tidy' \in BOOLEAN
  <2>1. Dir(files') /\ Names' = Names \ gone /\ (tidy' => Cardinality(Names') < MaxFiles)
    BY <1>1, <1>2, PrunedRoom
  <2>2. Names' \subseteq Names /\ Names' \subseteq Seconds /\ tidy' \in BOOLEAN
    BY <1>1, <1>2, <2>1
  <2> QED
    BY <2>1, <2>2, NamesFinite
<1>4. PICK main \in Threads : lock' = main /\ pc' = [pc EXCEPT ![main] = "open"]
  BY DEF LogInit
<1>5. LogTypes'
  BY <1>1, <1>3, <1>4, Limits DEF LogInit, LogInv, LogTypes, PcStates
<1>6. RoomForFile'
  BY <1>1, <1>3, Limits DEF LogInit, RoomForFile
<1>7. NewestOpen'
  <2> SUFFICES ASSUME inStep PROVE Newest(files', lines, tidy')
    BY <1>1 DEF LogInit, NewestOpen
  <2>1. Newest(files, lines, tidy) /\ DOMAIN files \subseteq Nat /\ IsFiniteSet(DOMAIN files)
    BY <1>1, NamesFinite DEF LogInv, NewestOpen
  <2> QED
    BY <1>1, <1>2, <2>1, PrunedNewest
<1> QED
  BY <1>5, <1>6, <1>7 DEF LogInv

LEMMA WriteKeeps == ASSUME LogInv, NEW t \in Threads, WriteLine(t) PROVE LogInv'
<1> DEFINE written == [files EXCEPT ![log_fp] = Append(files[log_fp], lines + 1)]
<1>1. /\ Dir(files) /\ DOMAIN files \subseteq Seconds /\ Names = DOMAIN files
      /\ Names' = DOMAIN files' /\ log_fp \in DOMAIN files /\ lines \in Nat
      /\ lines' = lines + 1 /\ lines' \in 0..MaxLines
  BY Limits DEF LogInv, LogTypes, WriteLine, Names
<1>2. Dir(written) /\ DOMAIN written = DOMAIN files
  BY <1>1, WrittenDir
<1>3. inStep => Newest(written, lines + 1, tidy)
  <2> SUFFICES ASSUME inStep PROVE Newest(written, lines + 1, tidy)
    OBVIOUS
  <2>1. Newest(files, lines, tidy) /\ \A name \in DOMAIN files : name <= log_fp
    BY <1>1 DEF LogInv, NewestOpen, WriteLine
  <2>2. DOMAIN files \subseteq Nat
    BY <1>1, NamesFinite
  <2> QED
    BY <1>1, <2>1, <2>2, WrittenNewest
<1>f. /\ pc \in [Threads -> PcStates] /\ "open" \in PcStates /\ "idle" \in PcStates
  BY DEF LogInv, LogTypes, PcStates
<1>g. UNCHANGED <<clock, tv, use_file, starts, inStep>>
  BY DEF WriteLine
<1>4. CASE /\ log_fp' = None /\ RotateLogs(written) /\ tm' = clock /\ lock' = t
           /\ pc' = [pc EXCEPT ![t] = "open"]
  <2>2. PICK gone \in SUBSET Oldest(DOMAIN written) :
           files' = Pruned(written, gone) /\ tidy' = (gone = Oldest(DOMAIN written))
    <3> HIDE DEF written
    <3> QED
      BY <1>1, <1>2, <1>4 DEF RotateLogs, Pruned
  <2> HIDE DEF written
  <2>3. /\ Dir(files') /\ Names' \subseteq Names /\ Names' \subseteq Seconds
        /\ tidy' => Cardinality(Names') < MaxFiles
        /\ Cardinality(Names') \in Nat /\ tidy' \in BOOLEAN
    <3>1. Dir(files') /\ Names' = Names \ gone /\ (tidy' => Cardinality(Names') < MaxFiles)
      <4>1. Dir(written) /\ DOMAIN written \subseteq Seconds
        BY <1>1, <1>2
      <4>2. /\ Dir(files') /\ DOMAIN files' = DOMAIN written \ gone
            /\ gone = Oldest(DOMAIN written) => Cardinality(DOMAIN files') < MaxFiles
        BY <2>2, <4>1, PrunedRoom
      <4> QED
        BY <1>1, <1>2, <2>2, <4>2
    <3>2. Names' \subseteq Names /\ Names' \subseteq Seconds /\ tidy' \in BOOLEAN
      BY <1>1, <2>2, <3>1
    <3> QED
      BY <3>1, <3>2, NamesFinite
  <2>4. pc' \in [Threads -> PcStates] /\ pc'[t] = "open"
    BY <1>4, <1>f
  <2>5. LogTypes'
    BY <1>1, <1>4, <1>g, <2>3, <2>4 DEF LogInv, LogTypes
  <2>6. RoomForFile'
    BY <1>4, <2>3, <2>4, Limits DEF RoomForFile
  <2>7. inStep => Newest(files', lines + 1, tidy')
    <3>1. DOMAIN written \subseteq Nat /\ IsFiniteSet(DOMAIN written) /\ lines + 1 \in Nat
      BY <1>1, <1>2, NamesFinite
    <3> QED
      BY <1>2, <1>3, <2>2, <3>1, PrunedNewest
  <2>8. NewestOpen'
    BY <1>1, <1>4, <1>g, <2>7 DEF NewestOpen
  <2> QED
    BY <2>5, <2>6, <2>8 DEF LogInv
<1>5. CASE files' = written /\ pc' = [pc EXCEPT ![t] = "idle"] /\ UNCHANGED <<log_fp, tm, lock, tidy>>
  <2>1. UNCHANGED <<log_fp, tm, lock, tidy>> /\ pc' = [pc EXCEPT ![t] = "idle"] /\ files' = written
    BY <1>5
  <2> HIDE DEF written
  <2>2. Dir(files') /\ Names' = Names
    BY <1>1, <1>2, <2>1
  <2>3. pc' \in [Threads -> PcStates] /\ pc'[t] = "idle"
    BY <2>1, <1>f
  <2>4. LogTypes'
    BY <1>1, <1>g, <2>1, <2>2, <2>3 DEF LogInv, LogTypes
  <2>5. RoomForFile'
    BY <2>1, <2>2, <2>3 DEF LogInv, RoomForFile
  <2>6. NewestOpen'
    BY <1>1, <1>3, <1>g, <2>1, <2>2 DEF LogInv, NewestOpen
  <2> QED
    BY <2>4, <2>5, <2>6 DEF LogInv
<1>6. \/ /\ log_fp' = None /\ RotateLogs(written) /\ tm' = clock /\ lock' = t
         /\ pc' = [pc EXCEPT ![t] = "open"]
      \/ files' = written /\ pc' = [pc EXCEPT ![t] = "idle"] /\ UNCHANGED <<log_fp, tm, lock, tidy>>
  BY Zenon DEF WriteLine
<1> QED
  BY <1>4, <1>5, <1>6

LEMMA OpenKeeps == ASSUME LogInv, NEW t \in Threads, Open(t) PROVE LogInv'
<1>1. /\ Dir(files) /\ DOMAIN files \subseteq Seconds /\ Names = DOMAIN files
      /\ Names' = DOMAIN files' /\ tm \in Seconds /\ lines \in Nat
      /\ tidy => Cardinality(DOMAIN files) < MaxFiles
  BY NoneApart DEF LogInv, LogTypes, RoomForFile, Open, Names
<1>2. /\ lock' = None /\ pc' = [pc EXCEPT ![t] = "idle"] /\ UNCHANGED <<clock, tm, tv, lines, starts, tidy>>
  BY DEF Open
<1>3. pc' \in [Threads -> PcStates] /\ pc'[t] = "idle"
  BY <1>2 DEF LogInv, LogTypes, PcStates
<1>4. CASE /\ files' = WithFile(files, tm) /\ log_fp' = tm
           /\ inStep' = (inStep /\ \A name \in Names : name <= tm) /\ UNCHANGED use_file
  <2>1. Dir(files') /\ Names' = Names \cup {tm} /\ (tidy => Cardinality(Names') <= MaxFiles)
    BY <1>1, <1>4, WithFileRoom
  <2>2. inStep' \in BOOLEAN
    BY <1>4
  <2>3. LogTypes'
    BY <1>1, <1>2, <1>3, <1>4, <2>1, <2>2 DEF LogInv, LogTypes
  <2>4. RoomForFile'
    BY <1>2, <1>3, <2>1 DEF RoomForFile
  <2>5. ASSUME inStep'
        PROVE  Newest(files', lines, tidy) /\ \A name \in Names' : name <= tm
    <3>1. Newest(files, lines, tidy) /\ \A name \in Names : name <= tm
      BY <1>4, <2>5 DEF LogInv, NewestOpen
    <3>2. tm <= tm
      BY <1>1, Limits DEF Seconds
    <3>3. DOMAIN files \subseteq Nat /\ IsFiniteSet(DOMAIN files)
      BY <1>1, NamesFinite
    <3>4. Newest(files', lines, tidy)
      BY <3>1, <3>3, <1>1, <1>4, OpenedNewest
    <3> QED
      BY <3>1, <3>2, <3>4, <2>1
  <2>6. NewestOpen'
    BY <1>2, <1>4, <2>5 DEF NewestOpen
  <2> QED
    BY <2>3, <2>4, <2>6 DEF LogInv
<1>5. CASE use_file' = FALSE /\ log_fp' = None /\ UNCHANGED <<files, inStep>>
  <2>1. Names' = Names
    BY <1>1, <1>5
  <2>2. LogTypes'
    BY <1>1, <1>2, <1>3, <1>5, <2>1 DEF LogInv, LogTypes
  <2>3. RoomForFile'
    BY <1>2, <1>3, <1>5, <2>1 DEF LogInv, RoomForFile
  <2>4. NewestOpen'
    BY <1>2, <1>5, <2>1 DEF LogInv, NewestOpen
  <2> QED
    BY <2>2, <2>3, <2>4 DEF LogInv
<1>6. \/ /\ files' = WithFile(files, tm) /\ log_fp' = tm
         /\ inStep' = (inStep /\ \A name \in Names : name <= tm) /\ UNCHANGED use_file
      \/ use_file' = FALSE /\ log_fp' = None /\ UNCHANGED <<files, inStep>>
  BY Zenon DEF Open, OpenNewLogFile, WithFile, Names
<1> QED
  BY <1>4, <1>5, <1>6

\* The steps that leave the directory and the open file alone.
LEMMA ThreadKeeps ==
    ASSUME LogInv, NEW t \in Threads,
           ThreadStarts(t) \/ GetTime(t) \/ LocalTime(t) \/ SkipFile(t)
    PROVE  LogInv'
<1>1. /\ UNCHANGED <<clock, lock, files, log_fp, use_file, lines, starts, tidy, inStep>>
      /\ pc \in [Threads -> PcStates] /\ tv \in [Threads -> Seconds] /\ clock \in Seconds
      /\ tm \in Seconds
  BY DEF LogInv, LogTypes, ThreadStarts, GetTime, LocalTime, SkipFile
<1>2. tm' \in Seconds /\ tv' \in [Threads -> Seconds]
  BY <1>1 DEF ThreadStarts, GetTime, LocalTime, SkipFile
<1>3. pc' \in [Threads -> PcStates] /\ pc'[t] # "down"
  <2>1. PICK st \in PcStates : st # "down" /\ pc' = [pc EXCEPT ![t] = st]
    BY DEF ThreadStarts, GetTime, LocalTime, SkipFile, PcStates
  <2> QED
    BY <2>1, <1>1
<1>4. Names' = Names
  BY <1>1 DEF Names
<1>5. LogTypes'
  BY <1>1, <1>2, <1>3, <1>4 DEF LogInv, LogTypes
<1>6. RoomForFile'
  BY <1>1, <1>3, <1>4 DEF LogInv, RoomForFile
<1>7. NewestOpen'
  BY <1>1, <1>4 DEF LogInv, NewestOpen
<1> QED
  BY <1>5, <1>6, <1>7 DEF LogInv

LEMMA BoardKeeps == ASSUME LogInv, Tick \/ SetClock \/ UNCHANGED vars PROVE LogInv'
<1>1. UNCHANGED <<tm, threadVars, files, log_fp, use_file, lines, starts, tidy, inStep>>
  BY DEF Tick, SetClock, vars, threadVars
<1>2. clock' \in Seconds
  BY Limits DEF LogInv, LogTypes, Tick, SetClock, vars, Seconds
<1>3. Names' = Names
  BY <1>1 DEF Names
<1>4. LogTypes'
  BY <1>1, <1>2, <1>3 DEF LogInv, LogTypes, threadVars
<1>5. RoomForFile'
  BY <1>1, <1>3 DEF LogInv, RoomForFile, threadVars
<1>6. NewestOpen'
  BY <1>1, <1>3 DEF LogInv, NewestOpen
<1> QED
  BY <1>4, <1>5, <1>6 DEF LogInv

LEMMA StopKeeps == ASSUME LogInv, Stop PROVE LogInv'
<1>1. /\ UNCHANGED <<clock, files, lines, starts, tidy, inStep>> /\ Names' = Names
      /\ lock' = None /\ log_fp' = None
  BY DEF Stop, Names
<1>2. 0 \in Seconds
  BY Limits DEF Seconds
<1>3. LogTypes'
  BY <1>1, <1>2 DEF LogInv, LogTypes, Stop, PcStates
<1>4. RoomForFile'
  BY <1>1 DEF LogInv, RoomForFile
<1>5. NewestOpen'
  BY <1>1 DEF LogInv, NewestOpen
<1> QED
  BY <1>3, <1>4, <1>5 DEF LogInv

LEMMA LogInductive == Spec => []LogInv
<1>1. LogInv /\ [Next]_vars => LogInv'
  BY LogInitKeeps, WriteKeeps, OpenKeeps, ThreadKeeps, BoardKeeps, StopKeeps DEF Next
<1> QED
  BY <1>1, InitLog, PTL DEF Spec

(***************************************************************************)
(* The log keeps to its types and its limit: no more than MAX_LOG_FILES    *)
(* files lie in the directory once a rotation could remove what it should  *)
(* (log.c, rotate_logs), whatever failed before, whatever the clock does   *)
(* and wherever the service stops.                                         *)
(***************************************************************************)
THEOREM LogTypeCorrect == Spec => []TypeOK
<1>1. LogInv => TypeOK
  BY DEF LogInv, LogTypes, RoomForFile, TypeOK
<1> QED
  BY <1>1, LogInductive, PTL

(***************************************************************************)
(* The last MAX_LOG_FILES - 1 files hold the newest lines without a gap,   *)
(* whatever a rotation failed to remove, and all files do after one that   *)
(* did not fail, as long as no file was named after an earlier time than   *)
(* the file before it: rotate_logs goes by the names alone.                *)
(***************************************************************************)
THEOREM LogKeepsNewest == Spec => []NewestKept
<1>1. \A n : n \in Kept <=> Has(files, n)
  BY DEF Kept, Has, Names
<1>2. LogInv => NewestKept
  <2> SUFFICES ASSUME LogInv, inStep, NEW a \in Names, tidy \/ a \in Recent,
                      NEW i \in 1..Len(files[a]), NEW m \in files[a][i]..lines
               PROVE  m \in Kept
    BY DEF NewestKept
  <2>1. Newest(files, lines, tidy)
    BY DEF LogInv, NewestOpen
  <2>2. Recent = Late(DOMAIN files)
    BY DEF Recent, Late, After, Names
  <2>3. Has(files, m)
    BY <2>1, <2>2 DEF Newest, Names
  <2> QED
    BY <1>1, <2>3
<1> QED
  BY <1>2, LogInductive, PTL

(***************************************************************************)
(* A rotation that removes files stops one short of the limit: it never    *)
(* removes more than the file to come needs.                               *)
(***************************************************************************)
THEOREM LogRotationSpares == Spec => RotationSpares
<1>1. ASSUME LogInv, [Next]_vars, Names \ Names' # {}
      PROVE  Cardinality(Names') >= MaxFiles - 1
  <2>1. /\ Dir(files) /\ DOMAIN files \subseteq Seconds /\ Names = DOMAIN files
        /\ Names' = DOMAIN files' /\ lines \in Nat
    BY <1>1 DEF LogInv, LogTypes, Names
  <2>2. \E gone \in SUBSET Oldest(DOMAIN files) : DOMAIN files' = DOMAIN files \ gone
    <3>1. CASE LogInit
      BY <3>1 DEF LogInit, RotateLogs, Names
    <3>2. CASE \E t \in Threads : WriteLine(t)
      <4> DEFINE written == [files EXCEPT ![log_fp] = Append(files[log_fp], lines + 1)]
      <4>1. RotateLogs(written) \/ files' = written
        BY <3>2, Zenon DEF WriteLine
      <4>2. CASE RotateLogs(written)
        <5> HIDE DEF written
        <5> QED
          BY <4>2 DEF RotateLogs, Names
      <4>3. CASE files' = written
        <5>1. DOMAIN files' = DOMAIN files
          BY <4>3
        <5> QED
          BY <5>1, <1>1, <2>1
      <4> QED
        BY <4>1, <4>2, <4>3
    <3>3. CASE \E t \in Threads : Open(t)
      <4>1. DOMAIN files \subseteq DOMAIN files'
        BY <3>3 DEF Open, OpenNewLogFile, Names
      <4> QED
        BY <4>1, <1>1, <2>1
    <3>4. CASE UNCHANGED files
      BY <3>4, <1>1, <2>1
    <3>5. \/ LogInit \/ (\E t \in Threads : WriteLine(t)) \/ (\E t \in Threads : Open(t))
          \/ UNCHANGED files
      BY <1>1 DEF Next, Stop, Tick, SetClock, ThreadStarts, GetTime, LocalTime, SkipFile, vars
    <3> QED
      BY <3>1, <3>2, <3>3, <3>4, <3>5
  <2>3. IsFiniteSet(DOMAIN files) /\ DOMAIN files \subseteq Nat /\ Cardinality(DOMAIN files) \in Nat
    BY <2>1, NamesFinite
  <2>4. Oldest(DOMAIN files) # {}
    BY <1>1, <2>1, <2>2
  <2>5. Cardinality(DOMAIN files \ Oldest(DOMAIN files)) = MaxFiles - 1
    <3>1. ~(Cardinality(DOMAIN files) < MaxFiles)
      BY <2>3, <2>4, OldestCount
    <3>2. Cardinality(DOMAIN files) >= MaxFiles
      BY <3>1, <2>3, Limits
    <3> QED
      BY <2>3, <3>2, OldestCount
  \* What could not be removed is left as well.
  <2>6. DOMAIN files \ Oldest(DOMAIN files) \in SUBSET (DOMAIN files')
    BY <2>2
  <2>7. IsFiniteSet(DOMAIN files') /\ Cardinality(DOMAIN files') \in Nat
    <3>1. DOMAIN files' \in SUBSET (DOMAIN files)
      BY <2>2
    <3> QED
      BY <3>1, <2>3, FS_Subset, FS_CardinalityType
  <2>8. Cardinality(DOMAIN files \ Oldest(DOMAIN files)) <= Cardinality(DOMAIN files')
    BY <2>6, <2>7, FS_Subset
  <2> QED
    BY <2>1, <2>5, <2>7, <2>8, Limits
<1>2. LogInv /\ [Next]_vars =>
        [Names' # Names /\ Names \ Names' # {} => Cardinality(Names') >= MaxFiles - 1]_vars
  BY <1>1
<1> QED
  BY <1>2, LogInductive, PTL DEF Spec, RotationSpares
=============================================================================
