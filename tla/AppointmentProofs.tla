-------------------------- MODULE AppointmentProofs --------------------------
(***************************************************************************)
(* Theorems about Appointments and AppointmentMirror: types for any number *)
(* of goroutines; for one at a time, what the rows of a project and the    *)
(* columns of its Lark record promise each other.                          *)
(***************************************************************************)
EXTENDS AppointmentMirror, FunctionTheorems, FiniteSetTheorems, TLAPS

-----------------------------------------------------------------------------
\* A finite set with a strict total order R (a set of pairs) can be listed in it.
LEMMA Ranking ==
  ASSUME NEW S, IsFiniteSet(S), NEW R,
         \A i \in S : <<i, i>> \notin R,
         \A i, j, k \in S : <<i, j>> \in R /\ <<j, k>> \in R => <<i, k>> \in R,
         \A i, j \in S : i # j => <<i, j>> \in R \/ <<j, i>> \in R
  PROVE  \E f \in Bijection(1..Cardinality(S), S) :
           \A m, n \in 1..Cardinality(S) : m < n => <<f[m], f[n]>> \in R
<1> DEFINE N == Cardinality(S)
           UpTo(i) == {j \in S : <<j, i>> \in R \/ j = i}
           rank == [i \in S |-> Cardinality(UpTo(i))]
<1>1. N \in Nat
  BY FS_CardinalityType
<1>2. ASSUME NEW i \in S
      PROVE  IsFiniteSet(UpTo(i)) /\ rank[i] = Cardinality(UpTo(i)) /\ rank[i] \in 1..N
  <2>1. UpTo(i) \in SUBSET S
    OBVIOUS
  <2>2. IsFiniteSet(UpTo(i)) /\ Cardinality(UpTo(i)) <= N
    BY <2>1, FS_Subset
  <2>3. i \in UpTo(i)
    OBVIOUS
  <2>4. Cardinality(UpTo(i)) \in Nat /\ Cardinality(UpTo(i)) # 0
    BY <2>2, <2>3, FS_CardinalityType, FS_EmptySet
  <2> QED
    BY <1>1, <2>2, <2>4
<1>3. ASSUME NEW i \in S, NEW j \in S, <<i, j>> \in R
      PROVE  rank[i] < rank[j]
  <2>1. UpTo(i) \in SUBSET UpTo(j)
    BY <1>3
  <2>2. j \in UpTo(j) /\ j \notin UpTo(i)
    BY <1>3
  <2>3. Cardinality(UpTo(i)) <= Cardinality(UpTo(j)) /\ Cardinality(UpTo(i)) # Cardinality(UpTo(j))
    BY <1>2, <2>1, <2>2, FS_Subset
  <2> QED
    BY <1>2, <2>3
<1>4. rank \in Injection(S, 1..N)
  <2>1. rank \in [S -> 1..N]
    BY <1>2
  <2>2. ASSUME NEW i \in S, NEW j \in S, rank[i] = rank[j]
        PROVE  i = j
    <3> HIDE DEF rank
    <3>1. rank[i] \in 1..N /\ rank[j] \in 1..N
      BY <1>2
    <3>2. <<i, j>> \notin R
      BY <1>1, <1>3, <2>2, <3>1
    <3>3. <<j, i>> \notin R
      BY <1>1, <1>3, <2>2, <3>1
    <3> QED
      BY <3>2, <3>3
  <2> HIDE DEF rank, N
  <2> QED
    BY <2>1, <2>2, Fun_IsInj
<1>5. IsFiniteSet(1..N) /\ Cardinality(1..N) = N
  BY <1>1, FS_Interval
<1>6. rank \in Bijection(S, 1..N)
  <2>1. rank \in Surjection(S, 1..N)
    BY <1>4, <1>5, FS_Injection
  <2> QED
    BY <1>4, <2>1 DEF Bijection
<1>7. PICK f \in Bijection(1..N, S) : \A m \in 1..N : rank[f[m]] = m
  <2> HIDE DEF rank, N
  <2>1. Inverse(rank, S, 1..N) \in Bijection(1..N, S)
    BY <1>6, Fun_BijInverse
  <2>2. \A i \in S : Inverse(rank, S, 1..N)[rank[i]] = i
    BY <1>6, Fun_BijInverse
  <2>3. \A m \in 1..N : \E i \in S : rank[i] = m
    BY <1>6 DEF Bijection, Surjection
  <2>4. \A m \in 1..N : rank[Inverse(rank, S, 1..N)[m]] = m
    BY <2>2, <2>3
  <2> QED
    BY <2>1, <2>4
<1>8. ASSUME NEW m \in 1..N, NEW n \in 1..N, m < n
      PROVE  <<f[m], f[n]>> \in R
  <2>1. f[m] \in S /\ f[n] \in S /\ rank[f[m]] = m /\ rank[f[n]] = n
    BY <1>7 DEF Bijection, Injection
  <2>2. ~(n < m) /\ m # n
    BY <1>1, <1>8
  <2> HIDE DEF rank
  <2>3. f[m] # f[n]
    BY <2>1, <2>2
  <2>4. <<f[n], f[m]>> \notin R
    BY <1>3, <2>1, <2>2
  <2> QED
    BY <2>1, <2>3, <2>4
<1> QED
  BY <1>7, <1>8

\* InOrder lists each element of a finite set once, by its key.
LEMMA InOrderLists ==
  ASSUME NEW S, IsFiniteSet(S), NEW key, \A i \in S : key[i] \in Nat
  PROVE  /\ InOrder(S, key) \in Bijection(1..Cardinality(S), S)
         /\ \A m, n \in 1..Cardinality(S) :
              m < n => key[InOrder(S, key)[m]] <= key[InOrder(S, key)[n]]
<1> DEFINE N == Cardinality(S)
           Sorted(f) == \A m, n \in 1..N : m < n => f[m] # f[n] /\ key[f[m]] <= key[f[n]]
<1>1. N \in Nat /\ ExistsBijection(1..N, S)
  BY FS_CardinalityType
<1>2. PICK b \in Bijection(S, 1..N) : TRUE
  BY <1>1, Fun_ExistsBijSymmetric DEF ExistsBijection
<1>3. b \in [S -> 1..N] /\ \A i, j \in S : b[i] = b[j] => i = j
  <2> HIDE DEF N
  <2>1. b \in Injection(S, 1..N)
    BY <1>2 DEF Bijection
  <2> QED
    BY <2>1 DEF Injection, IsInjective
<1> DEFINE R == {p \in S \X S : \/ key[p[1]] < key[p[2]]
                                \/ key[p[1]] = key[p[2]] /\ b[p[1]] < b[p[2]]}
<1>4. \A i, j \in S : <<i, j>> \in R <=> \/ key[i] < key[j]
                                         \/ key[i] = key[j] /\ b[i] < b[j]
  OBVIOUS
<1>5. \A i \in S : b[i] \in Int
  BY <1>1, <1>3
<1> HIDE DEF R
<1>6. \A i \in S : <<i, i>> \notin R
  BY <1>4, <1>5
<1>7. \A i, j, k \in S : <<i, j>> \in R /\ <<j, k>> \in R => <<i, k>> \in R
  BY <1>4, <1>5
<1>8. \A i, j \in S : i # j => <<i, j>> \in R \/ <<j, i>> \in R
  BY <1>3, <1>4, <1>5
<1>9. PICK f \in Bijection(1..N, S) : \A m, n \in 1..N : m < n => <<f[m], f[n]>> \in R
  BY <1>6, <1>7, <1>8, Ranking
<1>10. f \in [1..N -> S] /\ \A m, n \in 1..N : f[m] = f[n] => m = n
  <2> HIDE DEF N, R
  <2>1. f \in Injection(1..N, S)
    BY <1>9 DEF Bijection
  <2> QED
    BY <2>1 DEF Injection, IsInjective
<1>11. Sorted(f)
  <2> SUFFICES ASSUME NEW m \in 1..N, NEW n \in 1..N, m < n
               PROVE  f[m] # f[n] /\ key[f[m]] <= key[f[n]]
    OBVIOUS
  <2>1. f[m] \in S /\ f[n] \in S /\ <<f[m], f[n]>> \in R
    BY <1>9, <1>10
  <2>2. f[m] # f[n]
    BY <1>1, <1>10
  <2> QED
    BY <1>4, <2>1, <2>2
<1> DEFINE g == InOrder(S, key)
<1>12. g \in [1..N -> S] /\ Sorted(g)
  BY <1>10, <1>11 DEF InOrder
<1> HIDE DEF g
<1>13. \A m, n \in 1..N : g[m] = g[n] => m = n
  BY <1>1, <1>12
<1>14. g \in Injection(1..N, S)
  BY <1>12, <1>13, Fun_IsInj
<1>15. IsFiniteSet(1..N) /\ Cardinality(1..N) = N
  BY <1>1, FS_Interval
<1>16. g \in Surjection(1..N, S)
  BY <1>14, <1>15, FS_Injection
<1>17. g \in Bijection(1..N, S)
  BY <1>14, <1>16 DEF Bijection
<1> QED
  BY <1>12, <1>17 DEF g

\* A finite set of numbers has a largest one, unless it is empty.
LEMMA HasLargest ==
  ASSUME NEW S, S \subseteq Nat, IsFiniteSet(S), S # {}
  PROVE  \E t \in S : \A u \in S : u <= t
<1> DEFINE N == Cardinality(S)
           key == [i \in S |-> i]
           f == InOrder(S, key)
<1>1. N \in Nat /\ N # 0
  BY FS_CardinalityType, FS_EmptySet
<1>2. /\ f \in Bijection(1..N, S)
      /\ \A m, n \in 1..N : m < n => key[f[m]] <= key[f[n]]
  <2>1. \A i \in S : key[i] \in Nat
    OBVIOUS
  <2> HIDE DEF key
  <2> QED
    BY <2>1, InOrderLists
<1> HIDE DEF f
<1>3. f \in [1..N -> S] /\ \A t \in S : \E m \in 1..N : f[m] = t
  BY <1>2 DEF Bijection, Surjection
<1>4. \A m, n \in 1..N : m < n => f[m] <= f[n]
  BY <1>2, <1>3
<1>5. N \in 1..N /\ f[N] \in S
  BY <1>1, <1>3
<1>6. ASSUME NEW u \in S
      PROVE  u <= f[N]
  <2>1. PICK m \in 1..N : f[m] = u
    BY <1>3
  <2>2. CASE m = N
    BY <1>5, <2>1, <2>2
  <2>3. CASE m # N
    BY <1>1, <1>4, <1>5, <2>1, <2>3
  <2> QED
    BY <2>2, <2>3
<1> QED
  BY <1>5, <1>6

\* How often f has the value t on S.
Count(f, S, t) == Cardinality({s \in S : f[s] = t})

\* Two functions that agree along a bijection take each value equally often.
LEMMA SameCount ==
  ASSUME NEW S, IsFiniteSet(S), NEW T, NEW f \in Bijection(S, T),
         NEW u, NEW v, \A s \in S : u[s] = v[f[s]], NEW t
  PROVE  Count(u, S, t) = Count(v, T, t)
<1> DEFINE A == {s \in S : u[s] = t}
           B == {x \in T : v[x] = t}
           g == [s \in A |-> f[s]]
<1>1. f \in Injection(S, T) /\ f \in Surjection(S, T)
  BY DEF Bijection
<1>2. f \in [S -> T]
  BY <1>1 DEF Surjection
<1>3. \A a, b \in S : f[a] = f[b] => a = b
  BY <1>1, <1>2 DEF Injection, IsInjective
<1>4. \A x \in T : \E s \in S : f[s] = x
  BY <1>1 DEF Surjection
<1>5. g \in [A -> B]
  BY <1>2
<1>6. \A a, b \in A : g[a] = g[b] => a = b
  BY <1>3
<1>7. \A x \in B : \E s \in A : g[s] = x
  BY <1>4
<1>8. IsFiniteSet(A)
  BY FS_Subset
<1> HIDE DEF A, B, g
<1>9. g \in Bijection(A, B)
  BY <1>5, <1>6, <1>7, Fun_IsBij
<1>10. ExistsBijection(A, B)
  BY <1>9 DEF ExistsBijection
<1>11. Cardinality(A) = Cardinality(B)
  BY <1>8, <1>10, FS_Bijection
<1> QED
  BY <1>11 DEF A, B, Count

\* So the list of a set's keys takes each value as often as the keys do.
LEMMA ListedCount ==
  ASSUME NEW S, IsFiniteSet(S), NEW key, \A i \in S : key[i] \in Nat, NEW t
  PROVE  Count([n \in 1..Cardinality(S) |-> key[InOrder(S, key)[n]]], 1..Cardinality(S), t)
           = Count(key, S, t)
<1> DEFINE A == 1..Cardinality(S)
           f == InOrder(S, key)
           L == [n \in A |-> key[f[n]]]
<1>1. IsFiniteSet(A)
  BY FS_CardinalityType, FS_Interval
<1>2. f \in Bijection(A, S)
  BY InOrderLists
<1>3. \A n \in A : L[n] = key[f[n]]
  OBVIOUS
<1> HIDE DEF A, f, L
<1>4. Count(L, A, t) = Count(key, S, t)
  BY <1>1, <1>2, <1>3, SameCount
<1> QED
  BY <1>4 DEF A, f, L

LEMMA SeqOf ==
  ASSUME NEW S, NEW k \in Nat, NEW s \in [1..k -> S]
  PROVE  s \in Seq(S) /\ Len(s) = k
  OBVIOUS

LEMMA HeadAndTail ==
  ASSUME NEW S, NEW s \in Seq(S), s # <<>>
  PROVE  /\ Head(s) \in S /\ Tail(s) \in Seq(S) /\ Len(Tail(s)) = Len(s) - 1
         /\ Head(s) = s[1] /\ 1 \in DOMAIN s
         /\ \A n \in DOMAIN s : n # 1 => n - 1 \in DOMAIN Tail(s) /\ Tail(s)[n - 1] = s[n]
<1>1. /\ Head(s) \in S /\ Tail(s) \in Seq(S) /\ Len(Tail(s)) = Len(s) - 1
      /\ Head(s) = s[1] /\ Len(s) \in Nat /\ Len(s) >= 1
  OBVIOUS
<1>2. \A n \in 1..Len(Tail(s)) : Tail(s)[n] = s[n + 1]
  OBVIOUS
<1>3. DOMAIN s = 1..Len(s) /\ DOMAIN Tail(s) = 1..Len(Tail(s))
  BY <1>1
<1>4. ASSUME NEW n \in DOMAIN s, n # 1
      PROVE  n - 1 \in DOMAIN Tail(s) /\ Tail(s)[n - 1] = s[n]
  <2>1. n \in Int /\ n - 1 \in 1..Len(Tail(s))
    BY <1>1, <1>3, <1>4
  <2>2. Tail(s)[n - 1] = s[(n - 1) + 1]
    BY <1>2, <2>1
  <2>3. (n - 1) + 1 = n
    BY <2>1
  <2> QED
    BY <1>3, <2>1, <2>2, <2>3
<1> QED
  BY <1>1, <1>3, <1>4

-----------------------------------------------------------------------------
\* Filled keeps each date of the slots, as often as it is there, and nothing else.
LEMMA FilledKeeps ==
  ASSUME NEW k \in Nat, NEW slots \in [1..k -> Time \cup {NoDate}]
  PROVE  /\ Filled(slots) \in Seq(Time)
         /\ Len(Filled(slots)) = Cardinality({n \in 1..k : HasTime(slots[n])})
         /\ Len(Filled(slots)) <= k
         /\ \A n \in 1..k : HasTime(slots[n]) =>
              \E m \in 1..Len(Filled(slots)) : Filled(slots)[m] = slots[n]
         /\ \A t \in Time : Times(Filled(slots), t) = Times(slots, t)
<1> DEFINE S == {n \in DOMAIN slots : HasTime(slots[n])}
           N == Cardinality(S)
           key == [n \in S |-> n]
           f == InOrder(S, key)
           F == [m \in 1..N |-> slots[f[m]]]
<1>1. Filled(slots) = F
  BY DEF Filled
<1>2. S \in SUBSET (1..k) /\ \A n \in S : slots[n] \in Time
  BY DEF HasTime
<1>3. IsFiniteSet(S) /\ N \in Nat /\ N <= k
  <2>1. IsFiniteSet(1..k) /\ Cardinality(1..k) = k
    BY FS_Interval
  <2>2. IsFiniteSet(S) /\ N <= k
    BY <1>2, <2>1, FS_Subset
  <2> QED
    BY <2>2, FS_CardinalityType
<1>4. f \in Bijection(1..N, S)
  <2>1. \A n \in S : key[n] \in Nat
    BY <1>2
  <2> HIDE DEF key, S
  <2> QED
    BY <1>3, <2>1, InOrderLists
<1> HIDE DEF f
<1>5. f \in [1..N -> S] /\ \A n \in S : \E m \in 1..N : f[m] = n
  <2> HIDE DEF N, S
  <2> QED
    BY <1>4 DEF Bijection, Surjection
<1>6. F \in [1..N -> Time]
  BY <1>2, <1>5
<1>7. F \in Seq(Time) /\ Len(F) = N
  <2> HIDE DEF F, N
  <2> QED
    BY <1>3, <1>6, SeqOf
<1>8. ASSUME NEW n \in 1..k, HasTime(slots[n])
      PROVE  \E m \in 1..Len(F) : F[m] = slots[n]
  <2>1. n \in S
    BY <1>8
  <2>2. PICK m \in 1..N : f[m] = n
    BY <1>5, <2>1
  <2>3. F[m] = slots[n]
    BY <2>2
  <2> QED
    BY <1>7, <2>3
<1>9. ASSUME NEW t \in Time
      PROVE  Times(F, t) = Times(slots, t)
  <2>1. IsFiniteSet(1..N)
    BY <1>3, FS_Interval
  <2>2. \A m \in 1..N : F[m] = slots[f[m]]
    OBVIOUS
  <2>3. Cardinality({m \in 1..N : F[m] = t}) = Cardinality({n \in S : slots[n] = t})
    <3> DEFINE A == 1..N
               B == S
    <3>1. IsFiniteSet(A) /\ f \in Bijection(A, B) /\ \A m \in A : F[m] = slots[f[m]]
      BY <1>4, <2>1, <2>2
    <3> HIDE DEF A, B, F
    <3>2. Count(F, A, t) = Count(slots, B, t)
      BY <3>1, SameCount
    <3> QED
      BY <3>2 DEF A, B, Count
  <2>4. t # NoDate
    BY TimeAssumption
  <2>5. {n \in S : slots[n] = t} = {n \in DOMAIN slots : slots[n] = t}
    BY <2>4 DEF HasTime
  <2>6. DOMAIN F = 1..N
    OBVIOUS
  <2> HIDE DEF F, N, S
  <2> QED
    BY <2>3, <2>5, <2>6 DEF Times
<1>10. S = {n \in 1..k : HasTime(slots[n])}
  OBVIOUS
<1> HIDE DEF F
<1> QED
  BY <1>1, <1>3, <1>7, <1>8, <1>9, <1>10

LEMMA MergeSlots ==
  ASSUME NEW existing \in Seq(Time), NEW edit \in Edit
  PROVE  [n \in 1..maxAppointmentsPerType |->
            IF Touched(edit[n]) /\ HasTime(edit[n].date) THEN edit[n].date
            ELSE Base(existing, n)]
           \in [1..maxAppointmentsPerType -> Time \cup {NoDate}]
<1> SUFFICES ASSUME NEW n \in 1..maxAppointmentsPerType
             PROVE  edit[n].date \in Time \cup {NoDate} /\ Base(existing, n) \in Time \cup {NoDate}
  OBVIOUS
<1>1. edit[n] \in Slot
  BY DEF Edit
<1>2. edit[n].date \in Time \cup {NoDate}
  BY <1>1 DEF Slot
<1>3. CASE n <= Len(existing)
  BY <1>2, <1>3, LimitAssumption DEF Base
<1>4. CASE ~(n <= Len(existing))
  BY <1>2, <1>4 DEF Base
<1> QED
  BY <1>3, <1>4

\* The merge leaves at most a date per column set, and each date that its column
\* set did not change.
LEMMA MergeKeeps ==
  ASSUME NEW existing \in Seq(Time), NEW edit \in Edit
  PROVE  /\ Merge(existing, edit) \in Seq(Time)
         /\ Len(Merge(existing, edit)) <= maxAppointmentsPerType
         /\ \A n \in 1..maxAppointmentsPerType :
              n <= Len(existing) /\ ~Touched(edit[n]) =>
                \E m \in 1..Len(Merge(existing, edit)) : Merge(existing, edit)[m] = existing[n]
<1> DEFINE slots == [n \in 1..maxAppointmentsPerType |->
                       IF Touched(edit[n]) /\ HasTime(edit[n].date) THEN edit[n].date
                       ELSE Base(existing, n)]
<1>1. slots \in [1..maxAppointmentsPerType -> Time \cup {NoDate}]
  BY MergeSlots
<1>2. Merge(existing, edit) = Filled(slots)
  BY DEF Merge
<1>3. ASSUME NEW n \in 1..maxAppointmentsPerType, n <= Len(existing), ~Touched(edit[n])
      PROVE  slots[n] = existing[n] /\ HasTime(slots[n])
  <2>1. slots[n] = existing[n]
    BY <1>3 DEF Base
  <2>2. existing[n] \in Time
    BY <1>3, LimitAssumption
  <2> QED
    BY <2>1, <2>2, TimeAssumption DEF HasTime
<1> HIDE DEF slots
<1>4. maxAppointmentsPerType \in Nat
  BY LimitAssumption
<1>5. /\ Filled(slots) \in Seq(Time) /\ Len(Filled(slots)) <= maxAppointmentsPerType
      /\ \A n \in 1..maxAppointmentsPerType : HasTime(slots[n]) =>
           \E m \in 1..Len(Filled(slots)) : Filled(slots)[m] = slots[n]
  BY <1>1, <1>4, FilledKeeps
<1> QED
  BY <1>2, <1>3, <1>5

-----------------------------------------------------------------------------
RowsOK == date \in [Id -> Time \cup {NoDate}] /\ IsFiniteSet(Rows)

\* An insertion adds one row, a deletion takes one away.
LEMMA InsertRow ==
  ASSUME RowsOK, NEW i \in Id \ Rows, NEW t \in Time, date' = [date EXCEPT ![i] = t]
  PROVE  /\ RowsOK' /\ Rows' = Rows \cup {i} /\ Dates' = Dates \cup {t}
         /\ Cardinality(Rows') = Cardinality(Rows) + 1
<1>1. date' \in [Id -> Time \cup {NoDate}] /\ \A j \in Id : date'[j] = IF j = i THEN t ELSE date[j]
  BY DEF RowsOK
<1>2. t # NoDate
  BY TimeAssumption
<1>3. Rows' = Rows \cup {i}
  BY <1>1, <1>2 DEF Rows
<1>4. Dates' = Dates \cup {t}
  BY <1>1, <1>3 DEF Dates, Rows
<1>5. IsFiniteSet(Rows') /\ Cardinality(Rows') = Cardinality(Rows) + 1
  BY <1>3, FS_AddElement DEF RowsOK
<1> QED
  BY <1>1, <1>3, <1>4, <1>5 DEF RowsOK

LEMMA DeleteRow ==
  ASSUME RowsOK, NEW i \in Rows, date' = [date EXCEPT ![i] = NoDate]
  PROVE  /\ RowsOK' /\ Rows' = Rows \ {i}
         /\ Cardinality(Rows') = Cardinality(Rows) - 1
<1>1. i \in Id /\ date' \in [Id -> Time \cup {NoDate}]
      /\ \A j \in Id : date'[j] = IF j = i THEN NoDate ELSE date[j]
  BY DEF RowsOK, Rows
<1>2. Rows' = Rows \ {i}
  BY <1>1 DEF Rows
<1>3. IsFiniteSet(Rows') /\ Cardinality(Rows') = Cardinality(Rows) - 1
  BY <1>2, FS_RemoveElement DEF RowsOK
<1> QED
  BY <1>1, <1>2, <1>3 DEF RowsOK

LEMMA DeleteRows ==
  ASSUME date' = [i \in Id |-> NoDate]
  PROVE  RowsOK' /\ Rows' = {} /\ Cardinality(Rows') = 0
<1>1. Rows' = {}
  BY DEF Rows
<1> QED
  BY <1>1, FS_EmptySet DEF RowsOK

LEMMA SameRows ==
  ASSUME RowsOK, date' = date
  PROVE  RowsOK' /\ Rows' = Rows /\ Dates' = Dates /\ Latest' = Latest
  BY DEF RowsOK, Rows, Dates, Latest

\* What the program reads of the rows: the latest, and all of them by date.
LEMMA LatestIsLatest ==
  ASSUME RowsOK
  PROVE  /\ Latest \in Time \cup {NoDate}
         /\ Rows # {} => Latest \in Dates /\ \A t \in Dates : t <= Latest
<1>1. CASE Rows = {}
  BY <1>1 DEF Latest
<1>2. CASE Rows # {}
  <2> DEFINE f == [i \in Rows |-> date[i]]
  <2>1. f \in Surjection(Rows, Dates)
    BY DEF Surjection, Dates
  <2>2. IsFiniteSet(Dates)
    <3> HIDE DEF f
    <3> QED
      BY <2>1, FS_Surjection DEF RowsOK
  <2>3. Dates \subseteq Time /\ Dates \subseteq Nat /\ Dates # {}
    <3>1. Dates # {}
      BY <1>2 DEF Dates
    <3>2. \A i \in Rows : date[i] \in Time
      BY DEF Rows, RowsOK
    <3>3. Dates \subseteq Time
      BY <3>2 DEF Dates
    <3> QED
      BY <3>1, <3>3, TimeAssumption
  <2>4. \E t \in Dates : \A u \in Dates : u <= t
    BY <2>2, <2>3, HasLargest
  <2>5. Latest = CHOOSE t \in Dates : \A u \in Dates : u <= t
    BY <1>2 DEF Latest
  <2>6. Latest \in Dates /\ \A u \in Dates : u <= Latest
    BY <2>4, <2>5
  <2> QED
    BY <2>3, <2>6
<1> QED
  BY <1>1, <1>2

LEMMA LoadedIsRows ==
  ASSUME RowsOK, legacy \in Time \cup {NoDate}
  PROVE  /\ Loaded \in Seq(Time)
         /\ Rows # {} => /\ Len(Loaded) = Cardinality(Rows)
                         /\ \A n \in 1..Len(Loaded) : Loaded[n] \in Dates
                         /\ \A t : Times(Loaded, t) = Count(date, Rows, t)
         /\ Rows = {} /\ legacy # NoDate => Loaded = <<legacy>>
         /\ Rows = {} /\ legacy = NoDate => Loaded = <<>>
<1>1. CASE Rows = {}
  <2>1. Loaded = IF legacy # NoDate THEN <<legacy>> ELSE <<>>
    BY <1>1 DEF Loaded
  <2> QED
    BY <1>1, <2>1
<1>2. CASE Rows # {}
  <2> DEFINE N == Cardinality(Rows)
             f == InOrder(Rows, date)
             L == [n \in 1..N |-> date[f[n]]]
  <2>1. Loaded = L
    BY <1>2 DEF Loaded
  <2>2. \A i \in Rows : date[i] \in Time /\ date[i] \in Nat
    BY TimeAssumption DEF RowsOK, Rows
  <2>3. IsFiniteSet(Rows) /\ N \in Nat
    BY FS_CardinalityType DEF RowsOK
  <2>4. f \in Bijection(1..N, Rows)
    BY <2>2, <2>3, InOrderLists
  <2> HIDE DEF f
  <2>5. f \in [1..N -> Rows]
    <3> HIDE DEF N
    <3> QED
      BY <2>4 DEF Bijection, Surjection
  <2>6. L \in [1..N -> Time]
    BY <2>2, <2>5
  <2>7. L \in Seq(Time) /\ Len(L) = N
    <3> HIDE DEF L, N
    <3> QED
      BY <2>3, <2>6, SeqOf
  <2>8. \A n \in 1..N : L[n] \in Dates
    BY <2>5 DEF Dates
  <2>9. ASSUME NEW t
        PROVE  Times(L, t) = Count(date, Rows, t)
    <3>1. L = [n \in 1..N |-> date[InOrder(Rows, date)[n]]]
      BY DEF f
    <3>2. Count(L, 1..N, t) = Count(date, Rows, t)
      BY <2>2, <2>3, <3>1, ListedCount
    <3>3. DOMAIN L = 1..N
      OBVIOUS
    <3> HIDE DEF L, N
    <3> QED
      BY <3>2, <3>3 DEF Times, Count
  <2> HIDE DEF L
  <2> QED
    BY <1>2, <2>1, <2>7, <2>8, <2>9
<1> QED
  BY <1>1, <1>2

LEMMA FirstOfList ==
  ASSUME NEW l \in Seq(Time), NEW k \in 0..Len(l)
  PROVE  /\ FirstOf(l, k) \in Seq(Time) /\ Len(FirstOf(l, k)) = k
         /\ \A n \in 1..k : FirstOf(l, k)[n] = l[n]
<1>1. k \in Nat /\ \A n \in 1..k : n \in 1..Len(l)
  OBVIOUS
<1>2. FirstOf(l, k) \in [1..k -> Time]
  BY <1>1 DEF FirstOf
<1> QED
  BY <1>1, <1>2, SeqOf DEF FirstOf

\* What a failed load returns is a list of dates, too.
LEMMA CutShortTyped ==
  ASSUME RowsOK, legacy \in Time \cup {NoDate}
  PROVE  \A l \in CutShort : l \in Seq(Time) /\ Len(l) <= Len(Loaded)
<1>1. Loaded \in Seq(Time)
  BY LoadedIsRows
<1>2. \A k \in 0..(Len(Loaded) - 1) : k \in 0..Len(Loaded)
  BY <1>1
<1>3. ASSUME NEW k \in 0..(Len(Loaded) - 1)
      PROVE  FirstOf(Loaded, k) \in Seq(Time) /\ Len(FirstOf(Loaded, k)) <= Len(Loaded)
  <2>1. FirstOf(Loaded, k) \in Seq(Time) /\ Len(FirstOf(Loaded, k)) = k
    BY <1>1, <1>2, FirstOfList
  <2>2. k <= Len(Loaded)
    BY <1>1
  <2> QED
    BY <2>1, <2>2
<1>4. <<>> \in Seq(Time) /\ Len(<<>>) <= Len(Loaded)
  BY <1>1
<1>5. ASSUME legacy # NoDate
      PROVE  <<legacy>> \in Seq(Time) /\ Len(<<legacy>>) <= Len(Loaded)
  <2>1. <<legacy>> \in Seq(Time) /\ Len(<<legacy>>) = 1
    BY <1>5
  <2>2. CASE Rows = {}
    <3>1. Loaded = <<legacy>>
      BY <1>5, <2>2, LoadedIsRows
    <3> QED
      BY <2>1, <3>1
  <2>3. CASE Rows # {}
    <3>1. Cardinality(Rows) \in Nat /\ Cardinality(Rows) # 0
      BY <2>3, FS_CardinalityType, FS_EmptySet DEF RowsOK
    <3> QED
      BY <2>1, <2>3, <3>1, LoadedIsRows
  <2> QED
    BY <2>2, <2>3
<1> QED
  BY <1>3, <1>4, <1>5 DEF CutShort

-----------------------------------------------------------------------------
\* A step of an appointment request or of an inbound edit, whichever module takes it.
Act(w) ==
  \/ CreateProjectAppointment(w) \/ InsertAppointment(w)
  \/ DeleteProjectAppointment(w) \/ DeleteAppointmentRow(w)
  \/ UpdateProjectStatus(w) \/ MoveToPresent(w) \/ InsertDated(w)
  \/ SyncRead(w) \/ SyncWrite(w)
  \/ \E edit \in Edit : ApplyLarkInboundAppointments(w, edit)
  \/ DeleteAllAppointmentsOfType(w)
  \/ ClearLegacy(w) \/ InsertSlot(w) \/ LastSync(w) \/ Fault(w)
AppStep == \E w \in Worker : Act(w)

TypeInv == TypeOK /\ IsFiniteSet(Rows)

ArgOK(r) ==
  /\ r.step \in {"insert", "insertDated"} => r.arg \in Time
  /\ r.step = "delete" => r.arg \in Id
  /\ r.step = "syncWrite" => r.arg \in Time \cup {NoDate}

LEMMA NoEditIsEdit == NoEdit \in Edit
  BY DEF NoEdit, Edit, Slot

LEMMA IdleIsRequest == Idle \in Request /\ ArgOK(Idle)
<1>1. <<>> \in Seq(Time)
  OBVIOUS
<1> QED
  BY <1>1, NoEditIsEdit DEF Idle, Request, ArgOK

LEMMA TypeParts ==
  TypeInv <=> /\ RowsOK /\ legacy \in Time \cup {NoDate}
              /\ req \in [Worker -> Request] /\ \A w \in Worker : ArgOK(req[w])
  BY DEF TypeInv, TypeOK, RowsOK, ArgOK, At

\* Replacing a request by a well-formed one keeps the requests well formed.
LEMMA StepKeepsRequests ==
  ASSUME TypeInv, NEW w \in Worker, NEW r \in Request, ArgOK(r), req' = [req EXCEPT ![w] = r]
  PROVE  req' \in [Worker -> Request] /\ \A v \in Worker : ArgOK(req'[v])
  BY TypeParts

LEMMA FinishKeepsRequests ==
  ASSUME TypeInv, NEW w \in Worker, Finish(w)
  PROVE  req' \in [Worker -> Request] /\ \A v \in Worker : ArgOK(req'[v])
  BY IdleIsRequest, StepKeepsRequests DEF Finish

\* Every field of a request but step stays well formed when the step changes.
LEMMA GoToKeepsRequests ==
  ASSUME TypeInv, NEW w \in Worker, GoTo(w, "sync") \/ GoTo(w, "wipeLegacy") \/ GoTo(w, "insertSlot")
  PROVE  req' \in [Worker -> Request] /\ \A v \in Worker : ArgOK(req'[v])
<1>1. PICK s \in {"sync", "wipeLegacy", "insertSlot"} : req' = [req EXCEPT ![w].step = s]
  BY DEF GoTo
<1> DEFINE r == [req[w] EXCEPT !.step = s]
<1>2. req[w] \in Request
  BY TypeParts
<1>3. r \in Request /\ ArgOK(r)
  BY <1>2 DEF Request, ArgOK
<1>4. req' = [req EXCEPT ![w] = r]
  BY <1>1
<1> HIDE DEF r
<1> QED
  BY <1>3, <1>4, StepKeepsRequests

\* Request r when it has merged edit into list l, with the rows list was.
Applied(r, edit, l, was, b) ==
  [r EXCEPT !.step = "wipe", !.plan = Merge(l, edit), !.was = was, !.edit = edit,
            !.inbound = TRUE, !.blind = b]

\* An inbound edit merges into the rows, or into what a failed load returned.
LEMMA ApplyLoads ==
  ASSUME TypeInv, NEW w \in Worker, NEW edit \in Edit, ApplyLarkInboundAppointments(w, edit)
  PROVE  \E l \in Seq(Time), b \in BOOLEAN :
           /\ (~b => l = Loaded) /\ Len(l) <= Len(Loaded)
           /\ req' = [req EXCEPT ![w] = Applied(req[w], edit, l, Loaded, b)]
<1>1. Loaded \in Seq(Time) /\ \A l \in CutShort : l \in Seq(Time) /\ Len(l) <= Len(Loaded)
  BY TypeParts, LoadedIsRows, CutShortTyped
<1>2. PICK b \in BOOLEAN : \E l \in (IF b THEN CutShort ELSE {Loaded}) :
        req' = [req EXCEPT ![w] = [req[w] EXCEPT !.step = "wipe", !.plan = Merge(l, edit),
                  !.was = Loaded, !.edit = edit, !.inbound = TRUE, !.blind = b]]
  BY DEF ApplyLarkInboundAppointments
<1>3. PICK l \in (IF b THEN CutShort ELSE {Loaded}) :
        req' = [req EXCEPT ![w] = Applied(req[w], edit, l, Loaded, b)]
  BY <1>2 DEF Applied
<1>4. l \in Seq(Time) /\ (~b => l = Loaded) /\ Len(l) <= Len(Loaded)
  <2>1. CASE b
    BY <1>1, <1>3, <2>1
  <2>2. CASE ~b
    BY <1>1, <1>3, <2>2
  <2> QED
    BY <2>1, <2>2
<1> QED
  BY <1>3, <1>4

LEMMA TypeStep == TypeInv /\ [AppStep]_vars => TypeInv'
<1> SUFFICES ASSUME TypeInv, [AppStep]_vars
             PROVE  TypeInv'
  OBVIOUS
<1> DEFINE ReqOK == req \in [Worker -> Request] /\ \A v \in Worker : ArgOK(req[v])
<1>0. /\ RowsOK /\ legacy \in Time \cup {NoDate}
      /\ ReqOK /\ \A w \in Worker : req[w] \in Request
  BY TypeParts
<1>a. RowsOK' /\ legacy' \in Time \cup {NoDate} /\ ReqOK' => TypeInv'
  BY DEF TypeInv, TypeOK, RowsOK, ArgOK, At
<1>b. date' = date => RowsOK'
  BY <1>0, SameRows
<1> HIDE DEF ReqOK
<1>1. CASE UNCHANGED vars
  BY <1>0, <1>1, <1>a, <1>b DEF vars, ReqOK
<1>3. ASSUME NEW w \in Worker, Act(w)
      PROVE  TypeInv'
  <2>0. req[w] \in Request
    BY <1>0
  <2> DEFINE Becomes(r) == r \in Request /\ ArgOK(r) /\ req' = [req EXCEPT ![w] = r]
  <2>a. ASSUME NEW r, Becomes(r)
        PROVE  ReqOK'
    BY <2>a, StepKeepsRequests DEF ReqOK
  <2>b. GoTo(w, "sync") \/ GoTo(w, "wipeLegacy") \/ GoTo(w, "insertSlot") \/ Finish(w) => ReqOK'
    BY GoToKeepsRequests, FinishKeepsRequests DEF ReqOK
  <2>1. CASE CreateProjectAppointment(w)
    <3>1. PICK t \in Time : req' = [req EXCEPT ![w] = [@ EXCEPT !.step = "insert", !.arg = t]]
      BY <2>1 DEF CreateProjectAppointment
    <3>2. Becomes([req[w] EXCEPT !.step = "insert", !.arg = t])
      BY <2>0, <3>1 DEF Request, ArgOK
    <3> QED
      BY <1>0, <1>a, <1>b, <2>1, <2>a, <3>2 DEF CreateProjectAppointment
  <2>2. CASE InsertAppointment(w)
    <3>1. req[w].arg \in Time
      BY <1>0, <2>2 DEF InsertAppointment, At, ReqOK, ArgOK
    <3>2. RowsOK'
      BY <1>0, <2>2, <3>1, InsertRow DEF InsertAppointment
    <3> QED
      BY <1>0, <1>a, <2>2, <2>b, <3>2 DEF InsertAppointment
  <2>3. CASE DeleteProjectAppointment(w)
    <3>1. PICK i \in Id : req' = [req EXCEPT ![w] = [@ EXCEPT !.step = "delete", !.arg = i]]
      BY <2>3 DEF DeleteProjectAppointment
    <3>2. Becomes([req[w] EXCEPT !.step = "delete", !.arg = i])
      BY <2>0, <3>1 DEF Request, ArgOK
    <3> QED
      BY <1>0, <1>a, <1>b, <2>3, <2>a, <3>2 DEF DeleteProjectAppointment
  <2>4. CASE DeleteAppointmentRow(w)
    <3>1. CASE req[w].arg \in Rows
      <4>1. RowsOK'
        BY <1>0, <2>4, <3>1, DeleteRow DEF DeleteAppointmentRow
      <4>2. Becomes([req[w] EXCEPT !.step = "sync", !.arg = NoDate])
        BY <2>0, <2>4, <3>1 DEF DeleteAppointmentRow, Request, ArgOK
      <4> QED
        BY <1>0, <1>a, <2>4, <2>a, <4>1, <4>2 DEF DeleteAppointmentRow
    <3>2. CASE req[w].arg \notin Rows
      BY <1>0, <1>a, <1>b, <2>4, <2>b, <3>2 DEF DeleteAppointmentRow
    <3> QED
      BY <3>1, <3>2
  <2>5. CASE SyncRead(w)
    <3>1. Latest \in Time \cup {NoDate}
      BY <1>0, LatestIsLatest
    <3>2. PICK t \in Time \cup {NoDate} :
                 req' = [req EXCEPT ![w] = [req[w] EXCEPT !.step = "syncWrite", !.arg = t]]
      BY <2>5, <3>1 DEF SyncRead
    <3>3. Becomes([req[w] EXCEPT !.step = "syncWrite", !.arg = t])
      BY <2>0, <3>2 DEF Request, ArgOK
    <3> QED
      BY <1>0, <1>a, <1>b, <2>5, <2>a, <3>3 DEF SyncRead
  <2>6. CASE SyncWrite(w)
    <3>1. req[w].arg \in Time \cup {NoDate}
      BY <1>0, <2>6 DEF SyncWrite, At, ReqOK, ArgOK
    <3> QED
      BY <1>0, <1>a, <1>b, <2>6, <2>b, <3>1 DEF SyncWrite
  <2>7. CASE \E edit \in Edit : ApplyLarkInboundAppointments(w, edit)
    <3>1. PICK edit \in Edit : ApplyLarkInboundAppointments(w, edit)
      BY <2>7
    <3>2. PICK l \in Seq(Time), b \in BOOLEAN :
                 req' = [req EXCEPT ![w] = Applied(req[w], edit, l, Loaded, b)]
      BY <3>1, ApplyLoads
    <3>3. Loaded \in Seq(Time) /\ Merge(l, edit) \in Seq(Time)
      BY <1>0, LoadedIsRows, MergeKeeps
    <3>4. Becomes(Applied(req[w], edit, l, Loaded, b))
      BY <2>0, <3>2, <3>3 DEF Applied, Request, ArgOK
    <3> QED
      BY <1>0, <1>a, <1>b, <2>a, <3>1, <3>4 DEF ApplyLarkInboundAppointments
  <2>8. CASE DeleteAllAppointmentsOfType(w)
    BY <1>0, <1>a, <2>8, <2>b, DeleteRows DEF DeleteAllAppointmentsOfType
  <2>9. CASE ClearLegacy(w)
    BY <1>0, <1>a, <1>b, <2>9, <2>b DEF ClearLegacy
  <2>10. CASE InsertSlot(w)
    <3>1. req[w].plan \in Seq(Time) /\ req[w].plan # <<>>
      BY <2>0, <2>10 DEF InsertSlot, Request
    <3>2. Head(req[w].plan) \in Time /\ Tail(req[w].plan) \in Seq(Time)
      BY <3>1
    <3>3. RowsOK'
      BY <1>0, <2>10, <3>2, InsertRow DEF InsertSlot
    <3>4. PICK q \in Seq(Time) : q = Tail(req[w].plan)
      BY <3>2
    <3>5. req' = [req EXCEPT ![w] = [@ EXCEPT !.step = "sync", !.plan = q]]
      BY <2>10, <3>4 DEF InsertSlot
    <3>6. Becomes([req[w] EXCEPT !.step = "sync", !.plan = q])
      BY <2>0, <3>5 DEF Request, ArgOK
    <3> QED
      BY <1>0, <1>a, <2>10, <2>a, <3>3, <3>6 DEF InsertSlot
  <2>11. CASE LastSync(w)
    <3>1. Becomes([req[w] EXCEPT !.step = "sync", !.inbound = FALSE])
      BY <2>0, <2>11 DEF LastSync, Request, ArgOK
    <3> QED
      BY <1>0, <1>a, <1>b, <2>11, <2>a, <3>1 DEF LastSync
  <2>12. CASE Fault(w)
    BY <1>0, <1>a, <1>b, <2>12, <2>b DEF Fault
  <2>13. CASE UpdateProjectStatus(w)
    BY <1>0, <1>a, <1>b, <2>13 DEF UpdateProjectStatus, ReqOK
  <2>14. CASE MoveToPresent(w)
    <3>1. PICK t \in Time :
                 req' = [req EXCEPT ![w] = [req[w] EXCEPT !.step = "insertDated", !.arg = t]]
      BY <2>14 DEF MoveToPresent
    <3>2. Becomes([req[w] EXCEPT !.step = "insertDated", !.arg = t])
      BY <2>0, <3>1 DEF Request, ArgOK
    <3>3. legacy' \in Time \cup {NoDate} /\ date' = date
      BY <2>14 DEF MoveToPresent
    <3> QED
      BY <1>a, <1>b, <2>a, <3>2, <3>3
  <2>15. CASE InsertDated(w)
    <3>1. req[w].arg \in Time
      BY <1>0, <2>15 DEF InsertDated, At, ReqOK, ArgOK
    <3>2. RowsOK'
      BY <1>0, <2>15, <3>1, InsertRow DEF InsertDated
    <3> QED
      BY <1>0, <1>a, <2>15, <2>b, <3>2 DEF InsertDated
  <2> QED
    BY <1>3, <2>1, <2>2, <2>3, <2>4, <2>5, <2>6, <2>7, <2>8, <2>9, <2>10, <2>11, <2>12, <2>13,
       <2>14, <2>15 DEF Act
<1> QED
  BY <1>1, <1>3 DEF AppStep

-----------------------------------------------------------------------------
\* One request or inbound edit at a time.
OneWorker == \A v, w \in Worker : v = w

\* With k rows there is room for what request r is going to insert, unless it is a move
\* to present, which does not ask.
RoomFor(r, k) ==
  /\ r.step = "idle" => r = Idle
  /\ r.step \in {"insert", "insertDated", "delete"} => r.edit = NoEdit /\ ~r.inbound
  /\ r.step = "insert" => k < maxAppointmentsPerType
  /\ r.step \in {"wipe", "wipeLegacy", "insertSlot"} => r.inbound
  /\ r.inbound => Len(r.plan) + (IF r.step = "wipe" THEN 0 ELSE k) <= maxAppointmentsPerType
  /\ ~r.inbound => r.plan = <<>>
RoomInv == \A w \in Worker : RoomFor(req[w], Cardinality(Rows))

Ran(s) == {s[n] : n \in DOMAIN s}

\* Whatever request r had loaded and its edit did not touch is still to be inserted or
\* among the dates D of the rows, and to be inserted as long as the rows are there to
\* be deleted.
Keeps(r, D) ==
  r.edit # NoEdit /\ ~r.blind =>
    \A n \in DOMAIN r.edit \cap DOMAIN r.was : ~Touched(r.edit[n]) =>
      r.was[n] \in Ran(r.plan) \cup (IF r.step = "wipe" THEN {} ELSE D)
KeepInv == \A w \in Worker : Keeps(req[w], Dates)

\* The only request is the one that has just taken a step.
LEMMA OnlyRequest ==
  ASSUME TypeInv, OneWorker, NEW w \in Worker, NEW r, req' = [req EXCEPT ![w] = r]
  PROVE  \A v \in Worker : req'[v] = r
  BY TypeParts DEF OneWorker

LEMMA NoPlan == <<>> \in Seq(Time) /\ Len(<<>>) = 0
  OBVIOUS

\* What each action makes of the request that takes it.
LEMMA RequestAfter ==
  ASSUME TypeInv, NEW w \in Worker
  PROVE  /\ CreateProjectAppointment(w) =>
              \E t \in Time : req' = [req EXCEPT ![w] = [req[w] EXCEPT !.step = "insert", !.arg = t]]
         /\ DeleteProjectAppointment(w) =>
              \E i \in Id : req' = [req EXCEPT ![w] = [req[w] EXCEPT !.step = "delete", !.arg = i]]
         /\ MoveToPresent(w) =>
              \E t \in Time :
                req' = [req EXCEPT ![w] = [req[w] EXCEPT !.step = "insertDated", !.arg = t]]
         /\ SyncRead(w) =>
              \E t : req' = [req EXCEPT ![w] = [req[w] EXCEPT !.step = "syncWrite", !.arg = t]]
         /\ InsertSlot(w) =>
              req' = [req EXCEPT ![w] = [req[w] EXCEPT !.step = "sync", !.plan = Tail(req[w].plan)]]
         /\ LastSync(w) =>
              req' = [req EXCEPT ![w] = [req[w] EXCEPT !.step = "sync", !.inbound = FALSE]]
         /\ \A s : GoTo(w, s) => req' = [req EXCEPT ![w] = [req[w] EXCEPT !.step = s]]
         /\ Finish(w) => req' = [req EXCEPT ![w] = Idle]
  BY DEF CreateProjectAppointment, DeleteProjectAppointment, MoveToPresent, SyncRead, InsertSlot,
         LastSync, GoTo, Finish

LEMMA RoomForIdle ==
  ASSUME NEW k
  PROVE  RoomFor(Idle, k)
  BY DEF RoomFor, Idle

LEMMA RoomStep ==
  ASSUME OneWorker, TypeInv, RoomInv, [AppStep]_vars
  PROVE  RoomInv'
<1> DEFINE k == Cardinality(Rows)
<1>0. RowsOK /\ legacy \in Time \cup {NoDate} /\ \A w \in Worker : req[w] \in Request
  BY TypeParts
<1>1. /\ k \in Nat /\ maxAppointmentsPerType \in Nat \ {0}
      /\ \A w \in Worker : RoomFor(req[w], k)
  BY <1>0, FS_CardinalityType, LimitAssumption DEF RowsOK, RoomInv
<1>2. ASSUME req' = req, date' = date
      PROVE  RoomInv'
  BY <1>0, <1>1, <1>2, SameRows DEF RoomInv
<1>3. CASE UNCHANGED vars
  BY <1>2, <1>3 DEF vars
<1>5. ASSUME NEW w \in Worker, Act(w)
      PROVE  RoomInv'
  <2>0. req[w] \in Request /\ RoomFor(req[w], k) /\ req[w].plan \in Seq(Time)
    BY <1>0, <1>1 DEF Request
  <2> DEFINE kn == Cardinality(Rows')
  <2>a. ASSUME NEW r, req' = [req EXCEPT ![w] = r], RoomFor(r, kn)
        PROVE  RoomInv'
    <3>1. \A v \in Worker : req'[v] = r
      BY <2>a, OnlyRequest
    <3> QED
      BY <2>a, <3>1 DEF RoomInv
  <2>b. date' = date => kn = k
    BY <1>0, SameRows
  <2>c. Finish(w) => RoomInv'
    BY <2>a, RoomForIdle, RequestAfter
  <2> HIDE DEF k, kn
  <2>1. CASE CreateProjectAppointment(w)
    <3>1. PICK t \in Time : req' = [req EXCEPT ![w] = [req[w] EXCEPT !.step = "insert", !.arg = t]]
      BY <2>1, RequestAfter
    <3>2. req[w] = Idle /\ k < maxAppointmentsPerType /\ kn = k
      BY <2>0, <2>1, <2>b DEF CreateProjectAppointment, At, RoomFor, k
    <3>3. RoomFor([req[w] EXCEPT !.step = "insert", !.arg = t], kn)
      BY <1>1, <3>2 DEF RoomFor, Idle
    <3> QED
      BY <2>a, <3>1, <3>3
  <2>2. CASE InsertAppointment(w)
    <3>1. req[w].step = "insert" /\ req[w].arg \in Time
      BY <2>2, TypeParts DEF InsertAppointment, At, ArgOK
    <3>2. kn = k + 1
      BY <1>0, <2>2, <3>1, InsertRow DEF InsertAppointment, k, kn
    <3>3. k < maxAppointmentsPerType /\ ~req[w].inbound /\ req[w].plan = <<>>
      BY <2>0, <3>1 DEF RoomFor
    <3>4. RoomFor([req[w] EXCEPT !.step = "sync"], kn)
      BY <1>1, <2>0, <3>2, <3>3 DEF RoomFor, Request
    <3>5. req' = [req EXCEPT ![w] = [req[w] EXCEPT !.step = "sync"]]
      BY <2>2, RequestAfter DEF InsertAppointment
    <3> QED
      BY <2>a, <3>4, <3>5
  <2>3. CASE DeleteProjectAppointment(w)
    <3>1. PICK i \in Id : req' = [req EXCEPT ![w] = [req[w] EXCEPT !.step = "delete", !.arg = i]]
      BY <2>3, RequestAfter
    <3>2. req[w] = Idle /\ kn = k
      BY <2>0, <2>3, <2>b DEF DeleteProjectAppointment, At, RoomFor
    <3>3. RoomFor([req[w] EXCEPT !.step = "delete", !.arg = i], kn)
      BY <1>1, <3>2 DEF RoomFor, Idle
    <3> QED
      BY <2>a, <3>1, <3>3
  <2>4. CASE DeleteAppointmentRow(w)
    <3>1. CASE req[w].arg \in Rows
      <4>1. kn = k - 1 /\ kn \in Nat
        BY <1>0, <2>4, <3>1, DeleteRow, FS_CardinalityType DEF DeleteAppointmentRow, k, kn, RowsOK
      <4>2. ~req[w].inbound /\ req[w].plan = <<>>
        BY <2>0, <2>4 DEF RoomFor, DeleteAppointmentRow, At
      <4>3. RoomFor([req[w] EXCEPT !.step = "sync", !.arg = NoDate], kn)
        BY <1>1, <2>0, <4>1, <4>2 DEF RoomFor, Request
      <4> QED
        BY <2>4, <2>a, <3>1, <4>3 DEF DeleteAppointmentRow
    <3>2. CASE req[w].arg \notin Rows
      BY <1>1, <2>4, <2>b, <2>c, <3>2 DEF DeleteAppointmentRow
    <3> QED
      BY <3>1, <3>2
  <2>5. CASE SyncRead(w)
    <3>1. PICK t : req' = [req EXCEPT ![w] = [req[w] EXCEPT !.step = "syncWrite", !.arg = t]]
      BY <2>5, RequestAfter
    <3>2. RoomFor([req[w] EXCEPT !.step = "syncWrite", !.arg = t], kn)
      BY <1>1, <2>0, <2>5, <2>b DEF SyncRead, At, RoomFor, Request
    <3> QED
      BY <2>a, <3>1, <3>2
  <2>6. CASE SyncWrite(w)
    <3>1. CASE req[w].inbound
      <4>1. RoomFor([req[w] EXCEPT !.step = "insertSlot"], kn)
        BY <1>1, <2>0, <2>6, <2>b, <3>1 DEF SyncWrite, At, RoomFor, Request
      <4> QED
        BY <2>6, <2>a, <3>1, <4>1, RequestAfter DEF SyncWrite
    <3>2. CASE ~req[w].inbound
      BY <1>1, <2>6, <2>b, <2>c, <3>2 DEF SyncWrite
    <3> QED
      BY <3>1, <3>2
  <2>7. CASE \E edit \in Edit : ApplyLarkInboundAppointments(w, edit)
    <3>1. PICK edit \in Edit : ApplyLarkInboundAppointments(w, edit)
      BY <2>7
    <3>2. PICK l \in Seq(Time), b \in BOOLEAN :
                 req' = [req EXCEPT ![w] = Applied(req[w], edit, l, Loaded, b)]
      BY <3>1, ApplyLoads
    <3>3. PICK plan : plan = Merge(l, edit) /\ plan \in Seq(Time)
                      /\ Len(plan) <= maxAppointmentsPerType
      BY MergeKeeps
    <3>4. RoomFor(Applied(req[w], edit, l, Loaded, b), kn)
      BY <1>1, <2>0, <2>b, <3>1, <3>3 DEF Applied, ApplyLarkInboundAppointments, RoomFor, Request
    <3> QED
      BY <2>a, <3>2, <3>4
  <2>8. CASE DeleteAllAppointmentsOfType(w)
    <3>1. kn = 0
      BY <2>8, DeleteRows DEF DeleteAllAppointmentsOfType, kn
    <3>2. RoomFor([req[w] EXCEPT !.step = "wipeLegacy"], kn)
      BY <1>1, <2>0, <2>8, <3>1 DEF DeleteAllAppointmentsOfType, At, RoomFor, Request
    <3> QED
      BY <2>8, <2>a, <3>2, RequestAfter DEF DeleteAllAppointmentsOfType
  <2>9. CASE ClearLegacy(w)
    <3>1. RoomFor([req[w] EXCEPT !.step = "insertSlot"], kn)
      BY <1>1, <2>0, <2>9, <2>b DEF ClearLegacy, At, RoomFor, Request
    <3> QED
      BY <2>9, <2>a, <3>1, RequestAfter DEF ClearLegacy
  <2>10. CASE InsertSlot(w)
    <3>1. req[w].plan # <<>> /\ req[w].step = "insertSlot" /\ req[w].inbound
      BY <2>0, <2>10 DEF InsertSlot, At, RoomFor
    <3>2. PICK q \in Seq(Time) : q = Tail(req[w].plan) /\ Len(q) = Len(req[w].plan) - 1
      BY <2>0, <3>1, HeadAndTail
    <3>3. Head(req[w].plan) \in Time
      BY <2>0, <3>1, HeadAndTail
    <3>4. kn = k + 1
      BY <1>0, <2>10, <3>3, InsertRow DEF InsertSlot, k, kn
    <3>5. Len(q) + kn <= maxAppointmentsPerType /\ Len(q) \in Nat
      <4>1. Len(req[w].plan) + k <= maxAppointmentsPerType
        BY <2>0, <3>1 DEF RoomFor
      <4>2. Len(req[w].plan) \in Nat /\ Len(q) \in Nat
        BY <2>0, <3>2
      <4>3. k \in Nat /\ maxAppointmentsPerType \in Nat
        BY <1>1
      <4>4. Len(q) = Len(req[w].plan) - 1
        BY <3>2
      <4>5. PICK a \in Nat : a = Len(req[w].plan)
        BY <4>2
      <4>6. a + k <= maxAppointmentsPerType /\ Len(q) = a - 1
        BY <4>1, <4>4, <4>5
      <4>7. (a - 1) + (k + 1) <= maxAppointmentsPerType
        BY <4>3, <4>6
      <4> QED
        BY <3>4, <4>2, <4>6, <4>7
    <3>6. RoomFor([req[w] EXCEPT !.step = "sync", !.plan = q], kn)
      BY <1>1, <2>0, <3>1, <3>4, <3>5 DEF RoomFor, Request
    <3> QED
      BY <2>10, <2>a, <3>2, <3>6, RequestAfter
  <2>11. CASE LastSync(w)
    <3>1. RoomFor([req[w] EXCEPT !.step = "sync", !.inbound = FALSE], kn)
      BY <1>1, <2>0, <2>11, <2>b DEF LastSync, At, RoomFor, Request
    <3> QED
      BY <2>11, <2>a, <3>1, RequestAfter
  <2>12. CASE Fault(w)
    BY <1>1, <2>12, <2>b, <2>c DEF Fault
  <2>13. CASE UpdateProjectStatus(w)
    BY <1>2, <2>13 DEF UpdateProjectStatus
  <2>14. CASE MoveToPresent(w)
    <3>1. PICK t \in Time : req' = [req EXCEPT ![w] = [req[w] EXCEPT !.step = "insertDated", !.arg = t]]
      BY <2>14, RequestAfter
    <3>2. req[w] = Idle
      BY <2>0, <2>14 DEF MoveToPresent, At, RoomFor
    <3>3. RoomFor([req[w] EXCEPT !.step = "insertDated", !.arg = t], kn)
      BY <3>2 DEF RoomFor, Idle
    <3> QED
      BY <2>a, <3>1, <3>3
  <2>15. CASE InsertDated(w)
    <3>1. req[w].step = "insertDated"
      BY <2>15 DEF InsertDated, At
    <3>2. ~req[w].inbound /\ req[w].plan = <<>>
      BY <2>0, <3>1 DEF RoomFor
    <3>3. RoomFor([req[w] EXCEPT !.step = "sync"], kn)
      BY <2>0, <3>2 DEF RoomFor, Request
    <3>4. req' = [req EXCEPT ![w] = [req[w] EXCEPT !.step = "sync"]]
      BY <2>15, RequestAfter DEF InsertDated
    <3> QED
      BY <2>a, <3>3, <3>4
  <2> QED
    BY <1>5, <2>1, <2>2, <2>3, <2>4, <2>5, <2>6, <2>7, <2>8, <2>9, <2>10, <2>11, <2>12, <2>13,
       <2>14, <2>15 DEF Act
<1> QED
  BY <1>3, <1>5 DEF AppStep

LEMMA KeepsIdle == \A D : Keeps(Idle, D)
  BY DEF Keeps, Idle

LEMMA KeepStep ==
  ASSUME OneWorker, TypeInv, RoomInv, KeepInv, [AppStep]_vars
  PROVE  KeepInv'
<1>0. RowsOK /\ legacy \in Time \cup {NoDate} /\ \A w \in Worker : req[w] \in Request
  BY TypeParts
<1>1. \A w \in Worker : Keeps(req[w], Dates)
  BY DEF KeepInv
<1>2. \A w \in Worker : RoomFor(req[w], Cardinality(Rows))
  BY DEF RoomInv
<1>3. date' = date => Dates' = Dates
  BY <1>0, SameRows
<1>4. ASSUME req' = req, date' = date
      PROVE  KeepInv'
  BY <1>1, <1>3, <1>4 DEF KeepInv
<1>5. CASE UNCHANGED vars
  BY <1>4, <1>5 DEF vars
<1>7. ASSUME NEW w \in Worker, Act(w)
      PROVE  KeepInv'
  <2> DEFINE r == req[w]
  <2>0. r \in Request /\ Keeps(r, Dates)
    BY <1>0, <1>1
  <2>f. PICK D : D = Dates'
    OBVIOUS
  <2>a. ASSUME NEW q, req' = [req EXCEPT ![w] = q], Keeps(q, D)
        PROVE  KeepInv'
    BY <2>a, <2>f, OnlyRequest DEF KeepInv
  <2>b. Finish(w) => KeepInv'
    BY <2>a, KeepsIdle, RequestAfter
  <2>c. r.step = "idle" => r = Idle
    BY <1>2 DEF RoomFor
  <2>d. r.step \in {"insert", "insertDated", "delete"} => r.edit = NoEdit
    BY <1>2 DEF RoomFor
  \* A request whose edit is empty, or one that only goes on, keeps what it kept.
  <2>e. ASSUME NEW q, q.edit = r.edit, q.was = r.was, q.plan = r.plan, q.blind = r.blind,
               r.edit = NoEdit \/ (D = Dates /\ r.step # "wipe" /\ q.step # "wipe")
        PROVE  Keeps(q, D)
    <3> HIDE DEF r
    <3>1. CASE r.edit = NoEdit
      BY <2>0, <2>e, <3>1 DEF Keeps
    <3>2. CASE D = Dates /\ r.step # "wipe" /\ q.step # "wipe"
      BY <2>0, <2>e, <3>2 DEF Keeps
    <3> QED
      BY <2>e, <3>1, <3>2
  <2>1. CASE CreateProjectAppointment(w)
    <3>1. PICK t \in Time : req' = [req EXCEPT ![w] = [r EXCEPT !.step = "insert", !.arg = t]]
      BY <2>1, RequestAfter
    <3>2. r.edit = NoEdit
      BY <2>1, <2>c DEF CreateProjectAppointment, At, Idle
    <3>3. PICK q : q = [r EXCEPT !.step = "insert", !.arg = t]
      OBVIOUS
    <3>4. q.edit = r.edit /\ q.was = r.was /\ q.plan = r.plan /\ q.blind = r.blind
      BY <2>0, <3>3 DEF Request
    <3>5. Keeps(q, D)
      BY <2>e, <3>2, <3>4
    <3> QED
      BY <2>a, <3>1, <3>3, <3>5
  <2>2. CASE InsertAppointment(w)
    <3>1. req' = [req EXCEPT ![w] = [r EXCEPT !.step = "sync"]]
      BY <2>2, RequestAfter DEF InsertAppointment
    <3>2. r.edit = NoEdit
      BY <2>2, <2>d DEF InsertAppointment, At
    <3>3. PICK q : q = [r EXCEPT !.step = "sync"]
      OBVIOUS
    <3>4. q.edit = r.edit /\ q.was = r.was /\ q.plan = r.plan /\ q.blind = r.blind
      BY <2>0, <3>3 DEF Request
    <3>5. Keeps(q, D)
      BY <2>e, <3>2, <3>4
    <3> QED
      BY <2>a, <3>1, <3>3, <3>5
  <2>3. CASE DeleteProjectAppointment(w)
    <3>1. PICK i \in Id : req' = [req EXCEPT ![w] = [r EXCEPT !.step = "delete", !.arg = i]]
      BY <2>3, RequestAfter
    <3>2. r.edit = NoEdit
      BY <2>3, <2>c DEF DeleteProjectAppointment, At, Idle
    <3>3. PICK q : q = [r EXCEPT !.step = "delete", !.arg = i]
      OBVIOUS
    <3>4. q.edit = r.edit /\ q.was = r.was /\ q.plan = r.plan /\ q.blind = r.blind
      BY <2>0, <3>3 DEF Request
    <3>5. Keeps(q, D)
      BY <2>e, <3>2, <3>4
    <3> QED
      BY <2>a, <3>1, <3>3, <3>5
  <2>4. CASE DeleteAppointmentRow(w)
    <3>1. CASE req[w].arg \in Rows
      <4>1. req' = [req EXCEPT ![w] = [r EXCEPT !.step = "sync", !.arg = NoDate]]
        BY <2>4, <3>1 DEF DeleteAppointmentRow
      <4>2. r.edit = NoEdit
        BY <2>4, <2>d DEF DeleteAppointmentRow, At
      <4>3. PICK q : q = [r EXCEPT !.step = "sync", !.arg = NoDate]
        OBVIOUS
      <4>4. q.edit = r.edit /\ q.was = r.was /\ q.plan = r.plan /\ q.blind = r.blind
        BY <2>0, <4>3 DEF Request
      <4>5. Keeps(q, D)
        BY <2>e, <4>2, <4>4
      <4> QED
        BY <2>a, <4>1, <4>3, <4>5
    <3>2. CASE req[w].arg \notin Rows
      BY <2>4, <2>b, <3>2 DEF DeleteAppointmentRow
    <3> QED
      BY <3>1, <3>2
  <2>5. CASE SyncRead(w)
    <3>1. PICK t : req' = [req EXCEPT ![w] = [r EXCEPT !.step = "syncWrite", !.arg = t]]
      BY <2>5, RequestAfter
    <3>2. Keeps([r EXCEPT !.step = "syncWrite", !.arg = t], D)
      BY <1>3, <2>0, <2>f, <2>5, <2>e DEF SyncRead, At, Request
    <3> QED
      BY <2>a, <3>1, <3>2
  <2>6. CASE SyncWrite(w)
    <3>1. CASE req[w].inbound
      <4>1. req' = [req EXCEPT ![w] = [r EXCEPT !.step = "insertSlot"]]
        BY <2>6, <3>1, RequestAfter DEF SyncWrite
      <4>2. Keeps([r EXCEPT !.step = "insertSlot"], D)
        BY <1>3, <2>0, <2>f, <2>6, <2>e DEF SyncWrite, At, Request
      <4> QED
        BY <2>a, <4>1, <4>2
    <3>2. CASE ~req[w].inbound
      BY <2>6, <2>b, <3>2 DEF SyncWrite
    <3> QED
      BY <3>1, <3>2
  <2>7. CASE \E edit \in Edit : ApplyLarkInboundAppointments(w, edit)
    <3>1. PICK edit \in Edit : ApplyLarkInboundAppointments(w, edit)
      BY <2>7
    <3>2. PICK l \in Seq(Time), b \in BOOLEAN :
                 /\ ~b => l = Loaded
                 /\ req' = [req EXCEPT ![w] = Applied(r, edit, l, Loaded, b)]
      BY <3>1, ApplyLoads
    <3>3. PICK q : q = Applied(r, edit, l, Loaded, b)
      OBVIOUS
    <3>4. PICK plan : plan = Merge(l, edit)
      OBVIOUS
    <3>5. /\ q.plan = plan /\ q.was = Loaded /\ q.edit = edit /\ q.step = "wipe" /\ q.blind = b
          /\ Loaded \in Seq(Time)
      BY <1>0, <2>0, <3>3, <3>4, LoadedIsRows DEF Applied, Request
    <3>6. ASSUME ~b, NEW n \in DOMAIN edit \cap DOMAIN Loaded, ~Touched(edit[n])
          PROVE  Loaded[n] \in Ran(plan)
      <4>1. n \in 1..maxAppointmentsPerType /\ n <= Len(Loaded)
        BY <3>5 DEF Edit
      <4>2. l = Loaded /\ plan \in Seq(Time)
        BY <3>2, <3>4, <3>6, MergeKeeps
      <4>3. \E m \in 1..Len(Merge(l, edit)) : Merge(l, edit)[m] = l[n]
        <5>1. n \in 1..maxAppointmentsPerType /\ n <= Len(l) /\ ~Touched(edit[n])
          BY <3>6, <4>1, <4>2
        <5> QED
          BY <5>1, MergeKeeps
      <4> QED
        BY <3>4, <4>2, <4>3 DEF Ran
    <3>7. Keeps(q, D)
      BY <3>5, <3>6 DEF Keeps
    <3> QED
      BY <2>a, <3>2, <3>3, <3>7
  <2>8. CASE DeleteAllAppointmentsOfType(w)
    <3>1. req' = [req EXCEPT ![w] = [r EXCEPT !.step = "wipeLegacy"]]
      BY <2>8, RequestAfter DEF DeleteAllAppointmentsOfType
    <3>2. r.step = "wipe"
      BY <2>8 DEF DeleteAllAppointmentsOfType, At
    <3>3. Keeps([r EXCEPT !.step = "wipeLegacy"], D)
      BY <2>0, <3>2 DEF Keeps, Request
    <3> QED
      BY <2>a, <3>1, <3>3
  <2>9. CASE ClearLegacy(w)
    <3>1. req' = [req EXCEPT ![w] = [r EXCEPT !.step = "insertSlot"]]
      BY <2>9, RequestAfter DEF ClearLegacy
    <3>2. Keeps([r EXCEPT !.step = "insertSlot"], D)
      BY <1>3, <2>0, <2>f, <2>9, <2>e DEF ClearLegacy, At, Request
    <3> QED
      BY <2>a, <3>1, <3>2
  <2>10. CASE InsertSlot(w)
    <3>1. r.plan # <<>> /\ r.step = "insertSlot" /\ r.plan \in Seq(Time)
      BY <2>0, <2>10 DEF InsertSlot, At, Request
    <3>2. PICK p \in Seq(Time) : p = Tail(r.plan)
      BY <3>1, HeadAndTail
    <3>3. PICK t \in Time : t = Head(r.plan)
      BY <3>1, HeadAndTail
    <3>4. Dates' = Dates \cup {t}
      BY <1>0, <2>10, <3>3, InsertRow DEF InsertSlot
    <3>5. Ran(r.plan) \subseteq Ran(p) \cup {t}
      <4>1. ASSUME NEW n \in DOMAIN r.plan
            PROVE  r.plan[n] = t \/ \E m \in DOMAIN p : p[m] = r.plan[n]
        <5>1. n # 1 => n - 1 \in DOMAIN p /\ p[n - 1] = r.plan[n]
          BY <3>1, <3>2, <4>1, HeadAndTail
        <5>2. r.plan[1] = t
          BY <3>1, <3>3, HeadAndTail
        <5> QED
          BY <5>1, <5>2
      <4> QED
        BY <4>1 DEF Ran
    <3>6. req' = [req EXCEPT ![w] = [r EXCEPT !.step = "sync", !.plan = p]]
      BY <2>10, <3>2, RequestAfter
    <3>7. PICK q : q = [r EXCEPT !.step = "sync", !.plan = p]
      OBVIOUS
    <3>8. q.plan = p /\ q.was = r.was /\ q.edit = r.edit /\ q.step = "sync" /\ q.blind = r.blind
      BY <2>0, <3>7 DEF Request
    <3>9. Keeps(q, D)
      BY <2>0, <2>f, <3>1, <3>4, <3>5, <3>8 DEF Keeps
    <3> QED
      BY <2>a, <3>6, <3>7, <3>9
  <2>11. CASE LastSync(w)
    <3>1. req' = [req EXCEPT ![w] = [r EXCEPT !.step = "sync", !.inbound = FALSE]]
      BY <2>11, RequestAfter
    <3>2. Keeps([r EXCEPT !.step = "sync", !.inbound = FALSE], D)
      BY <1>3, <2>0, <2>f, <2>11, <2>e DEF LastSync, At, Request
    <3> QED
      BY <2>a, <3>1, <3>2
  <2>12. CASE Fault(w)
    BY <2>12, <2>b DEF Fault
  <2>13. CASE UpdateProjectStatus(w)
    BY <1>4, <2>13 DEF UpdateProjectStatus
  <2>14. CASE MoveToPresent(w)
    <3>1. PICK t \in Time : req' = [req EXCEPT ![w] = [r EXCEPT !.step = "insertDated", !.arg = t]]
      BY <2>14, RequestAfter
    <3>2. r.edit = NoEdit
      BY <2>14, <2>c DEF MoveToPresent, At, Idle
    <3>3. PICK q : q = [r EXCEPT !.step = "insertDated", !.arg = t]
      OBVIOUS
    <3>4. q.edit = r.edit /\ q.was = r.was /\ q.plan = r.plan /\ q.blind = r.blind
      BY <2>0, <3>3 DEF Request
    <3>5. Keeps(q, D)
      BY <2>e, <3>2, <3>4
    <3> QED
      BY <2>a, <3>1, <3>3, <3>5
  <2>15. CASE InsertDated(w)
    <3>1. req' = [req EXCEPT ![w] = [r EXCEPT !.step = "sync"]]
      BY <2>15, RequestAfter DEF InsertDated
    <3>2. r.edit = NoEdit
      BY <2>15, <2>d DEF InsertDated, At
    <3>3. PICK q : q = [r EXCEPT !.step = "sync"]
      OBVIOUS
    <3>4. q.edit = r.edit /\ q.was = r.was /\ q.plan = r.plan /\ q.blind = r.blind
      BY <2>0, <3>3 DEF Request
    <3>5. Keeps(q, D)
      BY <2>e, <3>2, <3>4
    <3> QED
      BY <2>a, <3>1, <3>3, <3>5
  <2> QED
    BY <1>7, <2>1, <2>2, <2>3, <2>4, <2>5, <2>6, <2>7, <2>8, <2>9, <2>10, <2>11, <2>12, <2>13,
       <2>14, <2>15 DEF Act
<1> QED
  BY <1>5, <1>7 DEF AppStep


-----------------------------------------------------------------------------
Push == [step: {"none", "check", "write"}, slots: Seq(Time), left: SUBSET Column]
Fetch == [edit: Edit, pending: SUBSET {"app", "lark"}, busy: BOOLEAN]
PushOK(p) == p \in Push /\ (p.step = "write" <=> p.left # {})

\* A goroutine does one thing at a time: while it answers a request or brings a pull to
\* its end it has no push to make, and what it fetched belongs to the pull it is in.
OneThing(r, p, f) ==
  /\ r.step # "idle" \/ f.busy => p = NoPush
  /\ r.step # "idle" /\ r.edit = NoEdit => ~f.busy
  /\ r.inbound => r.edit # NoEdit
MirrorInv ==
  /\ TypeInv
  /\ column \in [Column -> Time \cup {NoDate}] /\ muted \in BOOLEAN
  /\ pending \in SUBSET {"app", "lark"}
  /\ push \in [Worker -> Push] /\ fetched \in [Worker -> Fetch]
  /\ \A w \in Worker : PushOK(push[w]) /\ OneThing(req[w], push[w], fetched[w])

LEMMA MirrorInvTyped == MirrorInv => MirrorTypeOK
  BY DEF MirrorInv, MirrorTypeOK, TypeInv, Push, Fetch, PushOK

LEMMA NothingIsTyped == PushOK(NoPush) /\ NoPush \in Push /\ NoFetch \in Fetch
<1>1. <<>> \in Seq(Time)
  OBVIOUS
<1>2. NoPush \in Push
  BY <1>1 DEF NoPush, Push
<1>3. NoFetch \in Fetch
  BY NoEditIsEdit DEF NoFetch, Fetch
<1> QED
  BY <1>2, <1>3 DEF PushOK, NoPush

LEMMA RecordIsEdit ==
  ASSUME column \in [Column -> Time \cup {NoDate}]
  PROVE  RecordInLark \in Edit
<1>1. ASSUME NEW n \in ColumnSet
      PROVE  ReadColumn(n) \in Time \cup {NoDate}
  BY LimitAssumption DEF ReadColumn, Column, ColumnSet
<1>2. ASSUME NEW n \in ColumnSet
      PROVE  [column |-> IF ReadColumn(n) = NoDate THEN "absent" ELSE "date",
              date |-> ReadColumn(n)] \in Slot
  BY <1>1 DEF Slot
<1> QED
  BY <1>2 DEF RecordInLark, Edit, ColumnSet

LEMMA SlotOfTyped ==
  ASSUME NEW s \in Seq(Time), NEW n \in Column
  PROVE  SlotOf(s, n) \in Time \cup {NoDate}
<1> DEFINE m == IF n = 0 THEN 1 ELSE n
<1>1. m \in Nat /\ m >= 1
  BY LimitAssumption DEF Column, ColumnSet
<1>2. CASE m <= Len(s)
  BY <1>1, <1>2 DEF SlotOf, Base
<1>3. CASE ~(m <= Len(s))
  BY <1>3 DEF SlotOf, Base
<1> QED
  BY <1>2, <1>3

\* A step of the mirror is a step of the appointments or leaves them as they are.
LEMMA MirrorTakesSteps ==
  ASSUME MirrorInv, [MirrorNext]_allVars
  PROVE  [AppStep]_vars
<1>1. CASE UNCHANGED allVars
  BY <1>1 DEF allVars
<1>3. CASE EditInLark \/ ClearInLark \/ FortyFiveSecondsPass
  BY <1>3 DEF EditInLark, ClearInLark, FortyFiveSecondsPass
<1>4. ASSUME NEW w \in Worker,
             \/ PushAnyway(w) \/ SkipPush(w) \/ LoadSlots(w) \/ LoadSlotsBlind(w) \/ PushFails(w)
             \/ \E n \in Column : WriteColumn(w, n) \/ WriteFails(w, n)
             \/ PullLarkRecordInbound(w) \/ NothingFetched(w)
      PROVE  UNCHANGED vars
  BY <1>4 DEF PushAnyway, SkipPush, LoadSlots, LoadSlotsBlind, PushFails, WriteColumn, WriteFails,
     PullLarkRecordInbound, NothingFetched
<1>5. ASSUME NEW w \in Worker,
             \/ StartRequest(w) \/ AnswerStatus(w) \/ ContinueRequest(w) \/ Respond(w)
             \/ EndPull(w) \/ RequestFails(w)
      PROVE  Act(w)
  BY <1>5 DEF StartRequest, AnswerStatus, ContinueRequest, Respond, EndPull, RequestFails, Act
<1>6. ASSUME NEW w \in Worker, ApplyFetched(w)
      PROVE  Act(w)
  <2>1. fetched[w].edit \in Edit
    BY DEF MirrorInv, Fetch
  <2> QED
    BY <1>6, <2>1 DEF ApplyFetched, Act
<1> QED
  BY <1>1, <1>3, <1>4, <1>5, <1>6 DEF MirrorNext, AppStep

\* The first request steps, and those that follow.
LEMMA StartOnly ==
  ASSUME TypeInv, NEW w \in Worker,
         CreateProjectAppointment(w) \/ DeleteProjectAppointment(w) \/ MoveToPresent(w)
  PROVE  /\ \A v \in Worker : v # w => req'[v] = req[v]
         /\ req'[w].edit = req[w].edit /\ req'[w].inbound = req[w].inbound
<1>0. req \in [Worker -> Request] /\ req[w] \in Request
  BY TypeParts
<1>1. CASE CreateProjectAppointment(w)
  <2>1. PICK t : req' = [req EXCEPT ![w] = [req[w] EXCEPT !.step = "insert", !.arg = t]]
    BY <1>1, RequestAfter
  <2> QED
    BY <1>0, <2>1 DEF Request
<1>2. CASE DeleteProjectAppointment(w)
  <2>1. PICK i : req' = [req EXCEPT ![w] = [req[w] EXCEPT !.step = "delete", !.arg = i]]
    BY <1>2, RequestAfter
  <2> QED
    BY <1>0, <2>1 DEF Request
<1>3. CASE MoveToPresent(w)
  <2>1. PICK t : req' = [req EXCEPT ![w] = [req[w] EXCEPT !.step = "insertDated", !.arg = t]]
    BY <1>3, RequestAfter
  <2> QED
    BY <1>0, <2>1 DEF Request
<1> QED
  BY <1>1, <1>2, <1>3

LEMMA ContinueOnly ==
  ASSUME TypeInv, NEW w \in Worker,
         \/ InsertAppointment(w) \/ InsertDated(w) \/ DeleteAppointmentRow(w)
         \/ SyncRead(w) \/ SyncWrite(w)
         \/ DeleteAllAppointmentsOfType(w) \/ ClearLegacy(w) \/ InsertSlot(w) \/ LastSync(w)
         \/ Fault(w)
  PROVE  /\ \A v \in Worker : v # w => req'[v] = req[v]
         /\ req[w].step # "idle"
         /\ \/ req'[w] = Idle
            \/ req'[w].edit = req[w].edit /\ (req'[w].inbound => req[w].inbound)
<1>0. req \in [Worker -> Request] /\ req[w] \in Request
  BY TypeParts
<1> DEFINE After == /\ \A v \in Worker : v # w => req'[v] = req[v]
                    /\ \/ req'[w] = Idle
                       \/ req'[w].edit = req[w].edit /\ (req'[w].inbound => req[w].inbound)
<1>1. Finish(w) => After
  BY <1>0 DEF Finish
<1>2. ASSUME NEW s, GoTo(w, s)
      PROVE  After
  BY <1>0, <1>2 DEF GoTo, Request
<1>3. CASE InsertAppointment(w) \/ InsertDated(w)
  BY <1>2, <1>3 DEF InsertAppointment, InsertDated, At
<1>4. CASE DeleteAppointmentRow(w)
  <2>1. CASE req[w].arg \in Rows
    <3>1. req' = [req EXCEPT ![w] = [req[w] EXCEPT !.step = "sync", !.arg = NoDate]]
      BY <1>4, <2>1 DEF DeleteAppointmentRow
    <3>2. /\ req'[w].edit = req[w].edit /\ req'[w].inbound = req[w].inbound
          /\ \A v \in Worker : v # w => req'[v] = req[v]
      BY <1>0, <3>1 DEF Request
    <3>3. req[w].step # "idle"
      BY <1>4 DEF DeleteAppointmentRow, At
    <3> QED
      BY <3>2, <3>3
  <2>2. CASE req[w].arg \notin Rows
    BY <1>1, <1>4, <2>2 DEF DeleteAppointmentRow, At
  <2> QED
    BY <2>1, <2>2
<1>5. CASE SyncRead(w)
  <2>1. PICK t : req' = [req EXCEPT ![w] = [req[w] EXCEPT !.step = "syncWrite", !.arg = t]]
    BY <1>5, RequestAfter
  <2> QED
    BY <1>0, <1>5, <2>1 DEF SyncRead, At, Request
<1>6. CASE SyncWrite(w)
  BY <1>1, <1>2, <1>6 DEF SyncWrite, At
<1>7. CASE DeleteAllAppointmentsOfType(w)
  BY <1>2, <1>7 DEF DeleteAllAppointmentsOfType, At
<1>8. CASE ClearLegacy(w)
  BY <1>2, <1>8 DEF ClearLegacy, At
<1>9. CASE InsertSlot(w)
  <2>1. PICK q : q = Tail(req[w].plan)
    OBVIOUS
  <2>2. req' = [req EXCEPT ![w] = [req[w] EXCEPT !.step = "sync", !.plan = q]]
    BY <1>9, <2>1, RequestAfter
  <2> QED
    BY <1>0, <1>9, <2>2 DEF InsertSlot, At, Request
<1>10. CASE LastSync(w)
  <2>1. req' = [req EXCEPT ![w] = [req[w] EXCEPT !.step = "sync", !.inbound = FALSE]]
    BY <1>10, RequestAfter
  <2> QED
    BY <1>0, <1>10, <2>1 DEF LastSync, At, Request
<1>11. CASE Fault(w)
  BY <1>1, <1>11 DEF Fault, At
<1> QED
  BY <1>3, <1>4, <1>5, <1>6, <1>7, <1>8, <1>9, <1>10, <1>11

LEMMA ApplyOnly ==
  ASSUME TypeInv, NEW w \in Worker, NEW edit \in Edit, ApplyLarkInboundAppointments(w, edit)
  PROVE  /\ \A v \in Worker : v # w => req'[v] = req[v]
         /\ edit # NoEdit /\ req[w].step = "idle"
         /\ \E l \in Seq(Time), b \in BOOLEAN :
              /\ Len(l) <= Len(Loaded)
              /\ req'[w] = Applied(req[w], edit, l, Loaded, b)
         /\ req'[w].edit = edit /\ req'[w].was = Loaded /\ req'[w].step = "wipe"
<1>0. req \in [Worker -> Request] /\ req[w] \in Request
  BY TypeParts
<1>1. PICK n \in DOMAIN edit : Touched(edit[n])
  BY DEF ApplyLarkInboundAppointments
<1>2. n \in 1..maxAppointmentsPerType
  BY DEF Edit
<1>3. ~Touched(NoEdit[n])
  BY <1>2 DEF Touched, NoEdit
<1>4. PICK l \in Seq(Time), b \in BOOLEAN :
        /\ Len(l) <= Len(Loaded)
        /\ req' = [req EXCEPT ![w] = Applied(req[w], edit, l, Loaded, b)]
  BY ApplyLoads
<1>5. PICK q : q = Applied(req[w], edit, l, Loaded, b)
  OBVIOUS
<1>6. req[w].step = "idle"
  BY DEF ApplyLarkInboundAppointments, At
<1>7. q.edit = edit /\ q.was = Loaded /\ q.step = "wipe"
  BY <1>0, <1>5 DEF Request, Applied
<1>8. req'[w] = q /\ \A v \in Worker : v # w => req'[v] = req[v]
  BY <1>0, <1>4, <1>5
<1> QED
  BY <1>1, <1>3, <1>4, <1>5, <1>6, <1>7, <1>8

LEMMA MirrorStep ==
  ASSUME MirrorInv, [MirrorNext]_allVars
  PROVE  MirrorInv'
<1>0. /\ TypeInv /\ legacy \in Time \cup {NoDate} /\ RowsOK
      /\ req \in [Worker -> Request] /\ \A w \in Worker : req[w] \in Request
      /\ column \in [Column -> Time \cup {NoDate}] /\ muted \in BOOLEAN
      /\ pending \in SUBSET {"app", "lark"}
      /\ push \in [Worker -> Push] /\ fetched \in [Worker -> Fetch]
      /\ \A w \in Worker : PushOK(push[w]) /\ OneThing(req[w], push[w], fetched[w])
  BY TypeParts DEF MirrorInv
<1>1. TypeInv' /\ req' \in [Worker -> Request]
  <2>1. TypeInv'
    BY <1>0, MirrorTakesSteps, TypeStep
  <2> QED
    BY <2>1 DEF TypeInv, TypeOK
<1> DEFINE ColumnsOK == column \in [Column -> Time \cup {NoDate}] /\ muted \in BOOLEAN
                        /\ pending \in SUBSET {"app", "lark"}
\* It is enough to look at the goroutine that has taken the step.
<1>2. ASSUME NEW w \in Worker, ColumnsOK',
             \A v \in Worker : v # w => req'[v] = req[v],
             NEW p \in Push, push' = [push EXCEPT ![w] = p] \/ (push' = push /\ p = push[w]), PushOK(p),
             NEW f \in Fetch, fetched' = [fetched EXCEPT ![w] = f] \/ (fetched' = fetched /\ f = fetched[w]),
             OneThing(req'[w], p, f)
      PROVE  MirrorInv'
  <2>1. push' \in [Worker -> Push] /\ push'[w] = p /\ \A v \in Worker : v # w => push'[v] = push[v]
    BY <1>0, <1>2
  <2>2. fetched' \in [Worker -> Fetch] /\ fetched'[w] = f
        /\ \A v \in Worker : v # w => fetched'[v] = fetched[v]
    BY <1>0, <1>2
  <2>3. \A v \in Worker : PushOK(push'[v]) /\ OneThing(req'[v], push'[v], fetched'[v])
    BY <1>0, <1>2, <2>1, <2>2
  <2> QED
    BY <1>1, <1>2, <2>1, <2>2, <2>3 DEF MirrorInv
<1>3. ASSUME ColumnsOK', UNCHANGED <<req, push, fetched>>
      PROVE  MirrorInv'
  BY <1>0, <1>1, <1>3 DEF MirrorInv
<1>4. CASE UNCHANGED allVars
  BY <1>0, <1>3, <1>4 DEF allVars, vars, mirrorVars
<1>6. CASE EditInLark
  BY <1>0, <1>3, <1>6 DEF EditInLark, vars
<1>7. CASE ClearInLark
  BY <1>0, <1>3, <1>7 DEF ClearInLark, vars
<1>8. CASE FortyFiveSecondsPass
  BY <1>0, <1>3, <1>8 DEF FortyFiveSecondsPass, vars
<1>9. ASSUME NEW w \in Worker, StartRequest(w)
      PROVE  MirrorInv'
  <2>1. /\ \A v \in Worker : v # w => req'[v] = req[v]
        /\ req'[w].edit = req[w].edit /\ req'[w].inbound = req[w].inbound
    BY <1>0, <1>9, StartOnly DEF StartRequest
  <2>2. push[w] = NoPush /\ ~fetched[w].busy
    BY <1>9 DEF StartRequest, Free
  <2>3. OneThing(req'[w], push[w], fetched[w])
    BY <1>0, <2>1, <2>2 DEF OneThing
  <2> QED
    BY <1>0, <1>2, <1>9, <2>1, <2>3 DEF StartRequest, mirrorVars
<1>10. ASSUME NEW w \in Worker, ContinueRequest(w)
       PROVE  MirrorInv'
  <2>1. /\ \A v \in Worker : v # w => req'[v] = req[v]
        /\ req[w].step # "idle"
        /\ \/ req'[w] = Idle
           \/ req'[w].edit = req[w].edit /\ (req'[w].inbound => req[w].inbound)
    BY <1>0, <1>10, ContinueOnly DEF ContinueRequest
  <2>2. OneThing(req'[w], push[w], fetched[w])
    BY <1>0, <2>1 DEF OneThing, Idle
  <2> QED
    BY <1>0, <1>2, <1>10, <2>1, <2>2 DEF ContinueRequest, mirrorVars
<1>11. ASSUME NEW w \in Worker, SyncWrite(w), ~req[w].inbound
       PROVE  req'[w] = Idle /\ \A v \in Worker : v # w => req'[v] = req[v]
  BY <1>0, <1>11 DEF SyncWrite, Finish
<1>12. ASSUME NEW w \in Worker, Respond(w)
       PROVE  MirrorInv'
  <2>1. req[w].step # "idle" /\ req[w].edit = NoEdit /\ SyncWrite(w)
    BY <1>12 DEF Respond, SyncWrite, At, IsPull
  <2>2. push[w] = NoPush /\ ~fetched[w].busy /\ ~req[w].inbound
    BY <1>0, <2>1 DEF OneThing
  <2>3. req'[w] = Idle /\ \A v \in Worker : v # w => req'[v] = req[v]
    BY <1>11, <2>1, <2>2
  <2>4. PICK p : p = [push[w] EXCEPT !.step = "check"]
    OBVIOUS
  <2>5. p \in Push /\ PushOK(p)
    BY <2>2, <2>4, NothingIsTyped DEF Push, PushOK, NoPush
  <2>6. OneThing(req'[w], p, fetched[w])
    BY <2>2, <2>3 DEF OneThing, Idle
  <2>7. push' = [push EXCEPT ![w] = p] /\ UNCHANGED <<column, fetched, muted, pending>>
    BY <1>12, <2>4 DEF Respond
  <2> QED
    BY <1>0, <1>2, <2>3, <2>5, <2>6, <2>7
<1>13. ASSUME NEW w \in Worker, PushAnyway(w)
       PROVE  MirrorInv'
  <2>1. req[w].step = "idle" /\ push[w] = NoPush /\ ~fetched[w].busy /\ req' = req
    BY <1>13 DEF PushAnyway, Free, At, vars
  <2>2. PICK p : p = [push[w] EXCEPT !.step = "check"]
    OBVIOUS
  <2>3. p \in Push /\ PushOK(p)
    BY <2>1, <2>2, NothingIsTyped DEF Push, PushOK, NoPush
  <2>4. OneThing(req'[w], p, fetched[w])
    BY <1>0, <2>1 DEF OneThing
  <2>5. push' = [push EXCEPT ![w] = p] /\ UNCHANGED <<column, fetched, muted, pending>>
    BY <1>13, <2>2 DEF PushAnyway
  <2> QED
    BY <1>0, <1>2, <2>1, <2>3, <2>4, <2>5
<1>26. ASSUME NEW w \in Worker, AnswerStatus(w)
       PROVE  MirrorInv'
  <2>1. req[w].step = "idle" /\ push[w] = NoPush /\ ~fetched[w].busy /\ req' = req
    BY <1>26 DEF AnswerStatus, UpdateProjectStatus, Free, At
  <2>2. PICK p : p = [push[w] EXCEPT !.step = "check"]
    OBVIOUS
  <2>3. p \in Push /\ PushOK(p)
    BY <2>1, <2>2, NothingIsTyped DEF Push, PushOK, NoPush
  <2>4. OneThing(req'[w], p, fetched[w])
    BY <1>0, <2>1 DEF OneThing
  <2>5. push' = [push EXCEPT ![w] = p] /\ UNCHANGED <<column, fetched, muted, pending>>
    BY <1>26, <2>2 DEF AnswerStatus
  <2> QED
    BY <1>0, <1>2, <2>1, <2>3, <2>4, <2>5
\* While a goroutine has a push to make it does nothing else.
<1>14. ASSUME NEW w \in Worker, push[w].step # "none", NEW p \in Push, PushOK(p),
              push' = [push EXCEPT ![w] = p], UNCHANGED <<req, fetched>>, ColumnsOK'
       PROVE  MirrorInv'
  <2>1. push[w] # NoPush
    BY <1>14 DEF NoPush
  <2>2. OneThing(req'[w], p, fetched[w])
    BY <1>0, <1>14, <2>1 DEF OneThing
  <2> QED
    BY <1>0, <1>2, <1>14, <2>2
<1>15. ASSUME NEW w \in Worker, SkipPush(w)
       PROVE  MirrorInv'
  BY <1>0, <1>14, <1>15, NothingIsTyped DEF SkipPush, vars
<1>27. ASSUME NEW w \in Worker, PushFails(w)
       PROVE  MirrorInv'
  BY <1>0, <1>14, <1>27, NothingIsTyped DEF PushFails, vars
<1>28. ASSUME NEW w \in Worker, LoadSlotsBlind(w)
       PROVE  MirrorInv'
  <2>1. PICK s \in CutShort : push' = [push EXCEPT ![w] = [step |-> "write", slots |-> s, left |-> Column]]
    BY <1>28 DEF LoadSlotsBlind
  <2>2. PICK p : p = [step |-> "write", slots |-> s, left |-> Column]
    OBVIOUS
  <2>3. s \in Seq(Time)
    BY <1>0, CutShortTyped
  <2>4. p \in Push /\ PushOK(p)
    BY <2>2, <2>3 DEF Push, PushOK, Column
  <2>5. push' = [push EXCEPT ![w] = p] /\ push[w].step = "check"
    BY <1>28, <2>1, <2>2 DEF LoadSlotsBlind
  <2> QED
    BY <1>0, <1>14, <1>28, <2>4, <2>5 DEF LoadSlotsBlind, vars
<1>16. ASSUME NEW w \in Worker, LoadSlots(w)
       PROVE  MirrorInv'
  <2>1. PICK s \in Seq(Time) : s = Loaded
    BY <1>0, LoadedIsRows
  <2>2. PICK p : p = [step |-> "write", slots |-> s, left |-> Column]
    OBVIOUS
  <2>3. p \in Push /\ PushOK(p)
    BY <2>2 DEF Push, PushOK, Column
  <2>4. push' = [push EXCEPT ![w] = p] /\ push[w].step = "check"
    BY <1>16, <2>1, <2>2 DEF LoadSlots
  <2> QED
    BY <1>0, <1>14, <1>16, <2>3, <2>4 DEF LoadSlots, vars
<1>17. ASSUME NEW w \in Worker, NEW n \in Column, push[w].step = "write", n \in push[w].left,
              push' = Unwritten(w, n), UNCHANGED <<req, fetched>>, ColumnsOK'
       PROVE  MirrorInv'
  <2>1. CASE push[w].left = {n}
    BY <1>14, <1>17, <2>1, NothingIsTyped DEF Unwritten
  <2>2. CASE push[w].left # {n}
    <3>1. PICK p : p = [push[w] EXCEPT !.left = @ \ {n}]
      OBVIOUS
    <3>2. push[w] \in Push
      BY <1>0
    <3>3. p.step = "write" /\ p.left = push[w].left \ {n} /\ p \in Push
      BY <1>17, <3>1, <3>2 DEF Push
    <3>4. PushOK(p)
      BY <1>17, <2>2, <3>3 DEF PushOK
    <3>5. push' = [push EXCEPT ![w] = p]
      BY <1>17, <2>2, <3>1 DEF Unwritten
    <3> QED
      BY <1>14, <1>17, <3>3, <3>4, <3>5
  <2> QED
    BY <2>1, <2>2
<1>18. ASSUME NEW w \in Worker, NEW n \in Column, WriteColumn(w, n)
       PROVE  MirrorInv'
  <2>1. push[w].slots \in Seq(Time)
    BY <1>0 DEF Push
  <2>2. SlotOf(push[w].slots, n) \in Time \cup {NoDate}
    BY <2>1, SlotOfTyped
  <2>3. column' \in [Column -> Time \cup {NoDate}]
    BY <1>0, <1>18, <2>2 DEF WriteColumn
  <2> QED
    BY <1>0, <1>17, <1>18, <2>3 DEF WriteColumn, vars
<1>19. ASSUME NEW w \in Worker, NEW n \in Column, WriteFails(w, n)
       PROVE  MirrorInv'
  BY <1>0, <1>17, <1>19 DEF WriteFails, vars
<1>20. ASSUME NEW w \in Worker, PullLarkRecordInbound(w)
       PROVE  MirrorInv'
  <2>1. req[w].step = "idle" /\ push[w] = NoPush /\ req' = req
    BY <1>20 DEF PullLarkRecordInbound, Free, At, vars
  <2>2. PICK f : f = [edit |-> RecordInLark, pending |-> pending, busy |-> TRUE]
    OBVIOUS
  <2>3. f \in Fetch
    BY <1>0, <2>2, RecordIsEdit DEF Fetch
  <2>4. OneThing(req'[w], push[w], f)
    BY <1>0, <2>1 DEF OneThing
  <2>5. fetched' = [fetched EXCEPT ![w] = f] /\ UNCHANGED <<column, push, muted, pending>>
    BY <1>20, <2>2 DEF PullLarkRecordInbound
  <2> QED
    BY <1>0, <1>2, <2>1, <2>3, <2>4, <2>5
<1>21. ASSUME NEW w \in Worker, ApplyFetched(w)
       PROVE  MirrorInv'
  <2>1. fetched[w].edit \in Edit /\ ApplyLarkInboundAppointments(w, fetched[w].edit)
    BY <1>0, <1>21 DEF ApplyFetched, Fetch
  <2>2. /\ \A v \in Worker : v # w => req'[v] = req[v]
        /\ fetched[w].edit # NoEdit /\ req'[w].edit = fetched[w].edit
    BY <1>0, <2>1, ApplyOnly
  <2>3. fetched[w].busy
    BY <1>21 DEF ApplyFetched
  <2>4. OneThing(req'[w], push[w], fetched[w])
    BY <1>0, <2>2, <2>3 DEF OneThing
  <2> QED
    BY <1>0, <1>2, <1>21, <2>2, <2>4 DEF ApplyFetched
\* The end of a pull, whether it went well or not.
<1>22. ASSUME NEW w \in Worker, req'[w] = Idle \/ (req' = req /\ req[w].step = "idle"),
              \A v \in Worker : v # w => req'[v] = req[v],
              fetched' = [fetched EXCEPT ![w] = NoFetch], UNCHANGED push, ColumnsOK'
       PROVE  MirrorInv'
  <2>1. OneThing(req'[w], push[w], NoFetch)
    BY <1>0, <1>22 DEF OneThing, NoFetch, Idle
  <2> QED
    BY <1>0, <1>2, <1>22, <2>1, NothingIsTyped
<1>23. ASSUME NEW w \in Worker, NothingFetched(w)
       PROVE  MirrorInv'
  BY <1>0, <1>22, <1>23 DEF NothingFetched, At, vars
<1>24. ASSUME NEW w \in Worker, EndPull(w)
       PROVE  MirrorInv'
  BY <1>0, <1>11, <1>22, <1>24 DEF EndPull
<1>25. ASSUME NEW w \in Worker, RequestFails(w)
       PROVE  MirrorInv'
  <2>1. req'[w] = Idle /\ \A v \in Worker : v # w => req'[v] = req[v]
    BY <1>0, <1>25 DEF RequestFails, Fault, Finish
  <2> QED
    BY <1>0, <1>22, <1>25, <2>1 DEF RequestFails
<1> QED
  BY <1>4, <1>6, <1>7, <1>8, <1>9, <1>10, <1>12, <1>13, <1>15, <1>16, <1>18, <1>19, <1>20,
     <1>21, <1>23, <1>24, <1>25, <1>26, <1>27, <1>28 DEF MirrorNext

-----------------------------------------------------------------------------
LEMMA Initially == Init => TypeInv /\ RoomInv /\ KeepInv
<1> SUFFICES ASSUME Init
             PROVE  TypeInv /\ RoomInv /\ KeepInv
  OBVIOUS
<1>1. Rows = {} /\ date \in [Id -> Time \cup {NoDate}]
  BY DEF Init, Rows
<1>2. IsFiniteSet(Rows) /\ Cardinality(Rows) = 0
  BY <1>1, FS_EmptySet
<1>3. RowsOK
  BY <1>1, <1>2 DEF RowsOK
<1>4. \A w \in Worker : req[w] = Idle
  BY DEF Init
<1>5. req \in [Worker -> Request]
  BY IdleIsRequest DEF Init
<1>6. TypeInv
  BY <1>3, <1>4, <1>5, IdleIsRequest, TypeParts DEF Init
<1>7. RoomInv
  BY <1>4, RoomForIdle DEF RoomInv
<1>8. KeepInv
  BY <1>4, KeepsIdle DEF KeepInv
<1> QED
  BY <1>6, <1>7, <1>8

LEMMA MirrorInitially == MirrorInit => MirrorInv
<1> SUFFICES ASSUME MirrorInit
             PROVE  MirrorInv
  OBVIOUS
<1>1. TypeInv /\ \A w \in Worker : req[w] = Idle
  BY Initially DEF MirrorInit, Init
<1>2. \A w \in Worker : push[w] = NoPush /\ fetched[w] = NoFetch
  BY DEF MirrorInit
<1>3. push \in [Worker -> Push] /\ fetched \in [Worker -> Fetch]
  BY NothingIsTyped DEF MirrorInit
<1>4. OneThing(Idle, NoPush, NoFetch)
  BY DEF OneThing, Idle, NoFetch
<1> QED
  BY <1>1, <1>2, <1>3, <1>4, NothingIsTyped DEF MirrorInv, MirrorInit

LEMMA NextTakesSteps == [Next]_vars => [AppStep]_vars
  BY DEF Next, AppStep, Act

LEMMA MirrorAlways == MirrorSpec => []MirrorInv /\ [][AppStep]_vars
<1>1. MirrorInv /\ [MirrorNext]_allVars => MirrorInv'
  BY MirrorStep
<1>2. MirrorInv /\ [MirrorNext]_allVars => [AppStep]_vars
  BY MirrorTakesSteps
<1> QED
  BY <1>1, <1>2, MirrorInitially, PTL DEF MirrorSpec

\* The invariants of one worker, kept by whichever module takes the steps.
SerialInv == TypeInv /\ RoomInv /\ KeepInv

LEMMA SerialStep ==
  ASSUME OneWorker
  PROVE  SerialInv /\ [AppStep]_vars => SerialInv'
  BY TypeStep, RoomStep, KeepStep DEF SerialInv

LEMMA SerialAlways ==
  ASSUME OneWorker
  PROVE  Init /\ [][AppStep]_vars => []SerialInv
<1>1. Init => SerialInv
  BY Initially DEF SerialInv
<1>2. SerialInv /\ [AppStep]_vars => SerialInv'
  BY SerialStep
<1> QED
  BY <1>1, <1>2, PTL

LEMMA BothTakeSteps ==
  /\ Spec => Init /\ [][AppStep]_vars
  /\ MirrorSpec => Init /\ [][AppStep]_vars
<1>1. [Next]_vars => [AppStep]_vars
  BY NextTakesSteps
<1>2. Spec => Init /\ [][AppStep]_vars
  BY <1>1, PTL DEF Spec
<1>3. MirrorInit => Init
  BY DEF MirrorInit
<1>4. MirrorSpec => Init /\ [][AppStep]_vars
  BY <1>3, MirrorAlways, PTL DEF MirrorSpec
<1> QED
  BY <1>2, <1>4

\* The rows, the legacy columns, the columns in Lark and every goroutine keep their types,
\* and each statement has the arguments it writes, for any number of goroutines
\* (appointments.go, lark_inbound_appts.go, lark_extras.go).
THEOREM TypeCorrect == (Spec => []TypeOK) /\ (MirrorSpec => []MirrorTypeOK)
<1>1. Init => TypeInv
  BY Initially
<1>2. TypeInv /\ [AppStep]_vars => TypeInv'
  BY TypeStep
<1>3. TypeInv => TypeOK
  BY DEF TypeInv
<1>4. MirrorInv => MirrorTypeOK
  BY MirrorInvTyped
<1>5. Spec => []TypeOK
  BY <1>1, <1>2, <1>3, BothTakeSteps, PTL
<1>6. MirrorSpec => []MirrorTypeOK
  BY <1>4, MirrorAlways, PTL
<1> QED
  BY <1>5, <1>6

\* With one request at a time nobody adds a row to a full type but a status request,
\* whatever the handlers, the inbound edits and their failures do: the count of
\* CreateProjectAppointment is still right when the row is inserted, and an inbound edit
\* inserts at most a row per column set (appointments.go:180, lark_inbound_appts.go:162).
THEOREM RowsWithinMax ==
  ASSUME OneWorker
  PROVE  (Spec => LimitKept) /\ (MirrorSpec => LimitKept)
<1> DEFINE Kept == AtMostMax' \/ Cardinality(Rows') <= Cardinality(Rows)
                     \/ \E w \in Worker : InsertDated(w)
<1>1. ASSUME SerialInv, [AppStep]_vars
      PROVE  [Kept]_vars
  <2> SUFFICES ASSUME NEW w \in Worker, Act(w), ~InsertDated(w)
               PROVE  AtMostMax' \/ Cardinality(Rows') <= Cardinality(Rows)
    BY <1>1 DEF AppStep
  <2> DEFINE k == Cardinality(Rows)
  <2>0. /\ TypeInv /\ RowsOK /\ ArgOK(req[w]) /\ req[w] \in Request /\ RoomFor(req[w], k)
        /\ k \in Nat /\ maxAppointmentsPerType \in Nat
    BY <1>1, TypeParts, FS_CardinalityType, LimitAssumption DEF SerialInv, RoomInv, RowsOK
  <2>1. CASE date' = date
    BY <2>0, <2>1, SameRows
  <2>2. CASE InsertAppointment(w)
    <3>1. Cardinality(Rows') = k + 1
      BY <2>0, <2>2, InsertRow DEF InsertAppointment, At, ArgOK
    <3>2. k < maxAppointmentsPerType
      BY <2>0, <2>2 DEF InsertAppointment, At, RoomFor
    <3> QED
      BY <2>0, <3>1, <3>2 DEF AtMostMax
  <2>3. CASE DeleteAppointmentRow(w) /\ req[w].arg \in Rows
    <3>1. Cardinality(Rows') = k - 1
      BY <2>0, <2>3, DeleteRow DEF DeleteAppointmentRow
    <3> QED
      BY <2>0, <3>1
  <2>4. CASE DeleteAllAppointmentsOfType(w)
    <3>1. Cardinality(Rows') = 0
      BY <2>4, DeleteRows DEF DeleteAllAppointmentsOfType
    <3> QED
      BY <2>0, <3>1
  <2>5. CASE InsertSlot(w)
    <3>1. req[w].plan # <<>> /\ req[w].step = "insertSlot" /\ req[w].plan \in Seq(Time)
      BY <2>0, <2>5 DEF InsertSlot, At, Request
    <3>2. Len(req[w].plan) + k <= maxAppointmentsPerType
      BY <2>0, <3>1 DEF RoomFor
    <3>3. Head(req[w].plan) \in Time /\ Len(req[w].plan) \in Nat /\ Len(req[w].plan) >= 1
      BY <3>1, HeadAndTail
    <3>4. Cardinality(Rows') = k + 1
      BY <2>0, <2>5, <3>3, InsertRow DEF InsertSlot
    <3> QED
      BY <2>0, <3>2, <3>3, <3>4 DEF AtMostMax
  <2> QED
    BY <2>1, <2>2, <2>3, <2>4, <2>5 DEF Act, CreateProjectAppointment, DeleteProjectAppointment,
       UpdateProjectStatus, MoveToPresent, DeleteAppointmentRow, SyncRead, SyncWrite,
       ApplyLarkInboundAppointments, ClearLegacy, LastSync, Fault
<1>2. [][Kept]_vars => LimitKept
  BY DEF LimitKept
<1> HIDE DEF Kept
<1>3. Init /\ [][AppStep]_vars => [][Kept]_vars
  BY <1>1, SerialAlways, PTL
<1> QED
  BY <1>2, <1>3, BothTakeSteps, PTL

\* With one request at a time an inbound edit that comes to its last sync has brought back
\* every appointment whose column set it did not touch, unless its load failed
\* (lark_inbound_appts.go:120, 162).
THEOREM UntouchedStay ==
  ASSUME OneWorker
  PROVE  (Spec => []UntouchedSurvive) /\ (MirrorSpec => []UntouchedSurvive)
<1>1. SerialInv => UntouchedSurvive
  <2> SUFFICES ASSUME SerialInv, NEW w \in Worker,
                      At(w, "syncWrite"), req[w].edit # NoEdit, ~req[w].inbound, ~req[w].blind,
                      NEW n \in DOMAIN req[w].edit \cap DOMAIN req[w].was,
                      ~Touched(req[w].edit[n])
               PROVE  req[w].was[n] \in Dates
    BY DEF UntouchedSurvive
  <2>1. Keeps(req[w], Dates) /\ RoomFor(req[w], Cardinality(Rows)) /\ req[w] \in Request
    BY TypeParts DEF SerialInv, KeepInv, RoomInv
  <2>2. req[w].plan = <<>> /\ req[w].step # "wipe"
    BY <2>1 DEF RoomFor, At
  <2>3. Ran(<<>>) = {}
    BY DEF Ran
  <2> QED
    BY <2>1, <2>2, <2>3 DEF Keeps
<1> QED
  BY <1>1, SerialAlways, BothTakeSteps, PTL

-----------------------------------------------------------------------------
\* The mirror, one goroutine at a time.
\* The appointments Lark has columns for.
Seen == Shown(Loaded)

LEMMA ShownList ==
  ASSUME NEW l \in Seq(Time)
  PROVE  /\ Shown(l) \in Seq(Time)
         /\ Len(Shown(l)) <= Len(l) /\ Len(Shown(l)) <= maxAppointmentsPerType
         /\ Len(l) <= maxAppointmentsPerType => Shown(l) = l
         /\ \A n \in 1..maxAppointmentsPerType :
              /\ n <= Len(Shown(l)) <=> n <= Len(l)
              /\ n <= Len(l) => Shown(l)[n] = l[n]
<1> DEFINE k == IF Len(l) < maxAppointmentsPerType THEN Len(l) ELSE maxAppointmentsPerType
<1>1. maxAppointmentsPerType \in Nat /\ Len(l) \in Nat
  BY LimitAssumption
<1>2. k \in 0..Len(l) /\ k <= Len(l) /\ k <= maxAppointmentsPerType
      /\ (Len(l) <= maxAppointmentsPerType => k = Len(l))
  BY <1>1
<1>3. \A n \in 1..maxAppointmentsPerType : (n <= k <=> n <= Len(l)) /\ (n <= k => n \in 1..k)
  BY <1>1
<1>4. Shown(l) = FirstOf(l, k)
  BY DEF Shown
<1> HIDE DEF k
<1>5. /\ Shown(l) \in Seq(Time) /\ Len(Shown(l)) = k
      /\ \A n \in 1..k : Shown(l)[n] = l[n]
  BY <1>2, <1>4, FirstOfList
<1>6. ASSUME k = Len(l)
      PROVE  Shown(l) = l
  <2>1. PICK m : m = Shown(l)
    OBVIOUS
  <2>2. m \in Seq(Time) /\ Len(m) = Len(l) /\ \A n \in 1..Len(l) : m[n] = l[n]
    BY <1>5, <1>6, <2>1
  <2>3. m = l
    BY <2>2
  <2> QED
    BY <2>1, <2>3
<1> QED
  BY <1>2, <1>3, <1>5, <1>6

\* The columns show these appointments and no others.
LEMMA SlotOfShown ==
  ASSUME NEW l \in Seq(Time), NEW n \in Column
  PROVE  SlotOf(Shown(l), n) = SlotOf(l, n)
<1> DEFINE m == IF n = 0 THEN 1 ELSE n
<1>1. m \in 1..maxAppointmentsPerType
  BY LimitAssumption DEF Column, ColumnSet
<1> HIDE DEF m
<1>2. Base(Shown(l), m) = Base(l, m)
  BY <1>1, ShownList DEF Base
<1> QED
  BY <1>2 DEF SlotOf, m

Columns == [n \in ColumnSet |-> ReadColumn(n)]
EditDates(edit) == [n \in ColumnSet |-> edit[n].date]

DatedIn(c) == {n \in ColumnSet : c[n] # NoDate}
\* The columns in use are the first ones.
Prefix(c) == \A n \in DatedIn(c) : \A k \in 1..(n - 1) : k \in DatedIn(c)
\* There is a date in the columns of as many appointments as the list has, ...
Covers(c, list) == \A n \in 1..Len(list) : n \in DatedIn(c)
\* ... or the columns have the very dates of the list.
Agree(c, list) == \A t \in Time : Times(list, t) = Times(c, t)

\* A record as a push or support leaves it: a column has a date or is absent.
IsRecord(edit) == \A n \in ColumnSet :
  (edit[n].column = "absent" /\ edit[n].date = NoDate) \/ (edit[n].column = "date" /\ edit[n].date \in Time)

\* A push writes the rows as they are, unless it owes Lark something.
PushAligned(p) ==
  /\ p.step = "write" /\ "app" \notin pending =>
       p.slots = Loaded /\ \A n \in Column \ p.left : column[n] = SlotOf(p.slots, n)
  /\ p.step # "write" /\ "app" \notin pending => Prefix(Columns)
\* With nothing under way, or a deletion that may find no row, the columns cover the rows
\* unless the app owes something, and are the rows if nobody does.
RestAligned(r, p, f) ==
  r.step \in {"idle", "delete"} /\ p = NoPush /\ ~f.busy =>
    /\ "app" \notin pending => Covers(Columns, Seen)
    /\ pending = {} => Agree(Columns, Seen)
\* What a pull has fetched was such a state of the columns.
FetchAligned(r, f) ==
  f.busy =>
    /\ IsRecord(f.edit)
    /\ f.pending \subseteq pending
    /\ pending = {} => f.edit = RecordInLark
    /\ "app" \notin f.pending => Prefix(EditDates(f.edit))
    /\ "app" \notin pending => DatedIn(EditDates(f.edit)) \subseteq DatedIn(Columns)
    /\ r.step = "idle" =>
         /\ "app" \notin f.pending => Covers(EditDates(f.edit), Seen)
         /\ f.pending = {} => Agree(EditDates(f.edit), Seen)
\* On its way the rows and what is left to insert add up to what was fetched.
PullAligned(r, f) ==
  r.step # "idle" /\ r.edit # NoEdit =>
    /\ f.busy /\ r.edit = f.edit
    /\ f.pending = {} => Agree(EditDates(f.edit), Shown(r.was))
    /\ "app" \notin f.pending =>
         IF r.step = "wipe"
         THEN /\ Covers(EditDates(f.edit), Seen)
              /\ Agree(EditDates(f.edit), r.plan)
              /\ Len(r.plan) = Cardinality(DatedIn(EditDates(f.edit)))
         ELSE /\ \A t \in Time :
                   Count(date, Rows, t) + Times(r.plan, t) = Times(EditDates(f.edit), t)
              /\ Cardinality(Rows) + Len(r.plan) = Cardinality(DatedIn(EditDates(f.edit)))
Aligned(w) ==
  /\ PushAligned(push[w])
  /\ RestAligned(req[w], push[w], fetched[w])
  /\ FetchAligned(req[w], fetched[w])
  /\ PullAligned(req[w], fetched[w])
AlignInv == \A w \in Worker : Aligned(w)

\* Only the dates count of a set of columns.
ColumnDates == [ColumnSet -> Time \cup {NoDate}]

\* The columns in use, if they are the first ones, are the first as many as they are.
LEMMA PrefixCount ==
  ASSUME NEW c \in ColumnDates
  PROVE  /\ IsFiniteSet(DatedIn(c)) /\ Cardinality(DatedIn(c)) \in Nat
         /\ Prefix(c) => \A n \in 1..Cardinality(DatedIn(c)) : n \in DatedIn(c)
<1> DEFINE D == DatedIn(c)
<1>1. IsFiniteSet(ColumnSet) /\ ColumnSet \subseteq Nat \ {0}
  BY LimitAssumption, FS_Interval DEF ColumnSet
<1>2. D \in SUBSET ColumnSet
  BY DEF DatedIn
<1>3. IsFiniteSet(D) /\ Cardinality(D) \in Nat
  BY <1>1, <1>2, FS_Subset, FS_CardinalityType
<1>4. ASSUME Prefix(c), NEW n \in 1..Cardinality(D), n \notin D
      PROVE  FALSE
  <2>0. n \in Nat /\ n >= 1 /\ n <= Cardinality(D)
    BY <1>3, <1>4
  <2>1. \A m \in D : m \in 1..(n - 1)
    <3> SUFFICES ASSUME NEW m \in D
                 PROVE  m \in 1..(n - 1)
      OBVIOUS
    <3>0. m \in ColumnSet
      BY <1>2
    <3>1. m \in Nat /\ m >= 1 /\ m # n
      <4>1. m \in Nat \ {0}
        BY <1>1, <3>0
      <4>2. m # n
        BY <1>4
      <4> QED
        BY <4>1, <4>2
    <3>2. \A i \in 1..(m - 1) : i \in D
      BY <1>4 DEF Prefix
    <3>3. ~(n \in 1..(m - 1))
      BY <1>4, <3>2
    <3> QED
      BY <2>0, <3>1, <3>3
  <2>2. D \in SUBSET (1..(n - 1))
    BY <2>1
  <2>3. IsFiniteSet(1..(n - 1)) /\ Cardinality(1..(n - 1)) = n - 1
    BY <2>0, FS_Interval
  <2>4. Cardinality(D) <= n - 1
    BY <2>2, <2>3, FS_Subset
  <2> QED
    BY <1>3, <2>0, <2>4
<1> QED
  BY <1>3, <1>4

LEMMA SameFunction ==
  ASSUME NEW A, NEW B, NEW f \in [A -> B], NEW g \in [A -> B], \A n \in A : f[n] = g[n]
  PROVE  f = g
  OBVIOUS

LEMMA ColumnsTyped ==
  ASSUME column \in [Column -> Time \cup {NoDate}]
  PROVE  /\ Columns \in ColumnDates /\ EditDates(RecordInLark) = Columns
         /\ IsRecord(RecordInLark)
<1>1. ASSUME NEW n \in ColumnSet
      PROVE  ReadColumn(n) \in Time \cup {NoDate}
  BY LimitAssumption DEF ReadColumn, Column, ColumnSet
<1> QED
  BY <1>1 DEF Columns, ColumnDates, EditDates, RecordInLark, IsRecord

LEMMA EditDatesTyped ==
  ASSUME NEW edit \in Edit
  PROVE  EditDates(edit) \in ColumnDates
<1>1. ASSUME NEW n \in ColumnSet
      PROVE  edit[n].date \in Time \cup {NoDate}
  <2>1. edit[n] \in Slot
    BY DEF Edit, ColumnSet
  <2> QED
    BY <2>1 DEF Slot
<1> QED
  BY <1>1 DEF EditDates, ColumnDates

\* A record that has a column to merge has a date.
LEMMA RecordHasDate ==
  ASSUME NEW edit \in Edit, IsRecord(edit), edit # NoEdit
  PROVE  DatedIn(EditDates(edit)) # {}
<1> SUFFICES ASSUME DatedIn(EditDates(edit)) = {}
             PROVE  edit = NoEdit
  OBVIOUS
<1>1. ASSUME NEW n \in ColumnSet
      PROVE  edit[n] = [column |-> "absent", date |-> NoDate]
  <2>1. edit[n] \in Slot
    BY DEF Edit, ColumnSet
  <2>2. edit[n].date = NoDate
    BY DEF DatedIn, EditDates
  <2>3. edit[n].column = "absent"
    BY <2>2, TimeAssumption DEF IsRecord
  <2> QED
    BY <2>1, <2>2, <2>3 DEF Slot
<1>2. edit \in [ColumnSet -> Slot] /\ NoEdit = [n \in ColumnSet |-> [column |-> "absent", date |-> NoDate]]
  BY DEF Edit, NoEdit, ColumnSet
<1> QED
  BY <1>1, <1>2

\* Merged into appointments it covers, a record leaves its own dates.
LEMMA MergeCovered ==
  ASSUME NEW existing \in Seq(Time), NEW edit \in Edit, IsRecord(edit),
         Covers(EditDates(edit), Shown(existing))
  PROVE  /\ Agree(EditDates(edit), Merge(existing, edit))
         /\ Len(Merge(existing, edit)) = Cardinality(DatedIn(EditDates(edit)))
<1> DEFINE E == EditDates(edit)
           slots == [n \in 1..maxAppointmentsPerType |->
                       IF Touched(edit[n]) /\ HasTime(edit[n].date) THEN edit[n].date
                       ELSE Base(existing, n)]
<1>1. E \in [1..maxAppointmentsPerType -> Time \cup {NoDate}]
  BY EditDatesTyped DEF ColumnDates, ColumnSet
<1>2. ASSUME NEW n \in 1..maxAppointmentsPerType
      PROVE  slots[n] = E[n]
  <2>0. n \in ColumnSet /\ E[n] = edit[n].date
    BY DEF ColumnSet, EditDates
  <2>1. CASE edit[n].column = "date" /\ edit[n].date \in Time
    BY <2>0, <2>1, TimeAssumption DEF Touched, HasTime
  <2>2. CASE edit[n].column = "absent" /\ edit[n].date = NoDate
    <3>1. n \notin DatedIn(E)
      BY <2>0, <2>2 DEF DatedIn
    <3>2. ~(n <= Len(Shown(existing)))
      BY <2>0, <3>1, LimitAssumption, ShownList DEF Covers
    <3>3. ~(n <= Len(existing))
      BY <3>2, ShownList
    <3> QED
      BY <2>0, <2>2, <3>3 DEF Touched, Base
  <2> QED
    BY <2>0, <2>1, <2>2 DEF IsRecord
<1>3. slots = E
  <2>1. slots \in [1..maxAppointmentsPerType -> Time \cup {NoDate}]
    BY MergeSlots
  <2> DEFINE A == 1..maxAppointmentsPerType
             B == Time \cup {NoDate}
  <2>2. slots \in [A -> B] /\ E \in [A -> B] /\ \A n \in A : slots[n] = E[n]
    <3> HIDE DEF slots, E
    <3> QED
      BY <1>1, <1>2, <2>1
  <2> HIDE DEF slots, E, A, B
  <2> QED
    BY <2>2, SameFunction
<1>4. Merge(existing, edit) = Filled(E)
  BY <1>3 DEF Merge
<1>5. {n \in 1..maxAppointmentsPerType : HasTime(E[n])} = DatedIn(E)
  BY DEF DatedIn, ColumnSet, HasTime
<1>6. maxAppointmentsPerType \in Nat
  BY LimitAssumption
<1> HIDE DEF E
<1>7. /\ Len(Filled(E)) = Cardinality({n \in 1..maxAppointmentsPerType : HasTime(E[n])})
      /\ \A t \in Time : Times(Filled(E), t) = Times(E, t)
  BY <1>1, <1>6, FilledKeeps
<1> QED
  BY <1>4, <1>5, <1>7 DEF Agree, E

\* Taking the head off a list takes one occurrence of its value.
LEMMA TimesTail ==
  ASSUME NEW s \in Seq(Time), s # <<>>, NEW t
  PROVE  /\ Times(Tail(s), t) \in Nat
         /\ Times(s, t) = Times(Tail(s), t) + (IF Head(s) = t THEN 1 ELSE 0)
<1> DEFINE S == 2..Len(s)
           T == 1..Len(Tail(s))
           f == [n \in S |-> n - 1]
           A == {n \in S : s[n] = t}
           v == Tail(s)
<1>1. /\ Len(s) \in Nat /\ Len(s) >= 1 /\ Len(Tail(s)) = Len(s) - 1 /\ Tail(s) \in Seq(Time)
      /\ Head(s) = s[1] /\ DOMAIN s = 1..Len(s)
  OBVIOUS
<1>2. DOMAIN Tail(s) = T
  BY <1>1
<1>3. IsFiniteSet(S)
  BY <1>1, FS_Interval
<1>4. f \in Bijection(S, T)
  <2> DEFINE k == Len(s)
  <2>0. k \in Nat /\ S = 2..k /\ T = 1..(k - 1)
    BY <1>1
  <2> HIDE DEF k, S, T
  <2>1. f \in [S -> T]
    BY <2>0
  <2>2. \A m, n \in S : f[m] = f[n] => m = n
    BY <2>0
  <2>3. \A m \in T : m + 1 \in S /\ f[m + 1] = m
    BY <2>0
  <2>4. \A m \in T : \E n \in S : f[n] = m
    BY <2>3
  <2> HIDE DEF f
  <2> QED
    BY <2>1, <2>2, <2>4, Fun_IsBij
<1>5. \A n \in S : s[n] = v[f[n]]
  BY <1>1, HeadAndTail
<1>6. Count(s, S, t) = Count(v, T, t)
  <2> HIDE DEF S, T, f, v
  <2> QED
    BY <1>3, <1>4, <1>5, SameCount
<1>7. Times(Tail(s), t) = Cardinality(A)
  BY <1>2, <1>6 DEF Times, Count
<1>8. IsFiniteSet(A) /\ Cardinality(A) \in Nat
  <2>1. A \in SUBSET S
    OBVIOUS
  <2> QED
    BY <1>3, <2>1, FS_Subset, FS_CardinalityType
<1>9. 1 \notin A /\ 1..Len(s) = S \cup {1}
  BY <1>1
<1>10. {n \in DOMAIN s : s[n] = t} = IF s[1] = t THEN A \cup {1} ELSE A
  BY <1>1, <1>9
<1>11. Cardinality(A \cup {1}) = Cardinality(A) + 1
  BY <1>8, <1>9, FS_AddElement
<1>12. Times(s, t) = IF s[1] = t THEN Cardinality(A) + 1 ELSE Cardinality(A)
  <2>1. Times(s, t) = Cardinality({n \in DOMAIN s : s[n] = t})
    BY DEF Times
  <2> HIDE DEF A
  <2>2. CASE s[1] = t
    BY <1>10, <1>11, <2>1, <2>2
  <2>3. CASE s[1] # t
    BY <1>10, <2>1, <2>3
  <2> QED
    BY <2>2, <2>3
<1> HIDE DEF A
<1> QED
  BY <1>1, <1>7, <1>8, <1>12

\* A new row adds one occurrence of its date.
LEMMA CountInsert ==
  ASSUME NEW S, IsFiniteSet(S), NEW i, i \notin S, NEW d, NEW e,
         \A j \in S : e[j] = d[j], NEW t
  PROVE  /\ Count(d, S, t) \in Nat
         /\ Count(e, S \cup {i}, t) = Count(d, S, t) + (IF e[i] = t THEN 1 ELSE 0)
<1> DEFINE A == {j \in S : d[j] = t}
<1>1. IsFiniteSet(A) /\ Cardinality(A) \in Nat
  BY FS_Subset, FS_CardinalityType
<1>2. {j \in S \cup {i} : e[j] = t} = IF e[i] = t THEN A \cup {i} ELSE A
  OBVIOUS
<1>3. Cardinality(A \cup {i}) = Cardinality(A) + 1
  BY <1>1, FS_AddElement
<1> QED
  BY <1>1, <1>2, <1>3 DEF Count

LEMMA NoneCounted ==
  ASSUME NEW t
  PROVE  (\A d : Count(d, {}, t) = 0) /\ Times(<<>>, t) = 0
<1>1. \A d : {j \in {} : d[j] = t} = {}
  OBVIOUS
<1>2. {n \in DOMAIN <<>> : <<>>[n] = t} = {}
  OBVIOUS
<1> QED
  BY <1>1, <1>2, FS_EmptySet DEF Count, Times

LEMMA TimesIsNat ==
  ASSUME NEW s \in Seq(Time), NEW t
  PROVE  Times(s, t) \in Nat
<1>1. CASE s = <<>>
  BY <1>1, NoneCounted
<1>2. CASE s # <<>>
  BY <1>2, TimesTail
<1> QED
  BY <1>1, <1>2

\* A push that has written every column has made the columns the list.
LEMMA WrittenColumns ==
  ASSUME column' \in [Column -> Time \cup {NoDate}], NEW s \in Seq(Time),
         Len(s) <= maxAppointmentsPerType, \A n \in Column : column'[n] = SlotOf(s, n)
  PROVE  Prefix(Columns') /\ Covers(Columns', s) /\ Agree(Columns', s)
<1>0. PICK k \in Nat : k = Len(s) /\ k <= maxAppointmentsPerType
  OBVIOUS
<1>1. maxAppointmentsPerType \in Nat \ {0} /\ DOMAIN s = 1..k /\ \A n \in 1..k : s[n] \in Time
  BY <1>0, LimitAssumption
<1>2. ASSUME NEW n \in ColumnSet
      PROVE  Columns'[n] = IF n <= k THEN s[n] ELSE NoDate
  <2>1. n \in Column /\ n # 0 /\ 0 \in Column
    BY LimitAssumption DEF ColumnSet, Column
  <2>2. column'[n] = Base(s, n) /\ column'[0] = Base(s, 1)
    BY <2>1 DEF SlotOf
  <2>3. ReadColumn(n)' = Base(s, n)
    BY <2>2 DEF ReadColumn
  <2> QED
    BY <1>0, <2>3 DEF Columns, Base
<1>3. \A n \in ColumnSet : n \in DatedIn(Columns') <=> n <= k
  <2>1. ASSUME NEW n \in ColumnSet, n <= k
        PROVE  s[n] # NoDate
    <3>1. n \in 1..k
      BY <1>0, <1>1, <2>1 DEF ColumnSet
    <3>2. s[n] \in Time
      BY <1>1, <3>1
    <3> QED
      BY <3>2, TimeAssumption
  <2> QED
    BY <1>2, <2>1 DEF DatedIn
<1>4. Prefix(Columns')
  <2> SUFFICES ASSUME NEW n \in DatedIn(Columns'), NEW m \in 1..(n - 1)
               PROVE  m \in DatedIn(Columns')
    BY DEF Prefix
  <2>1. n \in ColumnSet /\ n <= k
    BY <1>3 DEF DatedIn
  <2>2. m \in ColumnSet /\ m <= k
    BY <1>0, <1>1, <2>1 DEF ColumnSet
  <2> QED
    BY <1>3, <2>2
<1>5. Covers(Columns', s)
  BY <1>0, <1>1, <1>3 DEF Covers, ColumnSet
<1>6. ASSUME NEW t \in Time
      PROVE  Times(s, t) = Times(Columns', t)
  <2>1. DOMAIN Columns' = ColumnSet
    BY DEF Columns
  <2>2. t # NoDate
    BY TimeAssumption
  <2>3. {n \in DOMAIN Columns' : Columns'[n] = t} = {n \in 1..k : s[n] = t}
    <3>1. \A n \in ColumnSet : Columns'[n] = t <=> n <= k /\ s[n] = t
      BY <1>2, <2>2
    <3>2. \A n : n \in 1..k <=> n \in ColumnSet /\ n <= k
      BY <1>0, <1>1 DEF ColumnSet
    <3> QED
      BY <2>1, <3>1, <3>2
  <2> QED
    BY <1>1, <2>3 DEF Times
<1> QED
  BY <1>4, <1>5, <1>6 DEF Agree

\* Support dates a column that is in use, or the first that is not.
LEMMA EditedColumns ==
  ASSUME column \in [Column -> Time \cup {NoDate}], "gaps" \notin Features, EditInLark
  PROVE  /\ DatedIn(Columns) \subseteq DatedIn(Columns')
         /\ Prefix(Columns) => Prefix(Columns')
<1>1. PICK n \in Column, t \in Time :
        /\ \A k \in 1..(n - 1) : ReadColumn(k) # NoDate
        /\ column' = [column EXCEPT ![n] = t]
  BY DEF EditInLark
<1>2. t # NoDate
  BY TimeAssumption
<1> DEFINE d == IF n = 0 THEN 1 ELSE n
<1>3. d \in ColumnSet
  BY LimitAssumption DEF Column, ColumnSet
<1>4. \A m \in Column : column'[m] = IF m = n THEN t ELSE column[m]
  BY <1>1
<1>5. \A m \in ColumnSet : ReadColumn(m)' # NoDate <=> m = d \/ ReadColumn(m) # NoDate
  <2> SUFFICES ASSUME NEW m \in ColumnSet
               PROVE  ReadColumn(m)' # NoDate <=> m = d \/ ReadColumn(m) # NoDate
    OBVIOUS
  <2>1. m \in Column /\ m # 0 /\ 0 \in Column /\ 1 \in Column
    BY LimitAssumption DEF ColumnSet, Column
  <2>2. ReadColumn(m)' = IF m = 1 /\ column'[1] = NoDate THEN column'[0] ELSE column'[m]
    BY DEF ReadColumn
  <2> QED
    BY <1>2, <1>4, <2>1, <2>2 DEF ReadColumn
<1>6. DatedIn(Columns') = DatedIn(Columns) \cup {d}
  <2>1. \A m \in ColumnSet : Columns'[m] = ReadColumn(m)' /\ Columns[m] = ReadColumn(m)
    BY DEF Columns
  <2> QED
    BY <1>3, <1>5, <2>1 DEF DatedIn
<1>7. ASSUME Prefix(Columns)
      PROVE  Prefix(Columns')
  <2> SUFFICES ASSUME NEW m \in DatedIn(Columns'), NEW k \in 1..(m - 1)
               PROVE  k \in DatedIn(Columns')
    BY DEF Prefix
  <2>1. CASE m \in DatedIn(Columns)
    BY <1>6, <1>7, <2>1 DEF Prefix
  <2>2. CASE m \notin DatedIn(Columns)
    <3>1. m = d /\ m # 1
      <4>1. m = d
        BY <1>6, <2>2
      <4>2. m # 1
        OBVIOUS
      <4> QED
        BY <4>1, <4>2
    <3>2. m = n
      BY <3>1
    <3>3. ReadColumn(k) # NoDate
      BY <1>1, <3>2
    <3>4. k \in ColumnSet
      BY <1>3, <3>1, LimitAssumption DEF ColumnSet
    <3> QED
      BY <1>6, <3>3, <3>4 DEF DatedIn, Columns
  <2> QED
    BY <2>1, <2>2
<1> QED
  BY <1>6, <1>7

\* What the steps below have to start from, of the goroutine that takes them.
LEMMA AlignParts ==
  ASSUME MirrorInv, RoomInv, AlignInv, NEW w \in Worker
  PROVE  /\ TypeInv /\ RowsOK /\ legacy \in Time \cup {NoDate}
         /\ column \in [Column -> Time \cup {NoDate}] /\ pending \in SUBSET {"app", "lark"}
         /\ req \in [Worker -> Request] /\ push \in [Worker -> Push] /\ fetched \in [Worker -> Fetch]
         /\ req[w] \in Request /\ PushOK(push[w]) /\ fetched[w] \in Fetch
         /\ OneThing(req[w], push[w], fetched[w]) /\ RoomFor(req[w], Cardinality(Rows))
         /\ PushAligned(push[w]) /\ RestAligned(req[w], push[w], fetched[w])
         /\ FetchAligned(req[w], fetched[w]) /\ PullAligned(req[w], fetched[w])
  BY TypeParts DEF MirrorInv, RoomInv, AlignInv, Aligned

LEMMA AlignWhole ==
  ASSUME OneWorker, NEW w \in Worker, Aligned(w)'
  PROVE  AlignInv'
  BY DEF OneWorker, AlignInv

LEMMA SameView ==
  /\ UNCHANGED <<date, legacy>> => Loaded' = Loaded /\ Seen' = Seen
  /\ UNCHANGED date => Rows' = Rows
  /\ UNCHANGED column => Columns' = Columns /\ RecordInLark' = RecordInLark
<1>1. UNCHANGED date => Rows' = Rows
  BY DEF Rows
<1>2. UNCHANGED <<date, legacy>> => Loaded' = Loaded /\ Seen' = Seen
  <2>1. UNCHANGED <<date, legacy>> => Loaded' = Loaded
    BY <1>1 DEF Loaded
  <2> QED
    BY <2>1 DEF Seen
<1>3. UNCHANGED column => Columns' = Columns /\ RecordInLark' = RecordInLark
  <2>1. UNCHANGED column => \A n : ReadColumn(n)' = ReadColumn(n)
    BY DEF ReadColumn
  <2> QED
    BY <2>1 DEF Columns, RecordInLark
<1> QED
  BY <1>1, <1>2, <1>3

\* A request of the app leaves the columns alone; until it answers it promises nothing.
LEMMA AlignRequest ==
  ASSUME MirrorInv, RoomInv, AlignInv, NEW w \in Worker, UNCHANGED mirrorVars,
         push[w] = NoPush, ~fetched[w].busy, req'[w].edit = NoEdit,
         req'[w].step \in {"idle", "delete"} =>
           req[w].step \in {"idle", "delete"} /\ UNCHANGED <<date, legacy>>
  PROVE  Aligned(w)'
<1>1. /\ push' = push /\ fetched' = fetched /\ pending' = pending
      /\ Columns' = Columns /\ column' = column
  BY SameView DEF mirrorVars
<1>2. push[w].step = "none"
  BY DEF NoPush
<1>3. PushAligned(push[w])'
  BY <1>1, <1>2, AlignParts DEF PushAligned
<1>4. RestAligned(req[w], push[w], fetched[w])'
  BY <1>1, AlignParts, SameView DEF RestAligned
<1>5. FetchAligned(req[w], fetched[w])'
  BY <1>1 DEF FetchAligned
<1>6. PullAligned(req[w], fetched[w])'
  BY DEF PullAligned
<1> QED
  BY <1>3, <1>4, <1>5, <1>6 DEF Aligned

\* A pull on its way keeps what it fetched and what it is going to insert.
LEMMA AlignPull ==
  ASSUME MirrorInv, RoomInv, AlignInv, NEW w \in Worker, UNCHANGED mirrorVars,
         req[w].step # "idle", req[w].edit # NoEdit,
         req'[w].edit = req[w].edit, req'[w].was = req[w].was,
         req'[w].step \notin {"idle", "delete", "wipe"},
         "app" \notin fetched[w].pending =>
           /\ \A t \in Time :
                Count(date', Rows', t) + Times(req'[w].plan, t) = Times(EditDates(fetched[w].edit), t)
           /\ Cardinality(Rows') + Len(req'[w].plan) = Cardinality(DatedIn(EditDates(fetched[w].edit)))
  PROVE  Aligned(w)'
<1>1. /\ push' = push /\ fetched' = fetched /\ pending' = pending
      /\ Columns' = Columns /\ column' = column /\ RecordInLark' = RecordInLark
  BY SameView DEF mirrorVars
<1>2. push[w] = NoPush /\ push[w].step = "none"
  BY AlignParts DEF NoPush, OneThing
<1>3. PushAligned(push[w])'
  BY <1>1, <1>2, AlignParts DEF PushAligned
<1>4. RestAligned(req[w], push[w], fetched[w])'
  BY DEF RestAligned
<1>5. FetchAligned(req[w], fetched[w])'
  BY <1>1, AlignParts DEF FetchAligned
<1>6. PullAligned(req[w], fetched[w])'
  BY <1>1, AlignParts DEF PullAligned
<1> QED
  BY <1>3, <1>4, <1>5, <1>6 DEF Aligned

\* A request under way stays so, but for a deletion that finds no row.
LEMMA GoesOn ==
  ASSUME TypeInv, NEW w \in Worker, ContinueRequest(w)
  PROVE  \/ req'[w].step \notin {"idle", "delete", "wipe"}
         \/ req[w].step = "delete" /\ UNCHANGED <<date, legacy>>
<1>0. req[w] \in Request /\ req \in [Worker -> Request]
  BY TypeParts
<1>1. \A s : GoTo(w, s) => req'[w].step = s
  BY <1>0 DEF GoTo, Request
<1>2. CASE InsertAppointment(w) \/ InsertDated(w) \/ DeleteAllAppointmentsOfType(w) \/ ClearLegacy(w)
  BY <1>1, <1>2 DEF InsertAppointment, InsertDated, DeleteAllAppointmentsOfType, ClearLegacy
<1>3. CASE DeleteAppointmentRow(w)
  <2>1. CASE req[w].arg \in Rows
    <3>1. req' = [req EXCEPT ![w] = [req[w] EXCEPT !.step = "sync", !.arg = NoDate]]
      BY <1>3, <2>1 DEF DeleteAppointmentRow
    <3>2. req'[w].step = "sync"
      BY <1>0, <3>1 DEF Request
    <3> QED
      BY <3>2
  <2>2. CASE req[w].arg \notin Rows
    BY <1>3, <2>2 DEF DeleteAppointmentRow, At
  <2> QED
    BY <2>1, <2>2
<1>4. CASE SyncRead(w)
  <2>1. PICK t : req' = [req EXCEPT ![w] = [req[w] EXCEPT !.step = "syncWrite", !.arg = t]]
    BY <1>4, RequestAfter
  <2>2. req'[w].step = "syncWrite"
    BY <1>0, <2>1 DEF Request
  <2> QED
    BY <2>2
<1>5. CASE InsertSlot(w)
  <2>1. PICK q : req' = [req EXCEPT ![w] = [req[w] EXCEPT !.step = "sync", !.plan = q]]
    BY <1>5, RequestAfter
  <2>2. req'[w].step = "sync"
    BY <1>0, <2>1 DEF Request
  <2> QED
    BY <2>2
<1>6. CASE LastSync(w)
  <2>1. req' = [req EXCEPT ![w] = [req[w] EXCEPT !.step = "sync", !.inbound = FALSE]]
    BY <1>6, RequestAfter
  <2>2. req'[w].step = "sync"
    BY <1>0, <2>1 DEF Request
  <2> QED
    BY <2>2
<1>7. CASE req[w].inbound /\ SyncWrite(w)
  BY <1>1, <1>7 DEF SyncWrite
<1> QED
  BY <1>2, <1>3, <1>4, <1>5, <1>6, <1>7 DEF ContinueRequest

LEMMA StartAligned ==
  ASSUME MirrorInv, RoomInv, AlignInv, NEW w \in Worker, StartRequest(w)
  PROVE  Aligned(w)'
<1>1. /\ CreateProjectAppointment(w) \/ DeleteProjectAppointment(w) \/ MoveToPresent(w)
      /\ push[w] = NoPush /\ ~fetched[w].busy /\ req[w].step = "idle" /\ UNCHANGED mirrorVars
  BY DEF StartRequest, Free, At
<1>2. req[w].edit = NoEdit
  BY <1>1, AlignParts DEF RoomFor, Idle
<1>3. req'[w].edit = NoEdit
  BY <1>1, <1>2, AlignParts, StartOnly
<1>4. req'[w].step \in {"idle", "delete"} => UNCHANGED <<date, legacy>>
  <2>1. CASE MoveToPresent(w)
    <3>0. req[w] \in Request /\ req \in [Worker -> Request] /\ TypeInv
      BY AlignParts
    <3>1. PICK t : req' = [req EXCEPT ![w] = [req[w] EXCEPT !.step = "insertDated", !.arg = t]]
      BY <2>1, <3>0, RequestAfter
    <3>2. req'[w].step = "insertDated"
      BY <3>0, <3>1 DEF Request
    <3> QED
      BY <3>2
  <2>2. CASE ~MoveToPresent(w)
    BY <1>1, <2>2 DEF CreateProjectAppointment, DeleteProjectAppointment
  <2> QED
    BY <2>1, <2>2
<1> QED
  BY <1>1, <1>3, <1>4, AlignRequest

LEMMA ContinueAligned ==
  ASSUME MirrorInv, RoomInv, AlignInv, NEW w \in Worker, ContinueRequest(w)
  PROVE  Aligned(w)'
<1> DEFINE r == req[w]
           E == EditDates(fetched[w].edit)
           k == Cardinality(Rows)
           kn == Cardinality(Rows')
<1>0. /\ TypeInv /\ RowsOK /\ r \in Request /\ req \in [Worker -> Request]
      /\ OneThing(r, push[w], fetched[w]) /\ RoomFor(r, k)
      /\ PullAligned(r, fetched[w])
  BY AlignParts
<1>1. UNCHANGED mirrorVars
  BY DEF ContinueRequest
<1>2. /\ r.step # "idle"
      /\ req'[w] = Idle \/ req'[w].edit = r.edit
  BY <1>0, ContinueOnly DEF ContinueRequest
<1>3. CASE r.edit = NoEdit
  <2>1. push[w] = NoPush /\ ~fetched[w].busy
    BY <1>0, <1>2, <1>3 DEF OneThing
  <2>2. req'[w].edit = NoEdit
    BY <1>2, <1>3 DEF Idle
  <2>3. req'[w].step \in {"idle", "delete"} => r.step = "delete" /\ UNCHANGED <<date, legacy>>
    BY <1>0, GoesOn
  <2> QED
    BY <1>1, <2>1, <2>2, <2>3, AlignRequest
<1>4. CASE r.edit # NoEdit
  <2> DEFINE Adds(plan) ==
        "app" \notin fetched[w].pending =>
          /\ \A t \in Time : Count(date', Rows', t) + Times(plan, t) = Times(E, t)
          /\ kn + Len(plan) = Cardinality(DatedIn(E))
  <2>a. ASSUME req'[w].edit = r.edit, req'[w].was = r.was, r.step # "delete", Adds(req'[w].plan)
        PROVE  Aligned(w)'
    <3>1. req'[w].step \notin {"idle", "delete", "wipe"}
      BY <1>0, <2>a, GoesOn
    <3> QED
      BY <1>1, <1>2, <1>4, <2>a, <3>1, AlignPull
  <2>b. r.step # "wipe" /\ UNCHANGED date => Adds(r.plan)
    BY <1>0, <1>2, <1>4, SameView DEF PullAligned
  <2>c. r.step \notin {"insert", "insertDated", "delete"}
    BY <1>0, <1>4 DEF RoomFor
  <2> HIDE DEF Adds
  <2>d. ASSUME NEW s, GoTo(w, s), Adds(r.plan)
        PROVE  Aligned(w)'
    <3>1. req'[w].edit = r.edit /\ req'[w].was = r.was /\ req'[w].plan = r.plan
      BY <1>0, <2>d DEF GoTo, Request
    <3> QED
      BY <2>a, <2>c, <2>d, <3>1
  <2>1. CASE SyncRead(w)
    <3>1. PICK t : req' = [req EXCEPT ![w] = [r EXCEPT !.step = "syncWrite", !.arg = t]]
      BY <2>1, RequestAfter, <1>0
    <3>2. req'[w].edit = r.edit /\ req'[w].was = r.was /\ req'[w].plan = r.plan
      BY <1>0, <3>1 DEF Request
    <3>3. Adds(r.plan)
      BY <2>1, <2>b DEF SyncRead, At
    <3> QED
      BY <2>a, <2>c, <3>2, <3>3
  <2>2. CASE DeleteAllAppointmentsOfType(w)
    <3>1. r.step = "wipe" /\ GoTo(w, "wipeLegacy") /\ r.plan \in Seq(Time)
      BY <1>0, <2>2 DEF DeleteAllAppointmentsOfType, At, Request
    <3>2. Rows' = {} /\ kn = 0
      BY <2>2, DeleteRows DEF DeleteAllAppointmentsOfType
    <3>3. \A t \in Time : Count(date', Rows', t) = 0 /\ Times(r.plan, t) \in Nat
      BY <3>1, <3>2, NoneCounted, TimesIsNat
    <3>4. Len(r.plan) \in Nat
      BY <3>1
    <3>5. "app" \notin fetched[w].pending =>
            Agree(E, r.plan) /\ Len(r.plan) = Cardinality(DatedIn(E))
      BY <1>0, <1>4, <3>1 DEF PullAligned
    <3>6. \A t \in Time : Count(date', Rows', t) + Times(r.plan, t) = Times(r.plan, t)
      BY <3>3
    <3>7. kn + Len(r.plan) = Len(r.plan)
      BY <3>2, <3>4
    <3>8. Adds(r.plan)
      BY <3>5, <3>6, <3>7 DEF Adds, Agree
    <3> QED
      BY <2>d, <3>1, <3>8
  <2>3. CASE ClearLegacy(w)
    BY <2>3, <2>b, <2>d DEF ClearLegacy, At
  <2>4. CASE InsertSlot(w)
    <3>1. r.plan # <<>> /\ r.step = "insertSlot" /\ r.plan \in Seq(Time)
      BY <1>0, <2>4 DEF InsertSlot, At, Request
    <3>2. PICK p \in Seq(Time) : p = Tail(r.plan) /\ Len(p) = Len(r.plan) - 1
      BY <3>1, HeadAndTail
    <3>3. PICK t \in Time : t = Head(r.plan)
      BY <3>1, HeadAndTail
    <3>4. PICK i \in Id \ Rows : date' = [date EXCEPT ![i] = t]
      BY <2>4, <3>3 DEF InsertSlot
    <3>5. Rows' = Rows \cup {i} /\ kn = k + 1
      BY <1>0, <3>4, InsertRow
    <3>6. PICK q : q = [r EXCEPT !.step = "sync", !.plan = p]
      OBVIOUS
    <3>7. req'[w] = q
      <4>1. req' = [req EXCEPT ![w] = [r EXCEPT !.step = "sync", !.plan = p]]
        BY <1>0, <2>4, <3>2, RequestAfter
      <4> QED
        BY <1>0, <3>6, <4>1
    <3>8. q.edit = r.edit /\ q.was = r.was /\ q.plan = p
      BY <1>0, <3>6 DEF Request
    <3>9. ASSUME NEW u \in Time
          PROVE  Count(date', Rows', u) + Times(p, u) = Count(date, Rows, u) + Times(r.plan, u)
      <4>1. IsFiniteSet(Rows) /\ i \notin Rows /\ date'[i] = t /\ \A j \in Rows : date'[j] = date[j]
        BY <1>0, <3>4 DEF RowsOK, Rows
      <4>2. PICK d : d = date'
        OBVIOUS
      <4>3. /\ Count(date, Rows, u) \in Nat
            /\ Count(d, Rows \cup {i}, u) = Count(date, Rows, u) + (IF d[i] = u THEN 1 ELSE 0)
        BY <4>1, <4>2, CountInsert
      <4>4. /\ Times(p, u) \in Nat
            /\ Times(r.plan, u) = Times(p, u) + (IF t = u THEN 1 ELSE 0)
        BY <3>1, <3>2, <3>3, TimesTail
      <4>5. Count(date', Rows', u) = Count(date, Rows, u) + (IF t = u THEN 1 ELSE 0)
        BY <3>5, <4>1, <4>2, <4>3
      <4> QED
        BY <4>3, <4>4, <4>5
    <3>10. kn + Len(p) = k + Len(r.plan)
      <4>1. k \in Nat
        BY <1>0, FS_CardinalityType DEF RowsOK
      <4>2. PICK a \in Nat : a = Len(r.plan)
        BY <3>1
      <4> HIDE DEF k, kn
      <4>3. kn = k + 1 /\ Len(p) = a - 1 /\ Len(r.plan) = a
        BY <3>2, <3>5, <4>2
      <4>4. (k + 1) + (a - 1) = k + a
        BY <4>1
      <4> QED
        BY <4>3, <4>4
    <3>11. Adds(p)
      <4>1. "app" \notin fetched[w].pending =>
              /\ \A u \in Time : Count(date, Rows, u) + Times(r.plan, u) = Times(E, u)
              /\ k + Len(r.plan) = Cardinality(DatedIn(E))
        BY <1>0, <1>4, <3>1 DEF PullAligned
      <4> HIDE DEF k, kn, E
      <4> QED
        BY <3>9, <3>10, <4>1 DEF Adds
    <3> QED
      BY <2>a, <2>c, <3>7, <3>8, <3>11
  <2>5. CASE LastSync(w)
    <3>1. req' = [req EXCEPT ![w] = [r EXCEPT !.step = "sync", !.inbound = FALSE]]
      BY <1>0, <2>5, RequestAfter
    <3>2. req'[w].edit = r.edit /\ req'[w].was = r.was /\ req'[w].plan = r.plan
      BY <1>0, <3>1 DEF Request
    <3>3. Adds(r.plan)
      BY <2>5, <2>b DEF LastSync, At
    <3> QED
      BY <2>a, <2>c, <3>2, <3>3
  <2>6. CASE r.inbound /\ SyncWrite(w)
    <3>1. Adds(r.plan) /\ GoTo(w, "insertSlot")
      BY <2>6, <2>b DEF SyncWrite, At
    <3> QED
      BY <2>d, <3>1
  <2> QED
    BY <2>1, <2>2, <2>3, <2>4, <2>5, <2>6, <2>c DEF ContinueRequest, InsertAppointment,
       InsertDated, DeleteAppointmentRow, At
<1> QED
  BY <1>3, <1>4

\* An answer leaves a push behind, with which the columns owe nothing yet.
LEMMA RespondAligned ==
  ASSUME MirrorInv, RoomInv, AlignInv, NEW w \in Worker,
         Respond(w) \/ PushAnyway(w) \/ AnswerStatus(w)
  PROVE  Aligned(w)'
<1>0. /\ req[w] \in Request /\ req \in [Worker -> Request] /\ push \in [Worker -> Push]
      /\ OneThing(req[w], push[w], fetched[w]) /\ PushAligned(push[w])
  BY AlignParts
<1>1. push[w] = NoPush /\ ~fetched[w].busy /\ req'[w].step = "idle"
  <2>1. CASE Respond(w)
    <3>1. req[w].step # "idle" /\ req[w].edit = NoEdit /\ SyncWrite(w)
      BY <2>1 DEF Respond, SyncWrite, At, IsPull
    <3>2. push[w] = NoPush /\ ~fetched[w].busy /\ ~req[w].inbound
      BY <1>0, <3>1 DEF OneThing
    <3> QED
      BY <1>0, <3>1, <3>2 DEF SyncWrite, Finish, Idle
  <2>2. CASE PushAnyway(w)
    BY <2>2 DEF PushAnyway, Free, At, vars
  <2>3. CASE AnswerStatus(w)
    BY <2>3 DEF AnswerStatus, UpdateProjectStatus, Free, At
  <2> QED
    BY <2>1, <2>2, <2>3
<1>2. /\ push' = [push EXCEPT ![w].step = "check"]
      /\ column' = column /\ pending' = pending /\ fetched' = fetched
  BY DEF Respond, PushAnyway, AnswerStatus
<1>3. push'[w].step = "check" /\ push[w].step = "none" /\ Columns' = Columns
  BY <1>0, <1>1, <1>2, SameView DEF NoPush, Push
<1>4. PushAligned(push[w])'
  BY <1>0, <1>2, <1>3 DEF PushAligned
<1>5. RestAligned(req[w], push[w], fetched[w])'
  BY <1>3 DEF RestAligned, NoPush
<1>6. FetchAligned(req[w], fetched[w])'
  BY <1>1, <1>2 DEF FetchAligned
<1>7. PullAligned(req[w], fetched[w])'
  BY <1>1 DEF PullAligned
<1> QED
  BY <1>4, <1>5, <1>6, <1>7 DEF Aligned

\* What a push or support owes, it owes from the moment it drops or clears something.
LEMMA SkipAligned ==
  ASSUME MirrorInv, RoomInv, AlignInv, NEW w \in Worker, SkipPush(w) \/ PushFails(w)
  PROVE  Aligned(w)'
<1>0. /\ push \in [Worker -> Push] /\ OneThing(req[w], push[w], fetched[w])
  BY AlignParts
<1>1. /\ push[w] # NoPush /\ push' = [push EXCEPT ![w] = NoPush] /\ "app" \in pending'
      /\ req' = req /\ fetched' = fetched
  BY DEF SkipPush, PushFails, NoPush, vars
<1>2. push'[w].step = "none"
  BY <1>0, <1>1 DEF NoPush
<1>3. ~fetched[w].busy /\ req[w].step = "idle"
  BY <1>0, <1>1 DEF OneThing
<1>4. PushAligned(push[w])'
  BY <1>1, <1>2 DEF PushAligned
<1>5. RestAligned(req[w], push[w], fetched[w])'
  BY <1>1 DEF RestAligned
<1> QED
  BY <1>1, <1>3, <1>4, <1>5 DEF Aligned, FetchAligned, PullAligned

LEMMA LoadAligned ==
  ASSUME MirrorInv, RoomInv, AlignInv, NEW w \in Worker, LoadSlots(w) \/ LoadSlotsBlind(w)
  PROVE  Aligned(w)'
<1>0. /\ push \in [Worker -> Push] /\ OneThing(req[w], push[w], fetched[w])
  BY AlignParts
<1>1. /\ push[w].step = "check" /\ UNCHANGED <<vars, column, fetched>>
      /\ \E list : /\ push' = [push EXCEPT ![w] = [step |-> "write", slots |-> list, left |-> Column]]
                   /\ "app" \notin pending' => list = Loaded
  BY DEF LoadSlots, LoadSlotsBlind
<1>2. PICK list :
        /\ push' = [push EXCEPT ![w] = [step |-> "write", slots |-> list, left |-> Column]]
        /\ "app" \notin pending' => list = Loaded
  BY <1>1
<1>3. /\ push'[w] = [step |-> "write", slots |-> list, left |-> Column] /\ Loaded' = Loaded
      /\ req' = req /\ fetched' = fetched
  BY <1>0, <1>1, <1>2, SameView DEF vars
<1>4. ~fetched[w].busy /\ req[w].step = "idle"
  BY <1>0, <1>1 DEF OneThing, NoPush
<1>5. PushAligned(push[w])'
  BY <1>2, <1>3 DEF PushAligned
<1>6. RestAligned(req[w], push[w], fetched[w])'
  BY <1>3 DEF RestAligned, NoPush
<1> QED
  BY <1>3, <1>4, <1>5, <1>6 DEF Aligned, FetchAligned, PullAligned

LEMMA WriteAligned ==
  ASSUME MirrorInv, RoomInv, AlignInv, NEW w \in Worker, NEW n \in Column,
         WriteColumn(w, n) \/ WriteFails(w, n)
  PROVE  Aligned(w)'
<1>0. /\ push \in [Worker -> Push] /\ push[w] \in Push /\ OneThing(req[w], push[w], fetched[w])
      /\ PushAligned(push[w]) /\ column \in [Column -> Time \cup {NoDate}]
      /\ RowsOK /\ legacy \in Time \cup {NoDate}
  BY AlignParts DEF PushOK
<1>1. /\ push[w].step = "write" /\ n \in push[w].left /\ push' = Unwritten(w, n)
      /\ UNCHANGED <<vars, fetched>>
  BY DEF WriteColumn, WriteFails
<1>2. Loaded' = Loaded /\ Seen' = Seen /\ req' = req /\ fetched' = fetched
  BY <1>1, SameView DEF vars
<1>3. ~fetched[w].busy /\ req[w].step = "idle"
  BY <1>0, <1>1 DEF OneThing, NoPush
<1>4. "app" \notin pending' => "app" \notin pending /\ push[w].slots = Loaded
  BY <1>0, <1>1 DEF PushAligned, WriteColumn, WriteFails
\* What is written is what the rows say, or the push owes something.
<1>5. "app" \notin pending' =>
        \A m \in (Column \ push[w].left) \cup {n} : column'[m] = SlotOf(Loaded, m)
  <2>1. CASE WriteFails(w, n)
    BY <2>1 DEF WriteFails
  <2>2. CASE WriteColumn(w, n)
    <3>1. pending' = pending
          /\ ("app" \notin pending' => column' = [column EXCEPT ![n] = SlotOf(Loaded, n)])
      BY <1>4, <2>2 DEF WriteColumn
    <3>2. "app" \notin pending => \A m \in Column \ push[w].left : column[m] = SlotOf(Loaded, m)
      BY <1>0, <1>1, <1>4 DEF PushAligned
    <3> QED
      BY <1>0, <3>1, <3>2
  <2> QED
    BY <2>1, <2>2
<1>6. column' \in [Column -> Time \cup {NoDate}]
  BY MirrorStep DEF MirrorInv, MirrorNext
<1>7. CASE push[w].left # {n}
  <2>1. push'[w].step = "write" /\ push'[w].slots = push[w].slots /\ push'[w].left = push[w].left \ {n}
    BY <1>0, <1>1, <1>7 DEF Unwritten, Push
  <2>2. \A m \in Column \ push'[w].left : m \in (Column \ push[w].left) \cup {n}
    BY <2>1
  <2>3. \A m : SlotOf(Loaded', m) = SlotOf(Loaded, m)
    BY <1>2
  <2>4. PushAligned(push[w])'
    BY <1>2, <1>4, <1>5, <2>1, <2>2 DEF PushAligned
  <2>5. RestAligned(req[w], push[w], fetched[w])'
    BY <2>1 DEF RestAligned, NoPush
  <2> QED
    BY <1>2, <1>3, <2>4, <2>5 DEF Aligned, FetchAligned, PullAligned
<1>8. CASE push[w].left = {n}
  <2>1. push'[w] = NoPush /\ push'[w].step = "none"
    BY <1>0, <1>1, <1>8 DEF Unwritten, NoPush
  <2>2. Loaded \in Seq(Time) /\ Seen \in Seq(Time) /\ Len(Seen) <= maxAppointmentsPerType
    BY <1>0, LoadedIsRows, ShownList DEF Seen
  <2>3. ASSUME "app" \notin pending'
        PROVE  Prefix(Columns') /\ Covers(Columns', Seen) /\ Agree(Columns', Seen)
    <3>1. \A m \in Column : column'[m] = SlotOf(Seen, m)
      BY <1>5, <1>8, <2>2, <2>3, SlotOfShown DEF Seen
    <3>2. PICK s : s = Seen
      OBVIOUS
    <3>3. s \in Seq(Time) /\ Len(s) <= maxAppointmentsPerType
          /\ \A m \in Column : column'[m] = SlotOf(s, m)
      BY <2>2, <3>1, <3>2
    <3>4. Prefix(Columns') /\ Covers(Columns', s) /\ Agree(Columns', s)
      BY <1>6, <3>3, WrittenColumns
    <3> QED
      BY <3>2, <3>4
  <2>4. PushAligned(push[w])'
    BY <2>1, <2>3 DEF PushAligned
  <2>5. RestAligned(req[w], push[w], fetched[w])'
    BY <1>2, <2>3 DEF RestAligned
  <2> QED
    BY <1>2, <1>3, <2>4, <2>5 DEF Aligned, FetchAligned, PullAligned
<1> QED
  BY <1>7, <1>8

LEMMA FetchStepAligned ==
  ASSUME MirrorInv, RoomInv, AlignInv, NEW w \in Worker, PullLarkRecordInbound(w)
  PROVE  Aligned(w)'
<1>0. /\ column \in [Column -> Time \cup {NoDate}] /\ fetched \in [Worker -> Fetch]
      /\ PushAligned(push[w]) /\ RestAligned(req[w], push[w], fetched[w])
  BY AlignParts
<1>1. /\ req[w].step = "idle" /\ push[w] = NoPush /\ ~fetched[w].busy
      /\ fetched' = [fetched EXCEPT ![w] = [edit |-> RecordInLark, pending |-> pending, busy |-> TRUE]]
      /\ req' = req /\ push' = push /\ pending' = pending /\ column' = column
      /\ UNCHANGED <<date, legacy>>
  BY DEF PullLarkRecordInbound, Free, At, vars
<1>2. Loaded' = Loaded /\ Seen' = Seen /\ Columns' = Columns /\ RecordInLark' = RecordInLark
  BY <1>1, SameView
<1>3. PICK f : f = fetched'[w] /\ f.edit = RecordInLark /\ f.pending = pending /\ f.busy
  BY <1>0, <1>1
<1>4. EditDates(f.edit) = Columns /\ IsRecord(f.edit)
  BY <1>0, <1>3, ColumnsTyped
<1>5. PushAligned(push[w])'
  BY <1>0, <1>1, <1>2 DEF PushAligned
<1>6. RestAligned(req[w], push[w], fetched[w])'
  BY <1>3 DEF RestAligned
<1>7. FetchAligned(req[w], fetched[w])'
  <2>1. "app" \notin pending => Prefix(Columns)
    BY <1>0, <1>1 DEF PushAligned, NoPush
  <2>2. /\ "app" \notin pending => Covers(Columns, Seen)
        /\ pending = {} => Agree(Columns, Seen)
    BY <1>0, <1>1 DEF RestAligned
  <2> QED
    BY <1>1, <1>2, <1>3, <1>4, <2>1, <2>2 DEF FetchAligned
<1>8. PullAligned(req[w], fetched[w])'
  BY <1>1 DEF PullAligned
<1> QED
  BY <1>5, <1>6, <1>7, <1>8 DEF Aligned

LEMMA ApplyAligned ==
  ASSUME MirrorInv, RoomInv, AlignInv, NEW w \in Worker, ApplyFetched(w)
  PROVE  Aligned(w)'
<1> DEFINE f == fetched[w]
<1>0. /\ TypeInv /\ RowsOK /\ legacy \in Time \cup {NoDate} /\ req[w] \in Request /\ f \in Fetch
      /\ OneThing(req[w], push[w], f) /\ PushAligned(push[w]) /\ FetchAligned(req[w], f)
  BY AlignParts
<1>1. /\ f.busy /\ f.edit \in Edit /\ ApplyLarkInboundAppointments(w, f.edit)
      /\ push' = push /\ fetched' = fetched /\ pending' = pending /\ column' = column
      /\ UNCHANGED <<date, legacy>>
  BY <1>0 DEF ApplyFetched, Fetch, ApplyLarkInboundAppointments
<1>2. /\ Loaded' = Loaded /\ Seen' = Seen /\ Columns' = Columns /\ RecordInLark' = RecordInLark
      /\ Loaded \in Seq(Time)
  BY <1>0, <1>1, SameView, LoadedIsRows
<1>a. PICK list \in Seq(Time), b \in BOOLEAN :
        Len(list) <= Len(Loaded) /\ req'[w] = Applied(req[w], f.edit, list, Loaded, b)
  BY <1>0, <1>1, ApplyOnly
<1>3. PICK plan, was : plan = Merge(list, f.edit) /\ was = Loaded
  OBVIOUS
<1>4. /\ req[w].step = "idle" /\ f.edit # NoEdit
      /\ req'[w].step = "wipe" /\ req'[w].plan = plan /\ req'[w].was = was /\ req'[w].edit = f.edit
  <2>1. req[w].step = "idle" /\ f.edit # NoEdit
    BY <1>0, <1>1, ApplyOnly
  <2>2. req'[w] = [req[w] EXCEPT !.step = "wipe", !.plan = plan, !.was = was,
                                 !.edit = f.edit, !.inbound = TRUE, !.blind = b]
    BY <1>a, <1>3 DEF Applied
  <2> HIDE DEF f
  <2> QED
    BY <1>0, <2>1, <2>2 DEF Request
<1>5. /\ IsRecord(f.edit)
      /\ "app" \notin f.pending => Covers(EditDates(f.edit), Seen)
      /\ f.pending = {} => Agree(EditDates(f.edit), Seen)
  BY <1>0, <1>1, <1>4 DEF FetchAligned
\* Less of the list is covered all the more.
<1>b. Covers(EditDates(f.edit), Seen) => Covers(EditDates(f.edit), Shown(list))
  <2> SUFFICES ASSUME Covers(EditDates(f.edit), Seen), NEW n \in 1..Len(Shown(list))
               PROVE  n \in DatedIn(EditDates(f.edit))
    BY DEF Covers
  <2>1. /\ Len(Shown(list)) \in Nat /\ Len(Shown(list)) <= Len(list) /\ Len(list) \in Nat
        /\ Len(Shown(list)) <= maxAppointmentsPerType /\ Len(Loaded) \in Nat
    BY <1>2, <1>a, ShownList
  <2>2. n \in 1..maxAppointmentsPerType /\ n <= Len(Loaded)
    BY <1>a, <2>1, LimitAssumption
  <2>3. n <= Len(Seen) /\ Len(Seen) \in Nat
    BY <1>2, <2>2, ShownList DEF Seen
  <2>4. n \in 1..Len(Seen)
    BY <2>2, <2>3
  <2> QED
    BY <2>4 DEF Covers
<1>6. "app" \notin f.pending =>
        Agree(EditDates(f.edit), plan) /\ Len(plan) = Cardinality(DatedIn(EditDates(f.edit)))
  BY <1>1, <1>3, <1>5, <1>b, MergeCovered
<1>7. push[w] = NoPush /\ push[w].step = "none"
  BY <1>0, <1>1 DEF OneThing, NoPush
<1>8. PushAligned(push[w])'
  BY <1>0, <1>1, <1>2, <1>7 DEF PushAligned
<1>9. RestAligned(req[w], push[w], fetched[w])'
  BY <1>4 DEF RestAligned
<1>10. FetchAligned(req[w], fetched[w])'
  BY <1>0, <1>1, <1>2, <1>4 DEF FetchAligned
<1>11. PullAligned(req[w], fetched[w])'
  BY <1>1, <1>2, <1>3, <1>4, <1>5, <1>6 DEF PullAligned, Seen
<1> QED
  BY <1>8, <1>9, <1>10, <1>11 DEF Aligned

LEMMA NothingAligned ==
  ASSUME MirrorInv, RoomInv, AlignInv, NEW w \in Worker, NothingFetched(w)
  PROVE  Aligned(w)'
<1> DEFINE f == fetched[w]
<1>0. /\ fetched \in [Worker -> Fetch] /\ column \in [Column -> Time \cup {NoDate}]
      /\ OneThing(req[w], push[w], f) /\ PushAligned(push[w]) /\ FetchAligned(req[w], f)
  BY AlignParts
<1>1. /\ f.busy /\ req[w].step = "idle" /\ fetched' = [fetched EXCEPT ![w] = NoFetch]
      /\ req' = req /\ push' = push /\ pending' = pending /\ column' = column
      /\ UNCHANGED <<date, legacy>>
  BY DEF NothingFetched, At, vars
<1>2. Loaded' = Loaded /\ Seen' = Seen /\ Columns' = Columns /\ EditDates(RecordInLark) = Columns
  BY <1>0, <1>1, SameView, ColumnsTyped
<1>3. push[w].step = "none" /\ ~fetched'[w].busy
  BY <1>0, <1>1 DEF OneThing, NoPush, NoFetch
<1>4. "app" \notin pending => Covers(Columns, Seen)
  BY <1>0, <1>1 DEF FetchAligned, Covers
<1>5. pending = {} => Agree(Columns, Seen)
  BY <1>0, <1>1, <1>2 DEF FetchAligned
<1>6. PushAligned(push[w])'
  BY <1>0, <1>1, <1>2, <1>3 DEF PushAligned
<1>7. RestAligned(req[w], push[w], fetched[w])'
  BY <1>1, <1>2, <1>4, <1>5 DEF RestAligned
<1>8. FetchAligned(req[w], fetched[w])' /\ PullAligned(req[w], fetched[w])'
  BY <1>1, <1>3 DEF FetchAligned, PullAligned
<1> QED
  BY <1>6, <1>7, <1>8 DEF Aligned

\* Columns that were covered by what was fetched are covered still; and what was fetched
\* covers a list no longer than itself.
LEMMA FetchCovers ==
  ASSUME NEW f \in Fetch, NEW c, NEW list \in Seq(Time), Prefix(EditDates(f.edit)),
         DatedIn(EditDates(f.edit)) \subseteq DatedIn(c),
         Len(list) <= Cardinality(DatedIn(EditDates(f.edit)))
  PROVE  Covers(c, list)
<1>1. EditDates(f.edit) \in ColumnDates
  BY EditDatesTyped DEF Fetch
<1>2. PICK k : k = Cardinality(DatedIn(EditDates(f.edit)))
  OBVIOUS
<1>3. k \in Nat /\ \A n \in 1..k : n \in DatedIn(EditDates(f.edit))
  BY <1>1, <1>2, PrefixCount
<1>4. PICK l \in Nat : l = Len(list)
  OBVIOUS
<1>5. \A n \in 1..l : n \in 1..k
  BY <1>2, <1>3, <1>4
<1> QED
  BY <1>3, <1>4, <1>5 DEF Covers

\* What a reload reads is the rows, in the next state as in this one.
LoadedAsRows ==
  RowsOK /\ legacy \in Time \cup {NoDate} =>
    /\ Loaded \in Seq(Time)
    /\ Rows # {} => /\ Len(Loaded) = Cardinality(Rows)
                    /\ \A t : Times(Loaded, t) = Count(date, Rows, t)

LEMMA LoadedIsRowsNext == LoadedAsRows'
<1>1. LoadedAsRows
  BY LoadedIsRows DEF LoadedAsRows
<1> QED
  BY <1>1, PTL

\* When a pull comes to its end the rows are what it fetched.
LEMMA EndPullRows ==
  ASSUME MirrorInv, RoomInv, AlignInv, NEW w \in Worker, EndPull(w), "app" \notin fetched[w].pending
  PROVE  /\ Loaded' \in Seq(Time)
         /\ Len(Loaded') = Cardinality(DatedIn(EditDates(fetched[w].edit)))
         /\ Agree(EditDates(fetched[w].edit), Loaded') /\ Seen' = Loaded'
<1> DEFINE E == EditDates(fetched[w].edit)
<1>0. /\ RowsOK /\ req[w] \in Request /\ fetched[w] \in Fetch /\ TypeInv
      /\ legacy \in Time \cup {NoDate} /\ RoomFor(req[w], Cardinality(Rows))
      /\ FetchAligned(req[w], fetched[w]) /\ PullAligned(req[w], fetched[w])
  BY AlignParts
<1>1. /\ req[w].step = "syncWrite" /\ req[w].edit # NoEdit /\ ~req[w].inbound
      /\ date' = date /\ legacy' \in {legacy, req[w].arg}
  BY DEF EndPull, IsPull, SyncWrite, At, Finish
<1>2. req[w].plan = <<>> /\ Len(req[w].plan) = 0
  BY <1>0, <1>1 DEF RoomFor
<1>3. legacy' \in Time \cup {NoDate}
  BY <1>0, <1>1, TypeParts DEF ArgOK
<1>4. /\ fetched[w].busy /\ req[w].edit = fetched[w].edit
      /\ \A t \in Time : Count(date, Rows, t) + Times(req[w].plan, t) = Times(E, t)
      /\ Cardinality(Rows) + Len(req[w].plan) = Cardinality(DatedIn(E))
  BY <1>0, <1>1 DEF PullAligned
<1>5. IsFiniteSet(Rows) /\ Cardinality(Rows) \in Nat
  BY <1>0, FS_CardinalityType DEF RowsOK
<1>6. Cardinality(Rows) = Cardinality(DatedIn(E))
  <2> HIDE DEF E
  <2> QED
    BY <1>2, <1>4, <1>5
<1>7. Rows # {}
  <2>1. E \in ColumnDates /\ DatedIn(E) # {}
    <3>1. IsRecord(fetched[w].edit) /\ fetched[w].edit \in Edit /\ fetched[w].edit # NoEdit
      BY <1>0, <1>1, <1>4 DEF FetchAligned, Fetch
    <3> QED
      BY <3>1, EditDatesTyped, RecordHasDate
  <2> HIDE DEF E
  <2>2. IsFiniteSet(DatedIn(E))
    BY <2>1, PrefixCount
  <2>3. Cardinality(DatedIn(E)) # 0
    BY <2>1, <2>2, FS_EmptySet
  <2> QED
    BY <1>6, <2>3, FS_EmptySet
<1>8. RowsOK' /\ Rows' = Rows
  BY <1>0, <1>1, SameRows
<1>9. /\ Loaded' \in Seq(Time) /\ Len(Loaded') = Cardinality(Rows)
      /\ \A t : Times(Loaded', t) = Count(date, Rows, t)
  BY <1>1, <1>3, <1>7, <1>8, LoadedIsRowsNext DEF LoadedAsRows
<1>10. ASSUME NEW t \in Time
       PROVE  Times(Loaded', t) = Times(E, t)
  <2>1. Count(date, Rows, t) \in Nat
    <3>1. {i \in Rows : date[i] = t} \in SUBSET Rows
      OBVIOUS
    <3> QED
      BY <1>5, <3>1, FS_Subset, FS_CardinalityType DEF Count
  <2>2. Times(req[w].plan, t) = 0
    BY <1>2, NoneCounted
  <2> HIDE DEF E
  <2> QED
    BY <1>4, <1>9, <2>1, <2>2
<1>11. Len(Loaded') <= maxAppointmentsPerType
  <2>1. IsFiniteSet(ColumnSet) /\ Cardinality(ColumnSet) = maxAppointmentsPerType
    BY LimitAssumption, FS_Interval DEF ColumnSet
  <2>2. DatedIn(E) \subseteq ColumnSet
    BY DEF DatedIn
  <2> HIDE DEF E
  <2> QED
    BY <1>6, <1>9, <2>1, <2>2, FS_Subset
<1>12. Seen' = Loaded'
  <2>1. PICK list \in Seq(Time) : list = Loaded'
    BY <1>9
  <2>2. Shown(list) = list
    BY <1>11, <2>1, ShownList
  <2> QED
    BY <2>1, <2>2 DEF Seen
<1> QED
  BY <1>6, <1>9, <1>10, <1>12 DEF Agree

LEMMA EndPullAligned ==
  ASSUME MirrorInv, RoomInv, AlignInv, NEW w \in Worker, EndPull(w)
  PROVE  Aligned(w)'
<1> DEFINE f == fetched[w]
           E == EditDates(f.edit)
<1>0. /\ req \in [Worker -> Request] /\ fetched \in [Worker -> Fetch] /\ f \in Fetch
      /\ column \in [Column -> Time \cup {NoDate}]
      /\ OneThing(req[w], push[w], f) /\ PushAligned(push[w])
      /\ FetchAligned(req[w], f) /\ PullAligned(req[w], f)
  BY AlignParts
<1>1. /\ req[w].step # "idle" /\ req[w].edit # NoEdit /\ req'[w] = Idle
      /\ push' = push /\ column' = column /\ fetched' = [fetched EXCEPT ![w] = NoFetch]
      /\ pending' = IF f.edit = RecordInLark THEN pending \ {"lark"} ELSE pending
  BY <1>0 DEF EndPull, IsPull, SyncWrite, At, Finish
<1>2. /\ req'[w].step = "idle" /\ ~fetched'[w].busy /\ fetched'[w] = NoFetch
      /\ push[w] = NoPush /\ push[w].step = "none" /\ f.busy
      /\ Columns' = Columns /\ EditDates(RecordInLark) = Columns
  BY <1>0, <1>1, SameView, ColumnsTyped DEF Idle, NoFetch, OneThing, NoPush, PullAligned
<1>3. /\ f.pending \subseteq pending /\ (pending = {} => f.edit = RecordInLark)
      /\ "app" \notin f.pending => Prefix(E)
      /\ "app" \notin pending => DatedIn(E) \subseteq DatedIn(Columns)
  BY <1>0, <1>2 DEF FetchAligned
<1>4. "app" \notin pending' => "app" \notin pending /\ "app" \notin f.pending
  BY <1>1, <1>3
<1>5. pending' = {} => E = Columns /\ "app" \notin pending'
  BY <1>1, <1>2, <1>3
<1>6. "app" \notin pending' => Covers(Columns, Seen') /\ Agree(E, Seen')
  <2> SUFFICES ASSUME "app" \notin pending'
               PROVE  Covers(Columns, Seen') /\ Agree(E, Seen')
    OBVIOUS
  <2>1. /\ Loaded' \in Seq(Time) /\ Len(Loaded') = Cardinality(DatedIn(E))
        /\ Agree(E, Loaded') /\ Seen' = Loaded'
    BY <1>4, EndPullRows
  <2>2. Prefix(E) /\ DatedIn(E) \subseteq DatedIn(Columns)
    BY <1>3, <1>4
  <2>3. Cardinality(DatedIn(E)) \in Nat
    BY <1>0, EditDatesTyped, PrefixCount DEF Fetch
  <2>4. PICK g : g = f
    OBVIOUS
  <2>5. PICK list : list = Loaded'
    OBVIOUS
  <2>6. Covers(Columns, list)
    BY <1>0, <2>1, <2>2, <2>3, <2>4, <2>5, FetchCovers
  <2> QED
    BY <2>1, <2>5, <2>6
<1>7. PushAligned(push[w])'
  BY <1>0, <1>1, <1>2, <1>4 DEF PushAligned
<1>8. RestAligned(req[w], push[w], fetched[w])'
  BY <1>2, <1>5, <1>6 DEF RestAligned
<1>9. FetchAligned(req[w], fetched[w])' /\ PullAligned(req[w], fetched[w])'
  BY <1>2 DEF FetchAligned, PullAligned
<1> QED
  BY <1>7, <1>8, <1>9 DEF Aligned

\* A failing statement leaves the app or Lark with a change to pass on; a pull that
\* fails leaves no more appointments than the columns have dates.
LEMMA FailAligned ==
  ASSUME MirrorInv, RoomInv, AlignInv, NEW w \in Worker, RequestFails(w)
  PROVE  Aligned(w)'
<1> DEFINE f == fetched[w]
           E == EditDates(f.edit)
           k == Cardinality(Rows)
<1>0. /\ req \in [Worker -> Request] /\ fetched \in [Worker -> Fetch] /\ f \in Fetch
      /\ RowsOK /\ legacy \in Time \cup {NoDate} /\ req[w] \in Request
      /\ OneThing(req[w], push[w], f) /\ PushAligned(push[w])
      /\ FetchAligned(req[w], f) /\ PullAligned(req[w], f)
  BY AlignParts
<1>1. /\ req[w].step # "idle" /\ req'[w] = Idle /\ UNCHANGED <<date, legacy>>
      /\ push' = push /\ column' = column /\ fetched' = [fetched EXCEPT ![w] = NoFetch]
      /\ pending' = pending \cup {IF req[w].edit # NoEdit THEN "lark" ELSE "app"}
  BY <1>0 DEF RequestFails, Fault, IsPull, At, Finish
<1>2. /\ req'[w].step = "idle" /\ ~fetched'[w].busy /\ fetched'[w] = NoFetch
      /\ push[w] = NoPush /\ push[w].step = "none"
      /\ Columns' = Columns /\ Loaded' = Loaded /\ Seen' = Seen
  BY <1>0, <1>1, SameView DEF Idle, NoFetch, OneThing, NoPush
<1>3. ASSUME "app" \notin pending'
      PROVE  Covers(Columns, Seen)
  <2>1. req[w].edit # NoEdit /\ "app" \notin pending
    BY <1>1, <1>3
  <2>2. f.busy /\ req[w].edit = f.edit
    BY <1>0, <1>1, <2>1 DEF PullAligned
  <2>3. "app" \notin f.pending /\ Prefix(E) /\ DatedIn(E) \subseteq DatedIn(Columns)
        /\ IsRecord(f.edit)
    BY <1>0, <2>1, <2>2 DEF FetchAligned
  <2>4. CASE req[w].step = "wipe"
    <3>1. Covers(E, Seen)
      BY <1>0, <2>1, <2>3, <2>4 DEF PullAligned
    <3> QED
      BY <2>3, <3>1 DEF Covers
  <2>5. CASE req[w].step # "wipe"
    <3>1. k + Len(req[w].plan) = Cardinality(DatedIn(E)) /\ k \in Nat /\ Len(req[w].plan) \in Nat
      BY <1>0, <1>1, <2>1, <2>3, <2>5, FS_CardinalityType DEF PullAligned, RowsOK, Request
    <3>2. Loaded \in Seq(Time)
      BY <1>0, LoadedIsRows
    <3>3. E \in ColumnDates /\ DatedIn(E) # {}
      <4>1. f.edit \in Edit /\ f.edit # NoEdit
        BY <1>0, <2>1, <2>2 DEF Fetch
      <4> QED
        BY <2>3, <4>1, EditDatesTyped, RecordHasDate
    <3>4. Cardinality(DatedIn(E)) \in Nat /\ Cardinality(DatedIn(E)) # 0
      <4> HIDE DEF E
      <4>1. IsFiniteSet(DatedIn(E)) /\ Cardinality(DatedIn(E)) \in Nat
        BY <3>3, PrefixCount
      <4> QED
        BY <3>3, <4>1, FS_EmptySet
    <3>5. Len(Loaded) <= Cardinality(DatedIn(E))
      <4>1. CASE Rows # {}
        <5>1. Len(Loaded) = k
          BY <1>0, <4>1, LoadedIsRows
        <5>2. PICK a \in Nat : a = Len(req[w].plan)
          BY <3>1
        <5>3. k <= k + a
          BY <3>1
        <5> QED
          BY <3>1, <5>1, <5>2, <5>3
      <4>2. CASE Rows = {}
        <5>1. Loaded = <<>> \/ Loaded = <<legacy>>
          BY <1>0, <4>2, LoadedIsRows
        <5>2. Len(Loaded) \in {0, 1}
          BY <5>1
        <5>3. PICK c \in Nat \ {0} : c = Cardinality(DatedIn(E))
          BY <3>4
        <5>4. \A l \in {0, 1} : l <= c
          OBVIOUS
        <5> HIDE DEF E
        <5> QED
          BY <5>2, <5>3, <5>4
      <4> QED
        BY <4>1, <4>2
    <3>6. Seen \in Seq(Time) /\ Len(Seen) <= Cardinality(DatedIn(E))
      <4>1. Seen \in Seq(Time) /\ Len(Seen) <= Len(Loaded) /\ Len(Loaded) \in Nat
        BY <3>2, ShownList DEF Seen
      <4>2. Len(Seen) \in Nat
        BY <4>1
      <4> HIDE DEF E
      <4> QED
        BY <3>4, <3>5, <4>1, <4>2
    <3> QED
      BY <1>0, <2>3, <3>6, FetchCovers
  <2> QED
    BY <2>4, <2>5
<1>4. pending' # {}
  BY <1>1
<1>5. PushAligned(push[w])'
  BY <1>0, <1>1, <1>2 DEF PushAligned
<1>6. RestAligned(req[w], push[w], fetched[w])'
  BY <1>2, <1>3, <1>4 DEF RestAligned
<1>7. FetchAligned(req[w], fetched[w])' /\ PullAligned(req[w], fetched[w])'
  BY <1>2 DEF FetchAligned, PullAligned
<1> QED
  BY <1>5, <1>6, <1>7 DEF Aligned

LEMMA EditAligned ==
  ASSUME MirrorInv, RoomInv, AlignInv, NEW w \in Worker, EditInLark,
         "gaps" \notin Features, "midpush" \notin Features
  PROVE  Aligned(w)'
<1>0. /\ column \in [Column -> Time \cup {NoDate}] /\ PushAligned(push[w])
      /\ RestAligned(req[w], push[w], fetched[w]) /\ FetchAligned(req[w], fetched[w])
      /\ PullAligned(req[w], fetched[w])
  BY AlignParts
<1>1. /\ push[w].step # "write" /\ pending' = pending \cup {"lark"}
      /\ req' = req /\ push' = push /\ fetched' = fetched /\ UNCHANGED <<date, legacy>>
  BY DEF EditInLark, vars
<1>2. Loaded' = Loaded /\ Seen' = Seen /\ Rows' = Rows /\ date' = date
  BY <1>1, SameView
<1>3. /\ DatedIn(Columns) \subseteq DatedIn(Columns') /\ (Prefix(Columns) => Prefix(Columns'))
  BY <1>0, EditedColumns
<1>4. pending' # {} /\ ("app" \notin pending' => "app" \notin pending)
  BY <1>1
<1>5. PushAligned(push[w])'
  BY <1>0, <1>1, <1>3, <1>4 DEF PushAligned
<1>6. RestAligned(req[w], push[w], fetched[w])'
  BY <1>0, <1>1, <1>2, <1>3, <1>4 DEF RestAligned, Covers
<1>7. FetchAligned(req[w], fetched[w])'
  BY <1>0, <1>1, <1>2, <1>3, <1>4 DEF FetchAligned
<1>8. PullAligned(req[w], fetched[w])'
  BY <1>0, <1>1, <1>2 DEF PullAligned
<1> QED
  BY <1>5, <1>6, <1>7, <1>8 DEF Aligned

LEMMA ClearAligned ==
  ASSUME MirrorInv, RoomInv, AlignInv, NEW w \in Worker, ClearInLark
  PROVE  Aligned(w)'
<1>0. /\ PushAligned(push[w]) /\ FetchAligned(req[w], fetched[w]) /\ PullAligned(req[w], fetched[w])
  BY AlignParts
<1>1. /\ pending' = pending \cup {"app"}
      /\ req' = req /\ push' = push /\ fetched' = fetched /\ UNCHANGED <<date, legacy>>
  BY DEF ClearInLark, vars
<1>2. Loaded' = Loaded /\ Seen' = Seen /\ Rows' = Rows /\ date' = date
  BY <1>1, SameView
<1>3. PushAligned(push[w])'
  BY <1>0, <1>1, <1>2 DEF PushAligned
<1>4. RestAligned(req[w], push[w], fetched[w])'
  BY <1>1 DEF RestAligned
<1>5. FetchAligned(req[w], fetched[w])'
  BY <1>0, <1>1, <1>2 DEF FetchAligned
<1>6. PullAligned(req[w], fetched[w])'
  BY <1>0, <1>1, <1>2 DEF PullAligned
<1> QED
  BY <1>3, <1>4, <1>5, <1>6 DEF Aligned

LEMMA QuietAligned ==
  ASSUME MirrorInv, RoomInv, AlignInv, NEW w \in Worker,
         UNCHANGED <<date, legacy, req, push, fetched, pending, column>>
  PROVE  Aligned(w)'
<1>0. /\ PushAligned(push[w]) /\ RestAligned(req[w], push[w], fetched[w])
      /\ FetchAligned(req[w], fetched[w]) /\ PullAligned(req[w], fetched[w])
  BY AlignParts
<1>1. /\ Loaded' = Loaded /\ Seen' = Seen /\ Rows' = Rows
      /\ Columns' = Columns /\ RecordInLark' = RecordInLark
  BY SameView
<1>2. PushAligned(push[w])'
  BY <1>0, <1>1 DEF PushAligned
<1>3. RestAligned(req[w], push[w], fetched[w])'
  BY <1>0, <1>1 DEF RestAligned
<1>4. FetchAligned(req[w], fetched[w])'
  BY <1>0, <1>1 DEF FetchAligned
<1>5. PullAligned(req[w], fetched[w])'
  BY <1>0, <1>1 DEF PullAligned
<1> QED
  BY <1>2, <1>3, <1>4, <1>5 DEF Aligned

\* Nothing but the goroutine's own steps and support's edits touch what it is about, so
\* one goroutine keeps the columns and the rows aligned.
LEMMA AlignStep ==
  ASSUME OneWorker, "gaps" \notin Features, "midpush" \notin Features,
         MirrorInv, RoomInv, AlignInv, [MirrorNext]_allVars
  PROVE  AlignInv'
<1> SUFFICES ASSUME NEW w \in Worker
             PROVE  Aligned(w)'
  BY DEF AlignInv
<1>1. CASE UNCHANGED allVars
  BY <1>1, QuietAligned DEF allVars, vars, mirrorVars
<1>3. CASE FortyFiveSecondsPass
  BY <1>3, QuietAligned DEF FortyFiveSecondsPass, vars
<1>4. CASE EditInLark
  BY <1>4, EditAligned
<1>5. CASE ClearInLark
  BY <1>5, ClearAligned
<1>6. CASE \/ StartRequest(w) \/ AnswerStatus(w) \/ ContinueRequest(w) \/ Respond(w)
           \/ PushAnyway(w) \/ SkipPush(w) \/ PushFails(w) \/ LoadSlots(w) \/ LoadSlotsBlind(w)
  BY <1>6, StartAligned, ContinueAligned, RespondAligned, SkipAligned, LoadAligned
<1>7. CASE \E n \in Column : WriteColumn(w, n) \/ WriteFails(w, n)
  BY <1>7, WriteAligned
<1>8. CASE \/ PullLarkRecordInbound(w) \/ ApplyFetched(w) \/ NothingFetched(w) \/ EndPull(w)
           \/ RequestFails(w)
  BY <1>8, FetchStepAligned, ApplyAligned, NothingAligned, EndPullAligned, FailAligned
<1> QED
  BY <1>1, <1>3, <1>4, <1>5, <1>6, <1>7, <1>8 DEF MirrorNext, OneWorker

LEMMA AlignInitially == MirrorInit => AlignInv
<1> SUFFICES ASSUME MirrorInit, NEW w \in Worker
             PROVE  Aligned(w)
  BY DEF AlignInv
<1>1. /\ Rows = {} /\ legacy = NoDate /\ pending = {} /\ req[w] = Idle
      /\ push[w] = NoPush /\ fetched[w] = NoFetch
  BY DEF MirrorInit, Init, Rows
<1>2. Loaded = <<>> /\ Seen = <<>>
  <2>1. Loaded = <<>>
    BY <1>1 DEF Loaded
  <2>2. Len(<<>>) <= maxAppointmentsPerType /\ <<>> \in Seq(Time)
    BY LimitAssumption
  <2>3. PICK l \in Seq(Time) : l = <<>> /\ Len(l) <= maxAppointmentsPerType
    BY <2>2
  <2>4. Shown(l) = l
    BY <2>3, ShownList
  <2> QED
    BY <2>1, <2>3, <2>4 DEF Seen
<1>3. Columns = [n \in ColumnSet |-> NoDate]
  BY LimitAssumption DEF MirrorInit, Columns, ReadColumn, ColumnSet, Column
<1>4. DatedIn(Columns) = {}
  BY <1>3 DEF DatedIn
<1>5. ASSUME NEW t \in Time
      PROVE  Times(Columns, t) = 0
  <2>1. {n \in DOMAIN Columns : Columns[n] = t} = {}
    BY <1>3, TimeAssumption
  <2> QED
    BY <2>1, FS_EmptySet DEF Times
<1>6. Prefix(Columns) /\ Covers(Columns, <<>>) /\ Agree(Columns, <<>>)
  BY <1>4, <1>5, NoneCounted DEF Prefix, Covers, Agree
<1>7. PushAligned(push[w])
  BY <1>1, <1>6 DEF PushAligned, NoPush
<1>8. RestAligned(req[w], push[w], fetched[w])
  BY <1>2, <1>6 DEF RestAligned
<1>9. FetchAligned(req[w], fetched[w]) /\ PullAligned(req[w], fetched[w])
  BY <1>1 DEF FetchAligned, PullAligned, NoFetch, Idle
<1> QED
  BY <1>7, <1>8, <1>9 DEF Aligned

MirrorSerialInv == MirrorInv /\ RoomInv /\ AlignInv

LEMMA MirrorSerialAlways ==
  ASSUME OneWorker, "gaps" \notin Features, "midpush" \notin Features
  PROVE  MirrorSpec => []MirrorSerialInv
<1>1. MirrorInit => MirrorSerialInv
  BY MirrorInitially, Initially, AlignInitially DEF MirrorSerialInv, MirrorInit
<1>2. MirrorSerialInv /\ [MirrorNext]_allVars => MirrorSerialInv'
  <2> SUFFICES ASSUME MirrorSerialInv, [MirrorNext]_allVars
               PROVE  MirrorSerialInv'
    OBVIOUS
  <2>1. [AppStep]_vars /\ MirrorInv /\ RoomInv /\ AlignInv /\ TypeInv
    BY MirrorTakesSteps DEF MirrorSerialInv, MirrorInv
  <2>2. MirrorInv'
    BY <2>1, MirrorStep
  <2>3. RoomInv'
    BY <2>1, RoomStep
  <2>4. AlignInv'
    BY <2>1, AlignStep
  <2> QED
    BY <2>2, <2>3, <2>4 DEF MirrorSerialInv
<1> QED
  BY <1>1, <1>2, PTL DEF MirrorSpec

\* One goroutine at a time, and columns filled from the first on: whenever it is at rest
\* and nobody owes the other side a change, support and dealers see the same appointments,
\* although a push writes one column after the other and any call or statement may fail;
\* a push whose own load failed, silently, owes Lark one that did not
\* (lark_extras.go:291, 332; lark_inbound_appts.go:228).
THEOREM BothSeeTheSame ==
  ASSUME OneWorker, Worker # {}, "gaps" \notin Features, "midpush" \notin Features
  PROVE  MirrorSpec => []SameAppointments
<1>1. MirrorSerialInv => SameAppointments
  <2> SUFFICES ASSUME MirrorSerialInv, \A w \in Worker : Free(w), pending = {}
               PROVE  \A t \in Time : Times(Seen, t) = Times(Columns, t)
    BY DEF SameAppointments, Columns, Seen
  <2>1. PICK w \in Worker : TRUE
    OBVIOUS
  <2>2. RestAligned(req[w], push[w], fetched[w])
    BY <2>1, AlignParts DEF MirrorSerialInv
  <2>3. Agree(Columns, Seen)
    BY <2>2 DEF RestAligned, Free, At
  <2> QED
    BY <2>3 DEF Agree
<1> QED
  BY <1>1, MirrorSerialAlways, PTL

\* One goroutine at a time, and columns filled from the first on: a pull of a record that
\* was up to date leaves the project with the appointments it found, though it deletes and
\* inserts them all and may have loaded fewer (lark_inbound_appts.go:120).
THEOREM EchoesChangeNothing ==
  ASSUME OneWorker, "gaps" \notin Features, "midpush" \notin Features
  PROVE  MirrorSpec => EchoChangesNothing
<1> DEFINE Echo == \A w \in Worker :
             EndPull(w) /\ fetched[w].pending = {} =>
               \A t \in Time : Times(Loaded', t) = Times(Shown(req[w].was), t)
<1>1. MirrorSerialInv => Echo
  <2> SUFFICES ASSUME MirrorSerialInv, NEW w \in Worker, EndPull(w), fetched[w].pending = {},
                      NEW t \in Time
               PROVE  Times(Loaded', t) = Times(Shown(req[w].was), t)
    OBVIOUS
  <2>1. PullAligned(req[w], fetched[w])
    BY AlignParts DEF MirrorSerialInv
  <2>2. Agree(EditDates(fetched[w].edit), Shown(req[w].was))
    BY <2>1 DEF PullAligned, EndPull, SyncWrite, At, IsPull
  <2>3. Agree(EditDates(fetched[w].edit), Loaded')
    BY EndPullRows DEF MirrorSerialInv
  <2> QED
    BY <2>2, <2>3 DEF Agree
<1>2. [][Echo]_allVars => EchoChangesNothing
  BY DEF EchoChangesNothing
<1> HIDE DEF Echo
<1>3. MirrorSpec => [][Echo]_allVars
  BY <1>1, MirrorSerialAlways, PTL
<1> QED
  BY <1>2, <1>3
=============================================================================
