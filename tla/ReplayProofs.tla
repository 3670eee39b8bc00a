---------------------------- MODULE ReplayProofs ----------------------------
(***************************************************************************)
(* Proof that tools/replay.c accepts every record of a program of one      *)
(* thread, and that it then has the program's contexts, buffers and job    *)
(* contexts.                                                               *)
(***************************************************************************)
EXTENDS RecorderProofs, FunctionTheorems

-----------------------------------------------------------------------------
(* The records that are left when the first k are carried out *)

Drop(r, k) == [i \in 1..Len(r) - k |-> r[i + k]]

\* What is left is a list: the records after the first k.
LEMMA DropList ==
  ASSUME NEW r, r \in Seq(Range(r)), NEW k \in 0..Len(r)
  PROVE  /\ Drop(r, k) \in Seq(Range(Drop(r, k)))
         /\ Len(Drop(r, k)) = Len(r) - k /\ DOMAIN Drop(r, k) = 1..Len(r) - k
         /\ \A i \in 1..Len(r) - k : i + k \in DOMAIN r /\ Drop(r, k)[i] = r[i + k]
<1>1. Len(r) \in Nat /\ DOMAIN r = 1..Len(r)
  BY ListIs
<1>2. Len(r) - k \in Nat
  BY <1>1
<1> DEFINE n == Len(r) - k
           d == [i \in 1..n |-> r[i + k]]
<1>3. n \in Nat /\ d = Drop(r, k)
  BY <1>2 DEF Drop
<1>4. \A i \in 1..n : i + k \in DOMAIN r /\ d[i] = r[i + k]
  BY <1>1
<1>5. d = [i \in 1..n |-> d[i]]
  OBVIOUS
<1> HIDE DEF n, d
<1>6. d \in Seq(Range(d)) /\ DOMAIN d = 1..n /\ Len(d) = n
  BY <1>3, <1>5, IsList
<1> QED
  BY <1>3, <1>4, <1>6 DEF n

\* The last records of a list are among its records.
LEMMA DropRecords ==
  ASSUME NEW r, r \in Seq(Range(r)), NEW k \in 0..Len(r), NEW a
  PROVE  /\ \A i \in RecordsOf(Drop(r, k), a) :
              /\ i \in Nat /\ i + k \in RecordsOf(r, a) /\ Drop(r, k)[i] = r[i + k]
         /\ \A j \in RecordsOf(r, a) :
              j > k => /\ j - k \in RecordsOf(Drop(r, k), a) /\ Drop(r, k)[j - k] = r[j]
<1>1. Len(r) \in Nat /\ DOMAIN r = 1..Len(r)
  BY ListIs
<1>2. /\ DOMAIN Drop(r, k) = 1..Len(r) - k
      /\ \A i \in 1..Len(r) - k : i + k \in DOMAIN r /\ Drop(r, k)[i] = r[i + k]
  BY DropList
<1>3. ASSUME NEW i \in RecordsOf(Drop(r, k), a)
      PROVE  i \in Nat /\ i + k \in RecordsOf(r, a) /\ Drop(r, k)[i] = r[i + k]
  BY <1>1, <1>2, <1>3 DEF RecordsOf
<1>4. ASSUME NEW j \in RecordsOf(r, a), j > k
      PROVE  j - k \in RecordsOf(Drop(r, k), a) /\ Drop(r, k)[j - k] = r[j]
  <2>1. j \in 1..Len(r) /\ r[j].act = a
    BY <1>1 DEF RecordsOf
  <2>2. j - k \in 1..Len(r) - k /\ (j - k) + k = j
    BY <1>1, <1>4, <2>1
  <2>3. Drop(r, k)[j - k] = r[j]
    BY <1>2, <2>2
  <2> QED
    BY <1>2, <2>1, <2>2, <2>3 DEF RecordsOf
<1> QED
  BY <1>3, <1>4

\* Carrying out records of other actions leaves the identities an action names.
LEMMA DropIds ==
  ASSUME NEW r, r \in Seq(Range(r)), NEW k \in 0..Len(r), NEW a,
         \A i \in 1..k : r[i].act # a
  PROVE  IdsIn(Drop(r, k), a) = IdsIn(r, a)
<1>1. Len(r) \in Nat /\ DOMAIN r = 1..Len(r)
  BY ListIs
<1>2. ASSUME NEW x \in IdsIn(Drop(r, k), a)
      PROVE  x \in IdsIn(r, a)
  <2>1. PICK i \in RecordsOf(Drop(r, k), a) : x = Drop(r, k)[i].id
    BY DEF IdsIn
  <2>2. i + k \in RecordsOf(r, a) /\ Drop(r, k)[i] = r[i + k]
    BY DropRecords
  <2> QED
    BY <2>1, <2>2 DEF IdsIn
<1>3. ASSUME NEW x \in IdsIn(r, a)
      PROVE  x \in IdsIn(Drop(r, k), a)
  <2>1. PICK j \in RecordsOf(r, a) : x = r[j].id
    BY DEF IdsIn
  <2>2. j \in 1..Len(r) /\ r[j].act = a
    BY <1>1 DEF RecordsOf
  <2>3. j > k
    BY <1>1, <2>2
  <2>4. j - k \in RecordsOf(Drop(r, k), a) /\ Drop(r, k)[j - k] = r[j]
    BY <2>3, DropRecords
  <2> QED
    BY <2>1, <2>4 DEF IdsIn
<1> QED
  BY <1>2, <1>3

-----------------------------------------------------------------------------
(* The mirror: what the replay does *)

\* Records about other things are carried out.
LEMMA MirrorDrop ==
  ASSUME NEW L, NEW r, r \in Seq(Range(r)), NEW k \in 0..Len(r), NEW S, NEW C, NEW D,
         Mirror(L, r, S, C, D), \A i \in 1..k : r[i].act # C /\ r[i].act # D
  PROVE  Mirror(L, Drop(r, k), S, C, D)
<1> DEFINE d == Drop(r, k)
<1>1. Len(r) \in Nat /\ DOMAIN r = 1..Len(r)
  BY ListIs
<1>2. IdsIn(d, C) = IdsIn(r, C) /\ IdsIn(d, D) = IdsIn(r, D)
  BY DropIds
<1>3. ASSUME NEW i \in RecordsOf(d, D), NEW j \in RecordsOf(d, D), d[i].id = d[j].id
      PROVE  i = j
  <2>1. /\ i \in Nat /\ i + k \in RecordsOf(r, D) /\ d[i] = r[i + k]
        /\ j \in Nat /\ j + k \in RecordsOf(r, D) /\ d[j] = r[j + k]
    BY DropRecords
  <2>2. i + k = j + k
    BY <1>3, <2>1 DEF Mirror
  <2> QED
    BY <2>1, <2>2
<1>4. ASSUME RecordsOf(d, C) # {}
      PROVE  Len(d) = 1
  <2>1. PICK i \in RecordsOf(d, C) : TRUE
    BY <1>4
  <2>2. i \in Nat /\ i + k \in RecordsOf(r, C)
    BY <2>1, DropRecords
  <2>3. Len(r) = 1
    BY <2>2 DEF Mirror
  <2>4. i + k \in 1..Len(r) /\ r[i + k].act = C
    BY <1>1, <2>2 DEF RecordsOf
  <2>5. i + k = 1
    BY <2>3, <2>4
  <2>6. k = 0
    BY <1>1, <2>2, <2>4, <2>5
  <2>7. Len(d) = Len(r) - k
    BY DropList
  <2> QED
    BY <2>3, <2>6, <2>7
<1> HIDE DEF d
<1> QED
  BY <1>2, <1>3, <1>4 DEF Mirror, d

\* create_context, create_bo, create_job_context
LEMMA MirrorCreate ==
  ASSUME NEW L, L \in Seq(Range(L)), NEW r, r \in Seq(Range(r)), Len(r) # 0, NEW S, NEW C, NEW D,
         Mirror(L, r, S, C, D), r[1].act = C, C # D
  PROVE  Mirror(Append(L, r[1].id), Drop(r, 1), S, C, D)
<1> DEFINE M == Append(L, r[1].id)
           n == Len(L)
           d == Drop(r, 1)
<1>1. Len(r) \in Nat /\ DOMAIN r = 1..Len(r) /\ n \in Nat /\ DOMAIN L = 1..n
  BY ListIs
<1>2. 1 \in RecordsOf(r, C)
  BY <1>1 DEF RecordsOf
<1>3. Len(r) = 1
  BY <1>2 DEF Mirror
<1>4. RecordsOf(r, C) = {1} /\ RecordsOf(r, D) = {}
  BY <1>1, <1>2, <1>3 DEF RecordsOf
<1>5. IdsIn(r, C) = {r[1].id} /\ IdsIn(r, D) = {}
  BY <1>4 DEF IdsIn
<1>6. d = <<>>
  BY <1>3 DEF Drop
<1>7. \A a : RecordsOf(d, a) = {} /\ IdsIn(d, a) = {}
  BY <1>6 DEF RecordsOf, IdsIn
<1>8. DOMAIN M = 1..n + 1 /\ (\A i \in 1..n : M[i] = L[i]) /\ M[n + 1] = r[1].id
  BY AppendList
<1>9. r[1].id \notin Range(L) /\ S = Range(L) \cup {r[1].id}
  BY <1>5 DEF Mirror
<1> HIDE DEF M, n, d
<1>10. Range(M) = S
  <2>1. \A i \in 1..n : M[i] \in Range(L)
    BY <1>1, <1>8 DEF Range
  <2>2. \A i \in DOMAIN M : M[i] \in S
    <3>1. \A i \in 1..n + 1 : i \in 1..n \/ i = n + 1
      BY <1>1
    <3> QED
      BY <1>8, <1>9, <2>1, <3>1
  <2>3. \A x \in Range(L) : x \in Range(M)
    <3>1. \A i \in 1..n : i \in 1..n + 1
      BY <1>1
    <3> QED
      BY <1>1, <1>8, <3>1 DEF Range
  <2>4. n + 1 \in 1..n + 1
    BY <1>1
  <2>5. r[1].id \in Range(M)
    BY <1>8, <2>4 DEF Range
  <2> QED
    BY <1>9, <2>2, <2>3, <2>5 DEF Range
<1>11. ASSUME NEW i \in DOMAIN M, NEW j \in DOMAIN M, M[i] = M[j]
       PROVE  i = j
  <2>1. i \in 1..n \/ i = n + 1
    BY <1>1, <1>8
  <2>2. j \in 1..n \/ j = n + 1
    BY <1>1, <1>8
  <2>3. \A k \in 1..n : L[k] # r[1].id
    BY <1>1, <1>9 DEF Range
  <2>4. \A k, l \in 1..n : L[k] = L[l] => k = l
    BY <1>1 DEF Mirror
  <2> QED
    BY <1>8, <1>11, <2>1, <2>2, <2>3, <2>4
<1>12. Mirror(M, d, S, C, D)
  BY <1>7, <1>10, <1>11 DEF Mirror
<1> QED
  BY <1>12 DEF M, d

\* destroy_context, destroy_bo, destroy_job_context
LEMMA MirrorDestroy ==
  ASSUME NEW L, L \in Seq(Range(L)), NEW r, r \in Seq(Range(r)), Len(r) # 0, NEW S, NEW C, NEW D,
         Mirror(L, r, S, C, D), r[1].act = D, C # D
  PROVE  /\ r[1].id \in Range(L)
         /\ \A i \in DOMAIN L : L[i] = r[1].id => Mirror(RemoveAt(L, i), Drop(r, 1), S, C, D)
<1> DEFINE n == Len(L)
           d == Drop(r, 1)
           x == r[1].id
<1>1. Len(r) \in Nat /\ DOMAIN r = 1..Len(r) /\ n \in Nat /\ DOMAIN L = 1..n
  BY ListIs
<1>2. 1 \in RecordsOf(r, D) /\ 1 \in 0..Len(r)
  BY <1>1 DEF RecordsOf
<1>3. RecordsOf(r, C) = {}
  <2> SUFFICES ASSUME RecordsOf(r, C) # {}
               PROVE  FALSE
    OBVIOUS
  <2>1. PICK k \in RecordsOf(r, C) : TRUE
    OBVIOUS
  <2>2. Len(r) = 1
    BY <2>1 DEF Mirror
  <2>3. k \in 1..Len(r) /\ r[k].act = C
    BY <1>1, <2>1 DEF RecordsOf
  <2> QED
    BY <2>2, <2>3
<1>4. IdsIn(r, C) = {} /\ x \in IdsIn(r, D)
  BY <1>2, <1>3 DEF IdsIn
<1>5. x \in Range(L) /\ x \notin S
  BY <1>4 DEF Mirror
<1>6. IdsIn(d, C) = {} /\ RecordsOf(d, C) = {}
  <2>1. \A i \in RecordsOf(d, C) : i + 1 \in RecordsOf(r, C)
    BY <1>2, DropRecords
  <2> QED
    BY <1>3, <2>1 DEF IdsIn
<1>7. ASSUME NEW i \in RecordsOf(d, D), NEW j \in RecordsOf(d, D), d[i].id = d[j].id
      PROVE  i = j
  <2>1. /\ i \in Nat /\ i + 1 \in RecordsOf(r, D) /\ d[i] = r[i + 1]
        /\ j \in Nat /\ j + 1 \in RecordsOf(r, D) /\ d[j] = r[j + 1]
    BY <1>2, DropRecords
  <2>2. i + 1 = j + 1
    BY <1>7, <2>1 DEF Mirror
  <2> QED
    BY <2>1, <2>2
<1>8. IdsIn(d, D) = IdsIn(r, D) \ {x}
  <2>1. ASSUME NEW y \in IdsIn(d, D)
        PROVE  y \in IdsIn(r, D) /\ y # x
    <3>1. PICK i \in RecordsOf(d, D) : y = d[i].id
      BY DEF IdsIn
    <3>2. i \in Nat /\ i + 1 \in RecordsOf(r, D) /\ d[i] = r[i + 1]
      BY <1>2, DropRecords
    <3>3. i \in 1..Len(r) - 1
      BY <1>2, DropList DEF RecordsOf
    <3>4. y = x => i + 1 = 1
      BY <1>2, <3>1, <3>2 DEF Mirror
    <3> QED
      BY <3>1, <3>2, <3>3, <3>4 DEF IdsIn
  <2>2. ASSUME NEW y \in IdsIn(r, D), y # x
        PROVE  y \in IdsIn(d, D)
    <3>1. PICK j \in RecordsOf(r, D) : y = r[j].id
      BY DEF IdsIn
    <3>2. j \in 1..Len(r) /\ j # 1
      BY <1>1, <2>2, <3>1 DEF RecordsOf
    <3>3. j > 1
      BY <1>1, <3>2
    <3>4. j - 1 \in RecordsOf(d, D) /\ d[j - 1] = r[j]
      BY <1>2, <3>3, DropRecords
    <3> QED
      BY <3>1, <3>4 DEF IdsIn
  <2> QED
    BY <2>1, <2>2
<1> HIDE DEF d, x, n
<1>9. ASSUME NEW i \in DOMAIN L, L[i] = x
      PROVE  Mirror(RemoveAt(L, i), d, S, C, D)
  <2> DEFINE M == RemoveAt(L, i)
  <2>1. /\ n \in Nat \ {0} /\ DOMAIN M = 1..n - 1
        /\ \A k \in 1..n - 1 : M[k] = IF k < i THEN L[k] ELSE L[k + 1]
    BY RemoveAtList DEF n
  <2> HIDE DEF M
  <2> DEFINE up(k) == IF k < i THEN k ELSE k + 1
  <2>2. ASSUME NEW k \in DOMAIN M
        PROVE  up(k) \in DOMAIN L /\ up(k) # i /\ M[k] = L[up(k)]
    BY <1>1, <2>1
  <2>3. ASSUME NEW m \in DOMAIN L, m # i
        PROVE  \E k \in DOMAIN M : up(k) = m
    <3>1. m < i => m \in 1..n - 1
      BY <1>1, <2>3
    <3>2. ~(m < i) => m - 1 \in 1..n - 1 /\ ~(m - 1 < i) /\ (m - 1) + 1 = m
      BY <1>1, <2>3
    <3> QED
      BY <2>1, <3>1, <3>2
  <2>4. \A k, l \in DOMAIN M : up(k) = up(l) => k = l
    BY <1>1, <2>1
  <2>5. \A k, l \in DOMAIN L : L[k] = L[l] => k = l
    BY DEF Mirror
  <2> HIDE DEF up
  <2>6. \A k, l \in DOMAIN M : M[k] = M[l] => k = l
    BY <2>2, <2>4, <2>5
  <2>7. Range(M) = Range(L) \ {x}
    <3>1. \A k \in DOMAIN M : M[k] \in Range(L) /\ M[k] # x
      BY <1>9, <2>2, <2>5 DEF Range
    <3>2. ASSUME NEW y \in Range(L), y # x
          PROVE  y \in Range(M)
      <4>1. PICK m \in DOMAIN L : y = L[m]
        BY DEF Range
      <4>2. PICK k \in DOMAIN M : up(k) = m
        BY <1>9, <2>3, <3>2, <4>1
      <4>3. M[k] = y
        BY <2>2, <4>1, <4>2
      <4> QED
        BY <4>2, <4>3 DEF Range
    <3> QED
      BY <3>1, <3>2 DEF Range
  <2>8. Range(M) \cup {} = S \cup IdsIn(d, D)
    BY <1>4, <1>5, <1>8, <2>7 DEF Mirror
  <2>9. S \cap IdsIn(d, D) = {}
    BY <1>8 DEF Mirror
  <2>10. Mirror(M, d, S, C, D)
    BY <1>6, <1>7, <2>6, <2>8, <2>9 DEF Mirror
  <2> QED
    BY <2>10 DEF M
<1> QED
  BY <1>5, <1>9 DEF d, x

\* A record that names an object of the program finds it in the replay.
LEMMA MirrorFinds ==
  ASSUME NEW L, NEW r, NEW S, NEW C, NEW D, Mirror(L, r, S, C, D), RecordsOf(r, C) = {}, NEW x \in S
  PROVE  x \in Range(L)
<1>1. IdsIn(r, C) = {}
  BY DEF IdsIn
<1> QED
  BY <1>1 DEF Mirror

-----------------------------------------------------------------------------
(* The mirror: what libwrap writes *)

\* Records that only destroy, written when none is unread, keep the replay's list in step.
LEMMA MirrorWrite ==
  ASSUME NEW L, NEW S, NEW C, NEW D, Mirror(L, <<>>, S, C, D),
         NEW r, RecordsOf(r, C) = {}, \A j, k \in RecordsOf(r, D) : r[j].id = r[k].id => j = k,
         IdsIn(r, D) \subseteq S
  PROVE  Mirror(L, r, S \ IdsIn(r, D), C, D)
<1>1. \A a : IdsIn(<<>>, a) = {}
  BY DEF IdsIn, RecordsOf
<1>2. Range(L) = S
  BY <1>1 DEF Mirror
<1>3. IdsIn(r, C) = {}
  BY DEF IdsIn
<1> QED
  BY <1>2, <1>3 DEF Mirror

\* A record of a new identity keeps the replay's list in step.
LEMMA MirrorAnnounce ==
  ASSUME NEW L, NEW S, NEW C, NEW D, Mirror(L, <<>>, S, C, D), C # D,
         NEW c, c.act = C, c.id \notin S
  PROVE  Mirror(L, <<c>>, S \cup {c.id}, C, D)
<1> DEFINE r == <<c>>
<1>1. \A a : IdsIn(<<>>, a) = {}
  BY DEF IdsIn, RecordsOf
<1>2. Range(L) = S
  BY <1>1 DEF Mirror
<1>3. DOMAIN r = {1} /\ r[1] = c /\ Len(r) = 1
  OBVIOUS
<1> HIDE DEF r
<1>4. RecordsOf(r, C) = {1} /\ RecordsOf(r, D) = {}
  BY <1>3 DEF RecordsOf
<1>5. IdsIn(r, C) = {c.id} /\ IdsIn(r, D) = {}
  BY <1>3, <1>4 DEF IdsIn
<1>6. Mirror(L, r, S \cup {c.id}, C, D)
  BY <1>2, <1>3, <1>4, <1>5 DEF Mirror
<1> QED
  BY <1>6 DEF r

\* A single record about something else.
LEMMA MirrorOne ==
  ASSUME NEW L, NEW S, NEW C, NEW D, Mirror(L, <<>>, S, C, D), NEW c, c.act # C, c.act # D
  PROVE  Mirror(L, <<c>>, S, C, D)
<1> DEFINE r == <<c>>
<1>3. DOMAIN r = {1} /\ r[1] = c
  OBVIOUS
<1> HIDE DEF r
<1>4. RecordsOf(r, C) = {} /\ RecordsOf(r, D) = {}
  BY <1>3 DEF RecordsOf
<1>5. IdsIn(r, D) = {}
  BY <1>4 DEF IdsIn
<1>6. Mirror(L, r, S \ {}, C, D)
  BY <1>4, <1>5, MirrorWrite
<1> QED
  BY <1>6 DEF r

\* A single destruction.
LEMMA MirrorRetire ==
  ASSUME NEW L, NEW S, NEW C, NEW D, Mirror(L, <<>>, S, C, D), C # D, NEW c, c.act = D, c.id \in S
  PROVE  Mirror(L, <<c>>, S \ {c.id}, C, D)
<1> DEFINE r == <<c>>
<1>3. DOMAIN r = {1} /\ r[1] = c
  OBVIOUS
<1> HIDE DEF r
<1>4. RecordsOf(r, C) = {} /\ RecordsOf(r, D) = {1}
  BY <1>3 DEF RecordsOf
<1>5. IdsIn(r, D) = {c.id}
  BY <1>3, <1>4 DEF IdsIn
<1>6. Mirror(L, r, S \ {c.id}, C, D)
  BY <1>4, <1>5, MirrorWrite
<1> QED
  BY <1>6 DEF r

-----------------------------------------------------------------------------
(* The shadow's lists, one for each file *)

IsTable(T) == DOMAIN T = Files /\ \A f \in Files : T[f] \in Seq(Range(T[f]))

\* The table with another list for the file
WithList(T, f, s) == [T EXCEPT ![f] = s]

\* The table with another entry in that place of the file's list
WithEntry(T, f, i, b) == [T EXCEPT ![f][i] = b]

\* What a table holds is live.
LEMMA InLiveIds ==
  ASSUME NEW T, NEW f \in Files, NEW i \in DOMAIN T[f]
  PROVE  T[f][i].id \in LiveIds(T)
BY DEF LiveIds, IdsOf

\* The ids of the entries stay.
LEMMA SameIds ==
  ASSUME NEW T, NEW U, UniqueIds(T),
         \A f \in Files : /\ DOMAIN U[f] = DOMAIN T[f]
                          /\ \A i \in DOMAIN T[f] : U[f][i].id = T[f][i].id
  PROVE  UniqueIds(U) /\ LiveIds(U) = LiveIds(T)
<1>1. UniqueIds(U)
  BY DEF UniqueIds
<1>2. \A f \in Files : IdsOf(U[f]) = IdsOf(T[f])
  BY DEF IdsOf
<1> QED
  BY <1>1, <1>2 DEF LiveIds

\* list_add_tail of a new identity: the live identities grow by it.
LEMMA AddedIds ==
  ASSUME NEW T, IsTable(T), UniqueIds(T), NEW f \in Files, NEW x, x.id \notin LiveIds(T),
         NEW U, U = [T EXCEPT ![f] = Append(T[f], x)]
  PROVE  IsTable(U) /\ UniqueIds(U) /\ LiveIds(U) = LiveIds(T) \cup {x.id}
<1> DEFINE n == Len(T[f])
           r == Append(T[f], x)
<1>1. T[f] \in Seq(Range(T[f])) /\ n \in Nat /\ DOMAIN T[f] = 1..n
  BY ListIs DEF IsTable
<1>2. /\ r \in Seq(Range(r)) /\ DOMAIN r = 1..n + 1
      /\ \A i \in 1..n : r[i] = T[f][i]
      /\ r[n + 1] = x
  BY <1>1, AppendList
<1>3. DOMAIN U = Files /\ U[f] = r /\ \A e \in Files \ {f} : U[e] = T[e]
  BY DEF IsTable
<1> HIDE DEF n, r
<1>4. IsTable(U)
  BY <1>2, <1>3 DEF IsTable
<1>5. ASSUME NEW e \in Files, NEW i \in DOMAIN U[e]
      PROVE  \/ e = f /\ i = n + 1 /\ U[e][i] = x
             \/ i \in DOMAIN T[e] /\ U[e][i] = T[e][i] /\ T[e][i].id # x.id
  <2>1. i \in DOMAIN T[e] => T[e][i].id # x.id
    BY InLiveIds
  <2>2. CASE e = f
    <3>1. i \in 1..n \/ i = n + 1
      BY <1>1, <1>2, <1>3, <2>2
    <3> QED
      BY <1>1, <1>2, <1>3, <2>1, <2>2, <3>1
  <2>3. CASE e # f
    BY <1>3, <2>1, <2>3
  <2> QED
    BY <2>2, <2>3
<1>6. UniqueIds(U)
  <2> SUFFICES ASSUME NEW e \in Files, NEW g \in Files, NEW i \in DOMAIN U[e], NEW j \in DOMAIN U[g],
                      U[e][i].id = U[g][j].id
               PROVE  e = g /\ i = j
    BY DEF UniqueIds
  <2>1. /\ \/ e = f /\ i = n + 1 /\ U[e][i] = x
           \/ i \in DOMAIN T[e] /\ U[e][i] = T[e][i] /\ T[e][i].id # x.id
        /\ \/ g = f /\ j = n + 1 /\ U[g][j] = x
           \/ j \in DOMAIN T[g] /\ U[g][j] = T[g][j] /\ T[g][j].id # x.id
    BY <1>5
  <2>2. i \in DOMAIN T[e] /\ j \in DOMAIN T[g] /\ T[e][i].id = T[g][j].id => e = g /\ i = j
    BY DEF UniqueIds
  <2> QED
    BY <2>1, <2>2
<1>7. \A e \in Files \ {f} : IdsOf(U[e]) = IdsOf(T[e])
  BY <1>3
<1>8. IdsOf(U[f]) = IdsOf(T[f]) \cup {x.id}
  <2>1. ASSUME NEW i \in DOMAIN r
        PROVE  r[i].id \in IdsOf(T[f]) \cup {x.id}
    <3>1. i \in 1..n \/ i = n + 1
      BY <1>1, <1>2
    <3> QED
      BY <1>1, <1>2, <3>1 DEF IdsOf
  <2>2. ASSUME NEW i \in DOMAIN T[f]
        PROVE  T[f][i].id \in IdsOf(r)
    <3>1. i \in DOMAIN r /\ r[i] = T[f][i]
      BY <1>1, <1>2
    <3> QED
      BY <3>1 DEF IdsOf
  <2>3. x.id \in IdsOf(r)
    <3>1. n + 1 \in DOMAIN r /\ r[n + 1] = x
      BY <1>1, <1>2
    <3> QED
      BY <3>1 DEF IdsOf
  <2>4. IdsOf(r) \subseteq IdsOf(T[f]) \cup {x.id}
    BY <2>1 DEF IdsOf
  <2>5. IdsOf(T[f]) \subseteq IdsOf(r)
    BY <2>2 DEF IdsOf
  <2> QED
    BY <1>3, <2>3, <2>4, <2>5
<1>9. LiveIds(U) = LiveIds(T) \cup {x.id}
  BY <1>7, <1>8 DEF LiveIds
<1> QED
  BY <1>4, <1>6, <1>9

\* list_del: the live identities lose the entry's.
LEMMA RemovedIds ==
  ASSUME NEW T, IsTable(T), UniqueIds(T), NEW f \in Files, NEW k \in DOMAIN T[f],
         NEW U, U = WithList(T, f, RemoveAt(T[f], k))
  PROVE  IsTable(U) /\ UniqueIds(U) /\ LiveIds(U) = LiveIds(T) \ {T[f][k].id}
<1> DEFINE n == Len(T[f])
           r == RemoveAt(T[f], k)
           up(i) == IF i < k THEN i ELSE i + 1
<1>1. T[f] \in Seq(Range(T[f])) /\ DOMAIN T[f] = 1..n
  BY ListIs DEF IsTable
<1>2. /\ r \in Seq(Range(r)) /\ n \in Nat \ {0} /\ DOMAIN r = 1..n - 1
      /\ \A i \in 1..n - 1 : r[i] = IF i < k THEN T[f][i] ELSE T[f][i + 1]
  BY <1>1, RemoveAtList
<1>3. DOMAIN U = Files /\ U[f] = r /\ \A e \in Files \ {f} : U[e] = T[e]
  BY DEF IsTable, WithList
<1> HIDE DEF n, r
<1>4. IsTable(U)
  BY <1>2, <1>3 DEF IsTable
<1>5. ASSUME NEW i \in DOMAIN r
      PROVE  up(i) \in DOMAIN T[f] /\ up(i) # k /\ r[i] = T[f][up(i)]
  BY <1>1, <1>2
<1>6. \A i, j \in DOMAIN r : up(i) = up(j) => i = j
  BY <1>1, <1>2
<1>7. ASSUME NEW m \in DOMAIN T[f], m # k
      PROVE  \E i \in DOMAIN r : up(i) = m
  <2>1. m < k => m \in 1..n - 1
    BY <1>1, <1>2, <1>7
  <2>2. ~(m < k) => m - 1 \in 1..n - 1 /\ ~(m - 1 < k) /\ (m - 1) + 1 = m
    BY <1>1, <1>2, <1>7
  <2> QED
    BY <1>2, <2>1, <2>2
<1> DEFINE at(e, i) == IF e = f THEN up(i) ELSE i
<1>8. ASSUME NEW e \in Files, NEW i \in DOMAIN U[e]
      PROVE  at(e, i) \in DOMAIN T[e] /\ U[e][i] = T[e][at(e, i)]
  BY <1>3, <1>5
<1>9. ASSUME NEW e \in Files, NEW i \in DOMAIN U[e], NEW j \in DOMAIN U[e], at(e, i) = at(e, j)
      PROVE  i = j
  BY <1>3, <1>6, <1>9
<1> HIDE DEF up
<1>10. UniqueIds(U)
  <2> HIDE DEF at
  <2> SUFFICES ASSUME NEW e \in Files, NEW g \in Files, NEW i \in DOMAIN U[e], NEW j \in DOMAIN U[g],
                      U[e][i].id = U[g][j].id
               PROVE  e = g /\ i = j
    BY DEF UniqueIds
  <2>1. e = g /\ at(e, i) = at(g, j)
    BY <1>8 DEF UniqueIds
  <2> QED
    BY <1>9, <2>1
<1>11. \A e \in Files \ {f} : IdsOf(U[e]) = IdsOf(T[e])
  BY <1>3
<1>12. IdsOf(U[f]) = IdsOf(T[f]) \ {T[f][k].id}
  <2>1. ASSUME NEW i \in DOMAIN r
        PROVE  r[i].id \in IdsOf(T[f]) /\ r[i].id # T[f][k].id
    BY <1>5 DEF IdsOf, UniqueIds
  <2>2. ASSUME NEW m \in DOMAIN T[f], m # k
        PROVE  T[f][m].id \in IdsOf(r)
    <3>1. PICK i \in DOMAIN r : up(i) = m
      BY <1>7, <2>2
    <3> QED
      BY <1>5, <3>1 DEF IdsOf
  <2>3. IdsOf(r) \subseteq IdsOf(T[f]) \ {T[f][k].id}
    BY <2>1 DEF IdsOf
  <2>4. IdsOf(T[f]) \ {T[f][k].id} \subseteq IdsOf(r)
    BY <2>2 DEF IdsOf
  <2> QED
    BY <1>3, <2>3, <2>4
<1>13. ASSUME NEW e \in Files \ {f}
       PROVE  T[f][k].id \notin IdsOf(T[e])
  BY DEF IdsOf, UniqueIds
<1>14. LiveIds(U) = LiveIds(T) \ {T[f][k].id}
  BY <1>11, <1>12, <1>13 DEF LiveIds
<1> QED
  BY <1>4, <1>10, <1>14

\* Emptying a file's list: the live identities lose that list's.
LEMMA ClearedIds ==
  ASSUME NEW T, IsTable(T), UniqueIds(T), NEW f \in Files, NEW U, U = [T EXCEPT ![f] = <<>>]
  PROVE  IsTable(U) /\ UniqueIds(U) /\ LiveIds(U) = LiveIds(T) \ IdsOf(T[f])
<1>1. DOMAIN U = Files /\ U[f] = <<>> /\ \A e \in Files \ {f} : U[e] = T[e]
  BY DEF IsTable
<1>2. IsTable(U)
  <2>1. <<>> \in Seq(Range(<<>>))
    OBVIOUS
  <2> QED
    BY <1>1, <2>1 DEF IsTable
<1>3. DOMAIN U[f] = {}
  BY <1>1
<1>4. UniqueIds(U)
  BY <1>1, <1>3 DEF UniqueIds
<1>5. \A e \in Files \ {f} : IdsOf(U[e]) = IdsOf(T[e])
  BY <1>1
<1>6. IdsOf(U[f]) = {}
  BY <1>3 DEF IdsOf
<1>7. \A e \in Files \ {f} : IdsOf(T[e]) \cap IdsOf(T[f]) = {}
  BY DEF IdsOf, UniqueIds
<1> QED
  BY <1>2, <1>4, <1>5, <1>6, <1>7 DEF LiveIds

-----------------------------------------------------------------------------
(* Reading on *)

\* One list after another.
LEMMA ConcatList ==
  ASSUME NEW a, a \in Seq(Range(a)), NEW b, b \in Seq(Range(b))
  PROVE  LET r == a \o b IN
         /\ r \in Seq(Range(r)) /\ DOMAIN r = 1..Len(a) + Len(b) /\ Len(r) = Len(a) + Len(b)
         /\ Len(a) \in Nat /\ Len(b) \in Nat
         /\ \A i \in 1..Len(a) : r[i] = a[i]
         /\ \A j \in 1..Len(b) : Len(a) + j \in DOMAIN r /\ r[Len(a) + j] = b[j]
<1> DEFINE r == a \o b
           S == Range(a) \cup Range(b)
           m == Len(a)
           n == Len(b)
<1>1. m \in Nat /\ n \in Nat /\ DOMAIN a = 1..m /\ DOMAIN b = 1..n
  BY ListIs
<1>2. a \in Seq(S) /\ b \in Seq(S)
  OBVIOUS
<1> HIDE DEF S
<1>3. r \in Seq(S) /\ Len(r) = m + n
      /\ \A k \in 1..m + n : r[k] = IF k <= m THEN a[k] ELSE b[k - m]
  BY <1>2, ConcatProperties
<1> HIDE DEF r
<1>4. Len(r) \in Nat /\ r = [i \in 1..Len(r) |-> r[i]]
  BY <1>3
<1>5. r \in Seq(Range(r)) /\ DOMAIN r = 1..Len(r)
  BY <1>4, IsList
<1> HIDE DEF m, n
<1>6. \A i \in 1..m : r[i] = a[i]
  BY <1>1, <1>3
<1>7. ASSUME NEW j \in 1..n
      PROVE  m + j \in 1..m + n /\ r[m + j] = b[j]
  <2>1. m + j \in 1..m + n /\ ~(m + j <= m) /\ (m + j) - m = j
    BY <1>1
  <2> QED
    BY <1>3, <2>1
<1> QED
  BY <1>1, <1>3, <1>5, <1>6, <1>7 DEF r, m, n

\* The next record is read: it is kept, or the records so far are carried out.
LEMMA ReadOn ==
  ASSUME NEW p, p \in Seq(Range(p)), NEW o, o \in Seq(Range(o)), o # <<>>
  PROVE  LET r == p \o o IN
         /\ r \in Seq(Range(r)) /\ Len(p) + 1 \in 1..Len(r) /\ Len(p) \in Nat
         /\ Head(o) = r[Len(p) + 1] /\ Head(o) \in Range(r)
         /\ \A i \in 1..Len(p) : r[i] = p[i]
         /\ Tail(o) \in Seq(Range(Tail(o)))
         /\ <<>> \o Tail(o) = Drop(r, Len(p) + 1)
         /\ Append(p, Head(o)) \o Tail(o) = r
<1> DEFINE r == p \o o
           m == Len(p)
           n == Len(o)
           u == Tail(o)
<1>1. /\ m \in Nat /\ n \in Nat /\ r \in Seq(Range(r)) /\ DOMAIN r = 1..m + n /\ Len(r) = m + n
      /\ \A i \in 1..m : r[i] = p[i]
      /\ \A j \in 1..n : m + j \in DOMAIN r /\ r[m + j] = o[j]
  BY ConcatList
<1>2. n # 0 /\ DOMAIN o = 1..n /\ Head(o) = o[1]
  BY ListIs
<1>3. Len(u) = n - 1 /\ \A j \in 1..n - 1 : u[j] = o[j + 1]
  BY <1>2
<1>4. u = [j \in 1..n - 1 |-> u[j]]
  <2> DEFINE S == Range(o)
  <2>1. o \in Seq(S) /\ o # <<>>
    OBVIOUS
  <2> HIDE DEF S
  <2>2. u \in Seq(S) /\ Len(u) = n - 1
    BY <2>1
  <2> HIDE DEF u, n
  <2> QED
    BY <2>2
<1> HIDE DEF r, m, n, u
<1>5. n - 1 \in Nat
  BY <1>1, <1>2
<1>6. u \in Seq(Range(u)) /\ DOMAIN u = 1..n - 1
  BY <1>4, <1>5, IsList
<1>7. m + 1 \in 1..m + n /\ r[m + 1] = o[1]
  BY <1>1, <1>2
<1>8. Head(o) \in Range(r)
  BY <1>1, <1>2, <1>7 DEF Range
<1>9. Drop(r, m + 1) = u
  <2>1. (m + n) - (m + 1) = n - 1
    BY <1>1
  <2>2. \A j \in 1..n - 1 : j + (m + 1) = m + (j + 1) /\ j + 1 \in 1..n
    BY <1>1
  <2>3. \A j \in 1..n - 1 : r[j + (m + 1)] = u[j]
    BY <1>1, <1>3, <2>2
  <2>4. Drop(r, m + 1) = [j \in 1..n - 1 |-> r[j + (m + 1)]]
    BY <1>1, <2>1 DEF Drop
  <2> QED
    BY <1>4, <2>3, <2>4
<1>10. <<>> \o u = u
  <2>1. u \in Seq(Range(u))
    BY <1>6
  <2> QED
    BY <2>1
<1>11. Append(p, Head(o)) \o u = r
  <2> DEFINE q == Append(p, Head(o))
             w == q \o u
  <2>1. /\ q \in Seq(Range(q)) /\ DOMAIN q = 1..m + 1
        /\ \A i \in 1..m : q[i] = p[i]
        /\ q[m + 1] = Head(o)
    BY AppendList DEF m
  <2>2. Len(q) = m + 1
    BY <1>1, <2>1, ListIs
  <2> HIDE DEF q
  <2>3. /\ DOMAIN w = 1..(m + 1) + (n - 1) /\ w \in Seq(Range(w))
        /\ \A i \in 1..m + 1 : w[i] = q[i]
        /\ \A j \in 1..n - 1 : w[(m + 1) + j] = u[j]
    <3>1. /\ w \in Seq(Range(w)) /\ DOMAIN w = 1..Len(q) + Len(u)
          /\ \A i \in 1..Len(q) : w[i] = q[i]
          /\ \A j \in 1..Len(u) : w[Len(q) + j] = u[j]
      BY <1>6, <2>1, ConcatList
    <3> HIDE DEF w
    <3> QED
      BY <1>3, <2>2, <3>1
  <2> HIDE DEF w
  <2>4. DOMAIN w = 1..m + n
    BY <1>1, <2>3
  <2>5. ASSUME NEW i \in 1..m + n
        PROVE  w[i] = r[i]
    <3>1. CASE i <= m
      <4>1. i \in 1..m /\ i \in 1..m + 1
        BY <1>1, <3>1
      <4> QED
        BY <1>1, <2>1, <2>3, <4>1
    <3>2. CASE i = m + 1
      BY <1>1, <1>2, <1>7, <2>1, <2>3, <3>2
    <3>3. CASE i > m + 1
      <4> DEFINE j == i - (m + 1)
      <4>1. j \in 1..n - 1 /\ (m + 1) + j = i /\ m + (j + 1) = i /\ j + 1 \in 1..n
        BY <1>1, <3>3
      <4> HIDE DEF j
      <4>2. w[i] = u[j]
        BY <2>3, <4>1
      <4>3. u[j] = o[j + 1]
        BY <1>3, <4>1
      <4>4. r[m + (j + 1)] = o[j + 1]
        BY <1>1, <4>1
      <4> QED
        BY <4>1, <4>2, <4>3, <4>4
    <3> QED
      BY <1>1, <3>1, <3>2, <3>3
  <2>6. w = [i \in 1..m + n |-> w[i]] /\ r = [i \in 1..m + n |-> r[i]]
    BY <1>1, <2>3, <2>4
  <2>7. w = r
    BY <2>5, <2>6
  <2> QED
    BY <2>7 DEF w, q
<1> QED
  BY <1>1, <1>2, <1>6, <1>7, <1>8, <1>9, <1>10, <1>11 DEF r, m, n, u

\* What is left is complete.
LEMMA CompleteDrop ==
  ASSUME NEW r, r \in Seq(Range(r)), Complete(r), NEW k \in 1..Len(r),
         r[k].act \notin {"BO_LOAD_DATA", "JOB_SUBMIT"},
         r[k].act = "gathers" /\ k + 1 \in DOMAIN r => r[k + 1].act # "relocs"
  PROVE  Complete(Drop(r, k))
<1> DEFINE d == Drop(r, k)
<1>1. Len(r) \in Nat /\ DOMAIN r = 1..Len(r) /\ k \in 0..Len(r)
  BY ListIs
<1>2. /\ DOMAIN d = 1..Len(r) - k
      /\ \A i \in 1..Len(r) - k : i + k \in DOMAIN r /\ d[i] = r[i + k]
  BY <1>1, DropList
<1> HIDE DEF d
<1>3. ASSUME k + 1 \in DOMAIN r
      PROVE  r[k + 1].act \notin Payloads
  BY <1>1, <1>3 DEF Complete, Payloads
<1> SUFFICES ASSUME NEW i \in DOMAIN d
             PROVE  /\ i = 1 => d[i].act \notin Payloads
                    /\ d[i].act \in {"BO_LOAD_DATA", "JOB_SUBMIT"} => i + 1 \in DOMAIN d
                    /\ d[i].act = "DEL_FRAMEBUFFER" => Len(d) = 1
                    /\ i + 1 \in DOMAIN d =>
                        /\ d[i].act = "BO_LOAD_DATA" <=> d[i + 1].act = "page"
                        /\ d[i].act = "JOB_SUBMIT" <=> d[i + 1].act = "gathers"
                        /\ d[i + 1].act = "relocs" => d[i].act = "gathers"
                        /\ WithRelocs(d[i]) => i + 2 \in DOMAIN d
                    /\ i + 2 \in DOMAIN d =>
                        /\ d[i].act = "JOB_SUBMIT" => (WithRelocs(d[i]) <=> d[i + 2].act = "relocs")
                        /\ d[i + 2].act = "relocs" => /\ d[i + 2].gather_id = d[i + 1].id
                                                      /\ d[i + 2].ctx_id = d[i + 1].ctx_id
  BY DEF Complete, d
<1>4. i \in 1..Len(r) - k /\ i + k \in DOMAIN r /\ d[i] = r[i + k] /\ i + k # 1
  BY <1>1, <1>2
<1>5. /\ i + 1 \in DOMAIN d <=> (i + k) + 1 \in DOMAIN r
      /\ i + 2 \in DOMAIN d <=> (i + k) + 2 \in DOMAIN r
      /\ (i + k) + 1 = (i + 1) + k /\ (i + k) + 2 = (i + 2) + k
  BY <1>1, <1>2, <1>4
<1>6. i + 1 \in DOMAIN d => d[i + 1] = r[(i + k) + 1]
  BY <1>2, <1>5
<1>7. i + 2 \in DOMAIN d => d[i + 2] = r[(i + k) + 2] /\ i + 1 \in DOMAIN d
  BY <1>1, <1>2, <1>4, <1>5
<1>8. i = 1 => d[i].act \notin Payloads
  <2>1. i = 1 => i + k = k + 1
    BY <1>1
  <2> QED
    BY <1>3, <1>4, <2>1
<1>9. d[i].act = "DEL_FRAMEBUFFER" => Len(d) = 1
  <2> SUFFICES ASSUME d[i].act = "DEL_FRAMEBUFFER"
               PROVE  FALSE
    OBVIOUS
  <2>1. Len(r) = 1
    BY <1>4 DEF Complete
  <2> QED
    BY <1>1, <1>4, <2>1
<1> DEFINE j == i + k
<1>10. j \in DOMAIN r /\ d[i] = r[j]
  BY <1>4
<1>11. /\ r[j].act \in {"BO_LOAD_DATA", "JOB_SUBMIT"} => j + 1 \in DOMAIN r
       /\ j + 1 \in DOMAIN r =>
           /\ r[j].act = "BO_LOAD_DATA" <=> r[j + 1].act = "page"
           /\ r[j].act = "JOB_SUBMIT" <=> r[j + 1].act = "gathers"
           /\ r[j + 1].act = "relocs" => r[j].act = "gathers"
           /\ WithRelocs(r[j]) => j + 2 \in DOMAIN r
       /\ j + 2 \in DOMAIN r =>
           /\ r[j].act = "JOB_SUBMIT" => (WithRelocs(r[j]) <=> r[j + 2].act = "relocs")
           /\ r[j + 2].act = "relocs" => /\ r[j + 2].gather_id = r[j + 1].id
                                         /\ r[j + 2].ctx_id = r[j + 1].ctx_id
  <2> HIDE DEF j
  <2> QED
    BY <1>10 DEF Complete
<1> QED
  BY <1>5, <1>6, <1>7, <1>8, <1>9, <1>10, <1>11

\* The first place of an id that is in the list
LEMMA PlacesFind ==
  ASSUME NEW s, s \in Seq(Range(s)), NEW x \in Range(s)
  PROVE  Places(s, x) # {}
<1> DEFINE T == {i \in DOMAIN s : s[i] = x}
<1>1. Len(s) \in Nat /\ DOMAIN s = 1..Len(s)
  BY ListIs
<1>2. T \in SUBSET Nat /\ T # {}
  BY <1>1 DEF Range
<1>3. PICK m \in T : \A i \in T : m <= i
  BY <1>2, LeastNat
<1>4. m \in 1..Len(s) /\ s[m] = x
  BY <1>1
<1>5. \A j \in 1..(m - 1) : j \in DOMAIN s /\ ~(m <= j)
  BY <1>1, <1>4
<1>6. \A j \in 1..(m - 1) : s[j] # x
  BY <1>3, <1>5
<1>7. m \in Places(s, x)
  BY <1>1, <1>4, <1>6 DEF Places
<1> QED
  BY <1>7

\* The identities of a list, in its order.
LEMMA IdListIs ==
  ASSUME NEW s, s \in Seq(Range(s))
  PROVE  /\ IdList(s) \in Seq(Range(IdList(s))) /\ DOMAIN IdList(s) = DOMAIN s
         /\ Len(IdList(s)) = Len(s)
         /\ \A i \in DOMAIN s : IdList(s)[i] = s[i].id
         /\ IdsOf(s) = Range(IdList(s))
<1>1. Len(s) \in Nat /\ DOMAIN s = 1..Len(s)
  BY ListIs
<1> DEFINE n == Len(s)
           l == IdList(s)
<1>2. l = [i \in 1..n |-> s[i].id]
  BY <1>1 DEF IdList
<1>3. n \in Nat /\ l = [i \in 1..n |-> l[i]]
  BY <1>1, <1>2
<1> HIDE DEF n, l
<1>4. l \in Seq(Range(l)) /\ DOMAIN l = 1..n /\ Len(l) = n
  BY <1>3, IsList
<1> QED
  BY <1>1, <1>2, <1>4 DEF n, l, IdsOf, Range

\* replay's lookup_bo finds a buffer that is listed.
LEMMA LookupBoFinds ==
  ASSUME bo_list \in Seq(Range(bo_list)), NEW x \in Range(IdList(bo_list))
  PROVE  lookup_bo(x) # {}
<1>1. /\ IdList(bo_list) \in Seq(Range(IdList(bo_list))) /\ DOMAIN IdList(bo_list) = DOMAIN bo_list
      /\ \A i \in DOMAIN bo_list : IdList(bo_list)[i] = bo_list[i].id
  BY IdListIs
<1>2. PICK i \in Places(IdList(bo_list), x) : TRUE
  BY <1>1, PlacesFind
<1>3. DOMAIN bo_list = 1..Len(bo_list) /\ Len(bo_list) \in Nat
  BY ListIs
<1>4. i \in DOMAIN bo_list /\ bo_list[i].id = x
  BY <1>1, <1>2 DEF Places
<1>5. \A j \in 1..(i - 1) : j \in DOMAIN bo_list
  BY <1>3, <1>4
<1>6. \A j \in 1..(i - 1) : bo_list[j].id # x
  BY <1>1, <1>2, <1>5 DEF Places
<1>7. i \in lookup_bo(x)
  BY <1>4, <1>6 DEF lookup_bo
<1> QED
  BY <1>7

\* replay's lookup_framebuffer finds a framebuffer that was made.
LEMMA LookupFbFinds ==
  ASSUME fb_list \in Seq(Range(fb_list)), NEW bo, NEW ctx, FbMade(fb_list, bo, ctx)
  PROVE  lookup_framebuffer(bo, ctx) # {}
<1> DEFINE T == {i \in DOMAIN fb_list : fb_list[i].bo_id = bo /\ fb_list[i].ctx_id = ctx}
<1>1. Len(fb_list) \in Nat /\ DOMAIN fb_list = 1..Len(fb_list)
  BY ListIs
<1>2. T \in SUBSET Nat /\ T # {}
  BY <1>1 DEF FbMade
<1>3. PICK m \in T : \A i \in T : m <= i
  BY <1>2, LeastNat
<1>4. m \in 1..Len(fb_list) /\ fb_list[m].bo_id = bo /\ fb_list[m].ctx_id = ctx
  BY <1>1
<1>5. \A j \in 1..(m - 1) : j \in DOMAIN fb_list /\ ~(m <= j)
  BY <1>1, <1>4
<1>6. \A j \in 1..(m - 1) : ~(fb_list[j].bo_id = bo /\ fb_list[j].ctx_id = ctx)
  BY <1>3, <1>5
<1>7. m \in lookup_framebuffer(bo, ctx)
  BY <1>1, <1>4, <1>6 DEF lookup_framebuffer
<1> QED
  BY <1>7

-----------------------------------------------------------------------------
(* One record is read *)

\* The record replay reads next is the first one after those it holds.
LEMMA UnreadIs ==
  ASSUME NEW t \in Threads, ReplayInv(t), out[t] # <<>>
  PROVE  LET r == Unread(t)
             c == Head(out[t])
             m == Len(pending) + 1
         IN
         /\ r \in Seq(Range(r)) /\ m \in 1..Len(r) /\ c = r[m] /\ c \in Range(r) /\ RecordInv(c)
         /\ \A i \in 1..Len(pending) : r[i] = pending[i]
         /\ <<>> \o Tail(out[t]) = Drop(r, m)
         /\ Append(pending, c) \o Tail(out[t]) = r
         /\ Tail(out[t]) \in Seq(Range(Tail(out[t])))
<1>1. pending \in Seq(Range(pending)) /\ out[t] \in Seq(Range(out[t]))
  BY DEF ReplayInv, RecordsInv
<1>2. \A c \in Range(pending \o out[t]) : RecordInv(c)
  BY DEF ReplayInv, RecordsInv, Unread
<1> QED
  BY <1>1, <1>2, ReadOn DEF Unread

\* What libwrap still writes in ReplayInv once a record has been written and read
LEMMA ReadDone ==
  ASSUME NEW t, Threads = {t}, ReplayInv(t), enabled, record_write_data(t),
         status' = "running", compression' = compression,
         ctx_list' \in Seq(Range(ctx_list')), bo_list' \in Seq(Range(bo_list')),
         fb_list' \in Seq(Range(fb_list')), job_ctx_list' \in Seq(Range(job_ctx_list')),
         RecordsInv(t)', MirrorInv(t)', FbInv(t)'
  PROVE  ReplayInv(t)'
<1>1. /\ UNCHANGED <<program, rec_ctx, bos, contexts, inited, enabled, ctx_cnt, bos_cnt, job_ctx_cnt>>
      /\ out[t] # <<>>
      /\ call' = [call EXCEPT ![t] = NoCall] \/ call' = call
  BY DEF record_write_data, shadow, recorder
<1>2. status = "running"
  BY DEF ReplayInv
<1>3. act_cnt = 2 /\ act_cnt' = 2
  BY <1>2 DEF ReplayInv, StartInv, record_write_data, Consume
<1>4. ListsInv'
  BY <1>1 DEF ReplayInv, ListsInv, UniqueIds, Recorded
<1>5. DOMAIN call = Threads
  BY DEF ReplayInv, OpenInv
<1>6. call'[t] = call[t] \/ call'[t] = NoCall
  BY <1>1, <1>5
<1>7. OpenInv(t)'
  <2>1. LiveCtxs' = LiveCtxs /\ Recorded' = Recorded
    BY <1>1 DEF LiveCtxs, Recorded
  <2>2. call[t].op # "counting"
    BY <1>1 DEF ReplayInv, OpenInv
  <2>3. DOMAIN call' = Threads
    BY <1>1, <1>5
  <2> QED
    BY <1>1, <1>6, <2>1, <2>2, <2>3, CallFields DEF ReplayInv, OpenInv
<1>8. StartInv(t)'
  <2>1. inited /\ compression = program.compression /\ call[t].op # "start"
    BY DEF ReplayInv, StartInv
  <2> QED
    BY <1>1, <1>3, <1>6, <2>1, CallFields DEF StartInv
<1> QED
  BY <1>4, <1>7, <1>8 DEF ReplayInv

\* What a record names stays while the program's objects stay and no framebuffer is lost.
LEMMA RecordSame ==
  ASSUME NEW c, RecordInv(c), UNCHANGED <<program, rec_ctx, bos, contexts, enabled>>,
         \A bo, ctx : FbMade(fb_list, bo, ctx) => FbMade(fb_list', bo, ctx)
  PROVE  RecordInv(c)'
<1>1. LiveCtxs' = LiveCtxs
  BY DEF LiveCtxs, Recorded
<1>2. FbLive(c.bo_id)' <=> FbLive(c.bo_id)
  BY DEF FbLive
<1>3. FbMade(fb_list, c.bo_id, c.ctx_id) => FbMade(fb_list', c.bo_id, c.ctx_id)
  OBVIOUS
<1> QED
  BY <1>1, <1>2, <1>3 DEF RecordInv

\* A header, with its payload if it has one, is carried out.
LEMMA CarriedOut ==
  ASSUME NEW t, Threads = {t}, ReplayInv(t), record_write_data(t), pending' = <<>>,
         NEW m, m = Len(pending) + 1, Unread(t)[m].act \notin {"BO_LOAD_DATA", "JOB_SUBMIT"},
         /\ Unread(t)[m].act = "gathers" /\ m + 1 \in DOMAIN Unread(t)
         => Unread(t)[m + 1].act # "relocs",
         \/ \A bo, ctx : FbMade(fb_list, bo, ctx) => FbMade(fb_list', bo, ctx)
         \/ Len(Unread(t)) = 1
  PROVE  RecordsInv(t)' /\ Unread(t)' = Drop(Unread(t), m)
<1> DEFINE r == Unread(t)
           d == Drop(r, m)
<1>1. /\ UNCHANGED <<program, rec_ctx, bos, contexts, enabled>>
      /\ out[t] # <<>> /\ out' = [out EXCEPT ![t] = Tail(@)]
  BY DEF record_write_data, shadow, recorder
<1>2. DOMAIN out = Threads /\ Complete(r)
  BY DEF ReplayInv, RecordsInv
<1>3. DOMAIN out' = Threads /\ out'[t] = Tail(out[t])
  BY <1>1, <1>2
<1>4. /\ r \in Seq(Range(r)) /\ m \in 1..Len(r)
      /\ <<>> \o Tail(out[t]) = Drop(r, m)
      /\ Tail(out[t]) \in Seq(Range(Tail(out[t])))
  BY <1>1, UnreadIs
<1>5. Unread(t)' = d
  BY <1>3, <1>4 DEF Unread
<1>6. Complete(d)
  BY <1>2, <1>4, CompleteDrop
<1>7. Len(r) \in Nat /\ DOMAIN r = 1..Len(r) /\ m \in 0..Len(r)
  BY <1>4, ListIs
<1>8. /\ DOMAIN d = 1..Len(r) - m
      /\ \A i \in 1..Len(r) - m : i + m \in DOMAIN r /\ d[i] = r[i + m]
  BY <1>4, <1>7, DropList
<1>9. \A c \in Range(r) : RecordInv(c)
  BY DEF ReplayInv, RecordsInv
<1> HIDE DEF r, d
<1>10. ASSUME NEW c \in Range(d)
       PROVE  RecordInv(c)'
  <2>1. PICK i \in DOMAIN d : c = d[i]
    BY DEF Range
  <2>2. i + m \in DOMAIN r /\ c = r[i + m]
    BY <1>8, <2>1
  <2>3. RecordInv(c)
    BY <1>9, <2>2 DEF Range
  <2>4. CASE \A bo, ctx : FbMade(fb_list, bo, ctx) => FbMade(fb_list', bo, ctx)
    BY <1>1, <2>3, <2>4, RecordSame
  <2>5. CASE Len(r) = 1
    BY <1>4, <1>8, <2>1, <2>5
  <2> QED
    BY <2>4, <2>5 DEF r
<1>11. pending' \in Seq(Range(pending')) /\ PendingInv'
  BY DEF PendingInv
<1>12. RecordsInv(t)'
  BY <1>3, <1>4, <1>5, <1>6, <1>10, <1>11 DEF RecordsInv
<1> QED
  BY <1>5, <1>12 DEF r, d

\* A header is kept, or a payload that is not the last.
LEMMA Kept ==
  ASSUME NEW t, Threads = {t}, ReplayInv(t), record_write_data(t),
         pending' = Append(pending, Head(out[t])), PendingInv', fb_list' = fb_list
  PROVE  RecordsInv(t)' /\ Unread(t)' = Unread(t) /\ FbInv(t)'
<1> DEFINE r == Unread(t)
<1>1. /\ UNCHANGED <<program, rec_ctx, bos, contexts, enabled>>
      /\ out[t] # <<>> /\ out' = [out EXCEPT ![t] = Tail(@)]
  BY DEF record_write_data, shadow, recorder
<1>2. DOMAIN out = Threads /\ Complete(r) /\ pending \in Seq(Range(pending))
  BY DEF ReplayInv, RecordsInv
<1>3. DOMAIN out' = Threads /\ out'[t] = Tail(out[t])
  BY <1>1, <1>2
<1>4. /\ Append(pending, Head(out[t])) \o Tail(out[t]) = r
      /\ Tail(out[t]) \in Seq(Range(Tail(out[t])))
  BY <1>1, UnreadIs
<1>5. Unread(t)' = r
  BY <1>3, <1>4 DEF Unread
<1>6. \A bo, ctx : FbMade(fb_list', bo, ctx) <=> FbMade(fb_list, bo, ctx)
  BY DEF FbMade
<1>7. \A c \in Range(r) : RecordInv(c)
  BY DEF ReplayInv, RecordsInv
<1> HIDE DEF r
<1>8. \A c \in Range(r) : RecordInv(c)'
  BY <1>1, <1>6, <1>7, RecordSame
<1>9. pending' \in Seq(Range(pending'))
  BY <1>2, AppendList
<1>10. RecordsInv(t)'
  BY <1>2, <1>3, <1>4, <1>5, <1>8, <1>9 DEF RecordsInv
<1>11. FbInv(t)
  BY DEF ReplayInv
<1>12. FbInv(t)'
  BY <1>1, <1>5, <1>6, <1>11 DEF FbInv, r
<1> QED
  BY <1>5, <1>10, <1>12 DEF r

\* The framebuffers when records are carried out.
LEMMA FbOn ==
  ASSUME NEW t \in Threads, FbInv(t), UNCHANGED <<bos, rec_ctx>>, Unread(t) \in Seq(Range(Unread(t))),
         NEW k \in 0..Len(Unread(t)), Unread(t)' = Drop(Unread(t), k),
         \A bo, ctx : FbMade(fb_list, bo, ctx) => FbMade(fb_list', bo, ctx),
         \A i \in 1..k : Unread(t)[i].act = "ADD_FRAMEBUFFER"
                           => FbMade(fb_list', Unread(t)[i].bo_id, Unread(t)[i].ctx_id)
  PROVE  FbInv(t)'
<1> DEFINE r == Unread(t)
           d == Drop(r, k)
<1>1. Len(r) \in Nat /\ DOMAIN r = 1..Len(r)
  BY ListIs
<1>2. /\ DOMAIN d = 1..Len(r) - k
      /\ \A i \in 1..Len(r) - k : i + k \in DOMAIN r /\ d[i] = r[i + k]
  BY DropList
<1>3. ASSUME NEW c \in Range(r), c.act = "ADD_FRAMEBUFFER"
      PROVE  c \in Range(d) \/ FbMade(fb_list', c.bo_id, c.ctx_id)
  <2>1. PICK i \in 1..Len(r) : c = r[i]
    BY <1>1 DEF Range
  <2>2. CASE i <= k
    <3>1. i \in 1..k
      BY <1>1, <2>2
    <3> QED
      BY <1>3, <2>1, <3>1
  <2>3. CASE ~(i <= k)
    <3>1. i - k \in 1..Len(r) - k /\ (i - k) + k = i
      BY <1>1, <2>3
    <3>2. d[i - k] = c
      BY <1>2, <2>1, <3>1
    <3> HIDE DEF d
    <3> QED
      BY <1>2, <3>1, <3>2 DEF Range
  <2> QED
    BY <2>2, <2>3
<1> HIDE DEF r, d
<1> SUFFICES ASSUME NEW f \in Files, NEW i \in DOMAIN bos[f], bos[f][i].fb_id # None
             PROVE  \/ FbMade(fb_list', bos[f][i].id, rec_ctx[f])
                    \/ \E c \in Range(d) : /\ c.act = "ADD_FRAMEBUFFER"
                                           /\ c.bo_id = bos[f][i].id /\ c.ctx_id = rec_ctx[f]
  BY DEF FbInv, d, r
<1>4. \/ FbMade(fb_list, bos[f][i].id, rec_ctx[f])
      \/ \E c \in Range(r) : /\ c.act = "ADD_FRAMEBUFFER"
                             /\ c.bo_id = bos[f][i].id /\ c.ctx_id = rec_ctx[f]
  BY DEF FbInv, r
<1>5. CASE FbMade(fb_list, bos[f][i].id, rec_ctx[f])
  BY <1>5
<1>6. ASSUME NEW c \in Range(r), c.act = "ADD_FRAMEBUFFER",
             c.bo_id = bos[f][i].id, c.ctx_id = rec_ctx[f]
      PROVE  \/ FbMade(fb_list', bos[f][i].id, rec_ctx[f])
             \/ \E x \in Range(d) : /\ x.act = "ADD_FRAMEBUFFER"
                                    /\ x.bo_id = bos[f][i].id /\ x.ctx_id = rec_ctx[f]
  <2>1. c \in Range(d) \/ FbMade(fb_list', c.bo_id, c.ctx_id)
    BY <1>3, <1>6
  <2>2. FbMade(fb_list', c.bo_id, c.ctx_id) => FbMade(fb_list', bos[f][i].id, rec_ctx[f])
    BY <1>6 DEF FbMade
  <2> QED
    BY <1>6, <2>1, <2>2
<1> QED
  BY <1>4, <1>5, <1>6

\* Carrying out the first k unread records, none or each of them followed by the lists, keeps the lists in step.
LEMMA MirrorOn ==
  ASSUME NEW t \in Threads, MirrorInv(t), UNCHANGED <<rec_ctx, bos, contexts>>,
         NEW r, r = Unread(t), r \in Seq(Range(r)), NEW k \in 0..Len(r), Unread(t)' = Drop(r, k),
         \/ /\ IdList(bo_list') = IdList(bo_list)
            /\ \A i \in 1..k : r[i].act \notin {"BO_CREATE", "BO_DESTROY"}
         \/ Mirror(IdList(bo_list'), Drop(r, k), LiveIds(bos), "BO_CREATE", "BO_DESTROY"),
         \/ /\ ctx_list' = ctx_list
            /\ \A i \in 1..k : r[i].act \notin {"CTX_CREATE", "CTX_DESTROY"}
         \/ Mirror(ctx_list', Drop(r, k), LiveCtxs, "CTX_CREATE", "CTX_DESTROY"),
         \/ /\ job_ctx_list' = job_ctx_list
            /\ \A i \in 1..k : r[i].act \notin {"JOB_CTX_CREATE", "JOB_CTX_DESTROY"}
         \/ Mirror(job_ctx_list', Drop(r, k), LiveIds(contexts), "JOB_CTX_CREATE", "JOB_CTX_DESTROY")
  PROVE  MirrorInv(t)'
<1>1. /\ Mirror(IdList(bo_list), r, LiveIds(bos), "BO_CREATE", "BO_DESTROY")
      /\ Mirror(ctx_list, r, LiveCtxs, "CTX_CREATE", "CTX_DESTROY")
      /\ Mirror(job_ctx_list, r, LiveIds(contexts), "JOB_CTX_CREATE", "JOB_CTX_DESTROY")
  BY DEF MirrorInv
<1>2. Mirror(IdList(bo_list'), Drop(r, k), LiveIds(bos), "BO_CREATE", "BO_DESTROY")
  BY <1>1, MirrorDrop
<1>3. Mirror(ctx_list', Drop(r, k), LiveCtxs, "CTX_CREATE", "CTX_DESTROY")
  BY <1>1, MirrorDrop
<1>4. Mirror(job_ctx_list', Drop(r, k), LiveIds(contexts), "JOB_CTX_CREATE", "JOB_CTX_DESTROY")
  BY <1>1, MirrorDrop
<1>5. LiveCtxs' = LiveCtxs
  BY DEF LiveCtxs, Recorded
<1> QED
  BY <1>2, <1>3, <1>4, <1>5 DEF MirrorInv

\* Objects that records other than their creation name
LEMMA NoCreation ==
  ASSUME NEW L, NEW r, r \in Seq(Range(r)), NEW S, NEW C, NEW D, Mirror(L, r, S, C, D),
         NEW i \in DOMAIN r, r[i].act # C
  PROVE  RecordsOf(r, C) = {}
<1> SUFFICES ASSUME NEW j \in RecordsOf(r, C)
             PROVE  FALSE
  OBVIOUS
<1>1. Len(r) \in Nat /\ DOMAIN r = 1..Len(r)
  BY ListIs
<1>2. Len(r) = 1
  BY DEF Mirror
<1>3. j \in 1..Len(r) /\ r[j].act = C /\ i \in 1..Len(r)
  BY <1>1 DEF RecordsOf
<1>4. i = j
  BY <1>2, <1>3
<1> QED
  BY <1>3, <1>4

\* What an unread record names, other than what it creates, is found by replay.
LEMMA Finds ==
  ASSUME NEW t \in Threads, ReplayInv(t), NEW c \in Range(Unread(t)), NEW x
  PROVE  /\ c.act # "BO_CREATE" /\ x \in LiveIds(bos) => lookup_bo(x) # {}
         /\ c.act # "CTX_CREATE" /\ x \in LiveCtxs => Has(ctx_list, x)
         /\ c.act # "JOB_CTX_CREATE" /\ x \in LiveIds(contexts) => Has(job_ctx_list, x)
<1> DEFINE r == Unread(t)
<1>1. PICK i \in DOMAIN r : c = r[i]
  BY DEF Range
<1>2. r \in Seq(Range(r))
  BY ConcatList DEF ReplayInv, RecordsInv, Unread
<1>3. /\ Mirror(IdList(bo_list), r, LiveIds(bos), "BO_CREATE", "BO_DESTROY")
      /\ Mirror(ctx_list, r, LiveCtxs, "CTX_CREATE", "CTX_DESTROY")
      /\ Mirror(job_ctx_list, r, LiveIds(contexts), "JOB_CTX_CREATE", "JOB_CTX_DESTROY")
  BY DEF ReplayInv, MirrorInv
<1>4. /\ ctx_list \in Seq(Range(ctx_list)) /\ bo_list \in Seq(Range(bo_list))
      /\ job_ctx_list \in Seq(Range(job_ctx_list))
  BY DEF ReplayInv, ListsInv
<1> HIDE DEF r
<1>5. ASSUME c.act # "BO_CREATE", x \in LiveIds(bos)
      PROVE  lookup_bo(x) # {}
  <2>1. RecordsOf(r, "BO_CREATE") = {}
    BY <1>1, <1>2, <1>3, <1>5, NoCreation
  <2>2. x \in Range(IdList(bo_list))
    BY <1>3, <1>5, <2>1, MirrorFinds
  <2> QED
    BY <1>4, <2>2, LookupBoFinds
<1>6. ASSUME c.act # "CTX_CREATE", x \in LiveCtxs
      PROVE  Has(ctx_list, x)
  <2>1. RecordsOf(r, "CTX_CREATE") = {}
    BY <1>1, <1>2, <1>3, <1>6, NoCreation
  <2>2. x \in Range(ctx_list)
    BY <1>3, <1>6, <2>1, MirrorFinds
  <2> QED
    BY <1>4, <2>2, PlacesFind DEF Has
<1>7. ASSUME c.act # "JOB_CTX_CREATE", x \in LiveIds(contexts)
      PROVE  Has(job_ctx_list, x)
  <2>1. RecordsOf(r, "JOB_CTX_CREATE") = {}
    BY <1>1, <1>2, <1>3, <1>7, NoCreation
  <2>2. x \in Range(job_ctx_list)
    BY <1>3, <1>7, <2>1, MirrorFinds
  <2> QED
    BY <1>4, <2>2, PlacesFind DEF Has
<1> QED
  BY <1>5, <1>6, <1>7

\* list_add_tail adds its identity at the end.
LEMMA IdListAppend ==
  ASSUME NEW s, s \in Seq(Range(s)), NEW x
  PROVE  IdList(Append(s, x)) = Append(IdList(s), x.id)
<1> DEFINE a == IdList(Append(s, x))
           b == Append(IdList(s), x.id)
           n == Len(s)
<1>1. n \in Nat /\ DOMAIN s = 1..n
  BY ListIs
<1>2. /\ DOMAIN Append(s, x) = 1..n + 1
      /\ \A i \in 1..n : Append(s, x)[i] = s[i]
      /\ Append(s, x)[n + 1] = x
  BY AppendList
<1>3. /\ IdList(s) \in Seq(Range(IdList(s))) /\ DOMAIN IdList(s) = 1..n
      /\ \A i \in 1..n : IdList(s)[i] = s[i].id
  BY <1>1, IdListIs
<1>4. Len(IdList(s)) = n
  BY <1>1, <1>3, ListIs
<1>5. /\ b \in Seq(Range(b)) /\ DOMAIN b = 1..n + 1
      /\ \A i \in 1..n : b[i] = s[i].id
      /\ b[n + 1] = x.id
  BY <1>3, <1>4, AppendList
<1>6. a = [i \in 1..n + 1 |-> Append(s, x)[i].id]
  BY <1>2 DEF IdList
<1>7. b = [i \in 1..n + 1 |-> b[i]]
  BY <1>5, ListIs
<1> HIDE DEF b, n
<1>8. ASSUME NEW i \in 1..n + 1
      PROVE  Append(s, x)[i].id = b[i]
  <2>1. i \in 1..n \/ i = n + 1
    BY <1>1
  <2> QED
    BY <1>2, <1>5, <2>1
<1> HIDE DEF a
<1>9. a = b
  BY <1>6, <1>7, <1>8
<1> QED
  BY <1>9 DEF a, b

\* list_del takes the identity out at the same place.
LEMMA IdListRemove ==
  ASSUME NEW s, s \in Seq(Range(s)), NEW k \in DOMAIN s
  PROVE  IdList(RemoveAt(s, k)) = RemoveAt(IdList(s), k)
<1> DEFINE a == IdList(RemoveAt(s, k))
           b == RemoveAt(IdList(s), k)
           n == Len(s)
<1>1. n \in Nat /\ DOMAIN s = 1..n
  BY ListIs
<1>2. /\ DOMAIN RemoveAt(s, k) = 1..n - 1 /\ n \in Nat \ {0}
      /\ \A i \in 1..n - 1 : RemoveAt(s, k)[i] = IF i < k THEN s[i] ELSE s[i + 1]
  BY RemoveAtList
<1>3. /\ IdList(s) \in Seq(Range(IdList(s))) /\ DOMAIN IdList(s) = 1..n
      /\ \A i \in 1..n : IdList(s)[i] = s[i].id
  BY <1>1, IdListIs
<1>4. Len(IdList(s)) = n
  BY <1>1, <1>3, ListIs
<1>5. /\ b \in Seq(Range(b)) /\ DOMAIN b = 1..n - 1
      /\ \A i \in 1..n - 1 : b[i] = IF i < k THEN IdList(s)[i] ELSE IdList(s)[i + 1]
  BY <1>1, <1>3, <1>4, RemoveAtList
<1>6. a = [i \in 1..n - 1 |-> RemoveAt(s, k)[i].id]
  BY <1>2 DEF IdList
<1>7. b = [i \in 1..n - 1 |-> b[i]]
  <2>1. b = [i \in 1..Len(b) |-> b[i]] /\ DOMAIN b = 1..Len(b)
    BY <1>5, ListIs
  <2> QED
    BY <1>5, <2>1
<1> HIDE DEF b, n
<1>8. ASSUME NEW i \in 1..n - 1
      PROVE  RemoveAt(s, k)[i].id = b[i]
  <2>1. i \in 1..n /\ i + 1 \in 1..n
    BY <1>2
  <2> QED
    BY <1>2, <1>3, <1>5, <2>1
<1> HIDE DEF a
<1>9. a = b
  BY <1>6, <1>7, <1>8
<1> QED
  BY <1>9 DEF a, b

\* A page of a buffer gets new contents: the list stays.
LEMMA StoreKeeps ==
  ASSUME bo_list \in Seq(Range(bo_list)), NEW i \in DOMAIN bo_list, NEW p, NEW v, Store(i, p, v)
  PROVE  bo_list' \in Seq(Range(bo_list')) /\ IdList(bo_list') = IdList(bo_list)
<1>1. Len(bo_list) \in Nat /\ DOMAIN bo_list = 1..Len(bo_list)
  BY ListIs
<1>2. bo_list' = [bo_list EXCEPT ![i] = [id |-> bo_list[i].id, map |-> [bo_list[i].map EXCEPT ![p] = v]]]
  BY DEF Store
<1>3. DOMAIN bo_list' = DOMAIN bo_list /\ bo_list' = [j \in DOMAIN bo_list |-> bo_list'[j]]
  BY <1>2
<1>4. bo_list' \in Seq(Range(bo_list'))
  BY <1>1, <1>3, IsList
<1>5. \A j \in DOMAIN bo_list : bo_list'[j].id = bo_list[j].id
  BY <1>2
<1> QED
  BY <1>3, <1>4, <1>5 DEF IdList

\* A record or a header with its payloads is carried out, and no framebuffer goes.
LEMMA Whole ==
  ASSUME NEW t, Threads = {t}, ReplayInv(t), enabled, record_write_data(t),
         status' = "running", compression' = compression, pending' = <<>>,
         ctx_list' \in Seq(Range(ctx_list')), bo_list' \in Seq(Range(bo_list')),
         fb_list' \in Seq(Range(fb_list')), job_ctx_list' \in Seq(Range(job_ctx_list')),
         NEW m, m = Len(pending) + 1, NEW r, r = Unread(t),
         r[m].act \notin {"BO_LOAD_DATA", "JOB_SUBMIT"},
         r[m].act = "gathers" /\ m + 1 \in DOMAIN r => r[m + 1].act # "relocs",
         \/ /\ IdList(bo_list') = IdList(bo_list)
            /\ \A i \in 1..m : r[i].act \notin {"BO_CREATE", "BO_DESTROY"}
         \/ Mirror(IdList(bo_list'), Drop(r, m), LiveIds(bos), "BO_CREATE", "BO_DESTROY"),
         \/ /\ ctx_list' = ctx_list
            /\ \A i \in 1..m : r[i].act \notin {"CTX_CREATE", "CTX_DESTROY"}
         \/ Mirror(ctx_list', Drop(r, m), LiveCtxs, "CTX_CREATE", "CTX_DESTROY"),
         \/ /\ job_ctx_list' = job_ctx_list
            /\ \A i \in 1..m : r[i].act \notin {"JOB_CTX_CREATE", "JOB_CTX_DESTROY"}
         \/ Mirror(job_ctx_list', Drop(r, m), LiveIds(contexts), "JOB_CTX_CREATE", "JOB_CTX_DESTROY"),
         \A bo, ctx : FbMade(fb_list, bo, ctx) => FbMade(fb_list', bo, ctx),
         \A i \in 1..m : r[i].act = "ADD_FRAMEBUFFER"
                           => FbMade(fb_list', r[i].bo_id, r[i].ctx_id)
  PROVE  ReplayInv(t)'
<1>1. UNCHANGED <<rec_ctx, bos, contexts>> /\ out[t] # <<>>
  BY DEF record_write_data, shadow, recorder
<1>2. r \in Seq(Range(r)) /\ m \in 1..Len(r)
  BY <1>1, UnreadIs
<1>3. m \in 0..Len(r)
  BY <1>2, ListIs
<1>4. RecordsInv(t)' /\ Unread(t)' = Drop(r, m)
  BY CarriedOut
<1>5. MirrorInv(t) /\ FbInv(t)
  BY DEF ReplayInv
<1>6. MirrorInv(t)'
  BY <1>1, <1>2, <1>3, <1>4, <1>5, MirrorOn
<1>7. FbInv(t)'
  BY <1>1, <1>2, <1>3, <1>4, <1>5, FbOn
<1> QED
  BY <1>4, <1>6, <1>7, ReadDone

-----------------------------------------------------------------------------
(* The handlers of the records without payload *)

\* The record that comes next.
LEMMA NextRecord ==
  ASSUME NEW t, Threads = {t}, ReplayInv(t), enabled, record_write_data(t), pending = <<>>,
         NEW c, c = Head(out[t])
  PROVE  LET r == Unread(t) IN
         /\ r \in Seq(Range(r)) /\ Len(r) # 0 /\ r[1] = c /\ c \in Range(r) /\ RecordInv(c)
         /\ Len(pending) + 1 = 1 /\ \A i \in 1..1 : r[i] = c
         /\ c.act \notin Payloads /\ c.act \notin {"START", "INFO"}
         /\ c.act \in {"BO_LOAD_DATA", "JOB_SUBMIT"} => 2 \in DOMAIN r
         /\ c.act = "DEL_FRAMEBUFFER" => Len(r) = 1
         /\ ctx_list \in Seq(Range(ctx_list)) /\ bo_list \in Seq(Range(bo_list))
         /\ fb_list \in Seq(Range(fb_list)) /\ job_ctx_list \in Seq(Range(job_ctx_list))
         /\ status = "running"
<1> DEFINE r == Unread(t)
<1>1. out[t] # <<>>
  BY DEF record_write_data
<1>2. Len(pending) + 1 = 1
  OBVIOUS
<1>3. /\ r \in Seq(Range(r)) /\ 1 \in 1..Len(r) /\ c = r[1] /\ c \in Range(r) /\ RecordInv(c)
  BY <1>1, <1>2, UnreadIs
<1>4. Len(r) \in Nat /\ DOMAIN r = 1..Len(r) /\ Complete(r)
  BY <1>3, ListIs DEF ReplayInv, RecordsInv
<1> HIDE DEF r
<1>5. /\ c.act \notin Payloads
      /\ c.act \in {"BO_LOAD_DATA", "JOB_SUBMIT"} => 1 + 1 \in DOMAIN r
      /\ c.act = "DEL_FRAMEBUFFER" => Len(r) = 1
  BY <1>3, <1>4 DEF Complete
<1>6. c.act \notin {"START", "INFO"}
  BY <1>3 DEF RecordInv
<1>7. \A i \in 1..1 : i = 1
  OBVIOUS
<1> QED
  BY <1>2, <1>3, <1>4, <1>5, <1>6, <1>7 DEF r, ReplayInv, ListsInv

\* The program opens the device.
LEMMA CreateContext ==
  ASSUME NEW t, Threads = {t}, ReplayInv(t), enabled, record_write_data(t), pending = <<>>,
         NEW c, c = Head(out[t]), c.act = "CTX_CREATE", create_context(c)
  PROVE  ReplayInv(t)'
<1> DEFINE r == Unread(t)
<1>1. /\ r \in Seq(Range(r)) /\ Len(r) # 0 /\ r[1] = c /\ c \in Range(r) /\ RecordInv(c)
      /\ Len(pending) + 1 = 1 /\ \A i \in 1..1 : r[i] = c
      /\ ctx_list \in Seq(Range(ctx_list)) /\ bo_list \in Seq(Range(bo_list))
      /\ fb_list \in Seq(Range(fb_list)) /\ job_ctx_list \in Seq(Range(job_ctx_list))
      /\ status = "running"
  BY NextRecord
<1>2. /\ Mirror(IdList(bo_list), r, LiveIds(bos), "BO_CREATE", "BO_DESTROY")
      /\ Mirror(ctx_list, r, LiveCtxs, "CTX_CREATE", "CTX_DESTROY")
      /\ Mirror(job_ctx_list, r, LiveIds(contexts), "JOB_CTX_CREATE", "JOB_CTX_DESTROY")
  BY DEF ReplayInv, MirrorInv
<1>3. /\ ctx_list' = Append(ctx_list, c.id)
      /\ UNCHANGED <<compression, bo_list, fb_list, job_ctx_list, pending, status>>
  BY DEF create_context
<1>4. ctx_list' \in Seq(Range(ctx_list'))
  BY <1>1, <1>3, AppendList
<1>5. Mirror(ctx_list', Drop(r, 1), LiveCtxs, "CTX_CREATE", "CTX_DESTROY")
  BY <1>1, <1>2, <1>3, MirrorCreate
<1> HIDE DEF r
<1> QED
  BY <1>1, <1>3, <1>4, <1>5, Whole DEF r

\* It opens a channel.
LEMMA CreateJobContext ==
  ASSUME NEW t, Threads = {t}, ReplayInv(t), enabled, record_write_data(t), pending = <<>>,
         NEW c, c = Head(out[t]), c.act = "JOB_CTX_CREATE", create_job_context(c)
  PROVE  ReplayInv(t)'
<1> DEFINE r == Unread(t)
<1>1. /\ r \in Seq(Range(r)) /\ Len(r) # 0 /\ r[1] = c /\ c \in Range(r) /\ RecordInv(c)
      /\ Len(pending) + 1 = 1 /\ \A i \in 1..1 : r[i] = c
      /\ ctx_list \in Seq(Range(ctx_list)) /\ bo_list \in Seq(Range(bo_list))
      /\ fb_list \in Seq(Range(fb_list)) /\ job_ctx_list \in Seq(Range(job_ctx_list))
      /\ status = "running"
  BY NextRecord
<1>2. /\ Mirror(IdList(bo_list), r, LiveIds(bos), "BO_CREATE", "BO_DESTROY")
      /\ Mirror(ctx_list, r, LiveCtxs, "CTX_CREATE", "CTX_DESTROY")
      /\ Mirror(job_ctx_list, r, LiveIds(contexts), "JOB_CTX_CREATE", "JOB_CTX_DESTROY")
  BY DEF ReplayInv, MirrorInv
<1>3. /\ job_ctx_list' = Append(job_ctx_list, c.id)
      /\ UNCHANGED <<compression, ctx_list, bo_list, fb_list, pending, status>>
  BY DEF create_job_context
<1>4. job_ctx_list' \in Seq(Range(job_ctx_list'))
  BY <1>1, <1>3, AppendList
<1>5. Mirror(job_ctx_list', Drop(r, 1), LiveIds(contexts), "JOB_CTX_CREATE", "JOB_CTX_DESTROY")
  BY <1>1, <1>2, <1>3, MirrorCreate
<1> HIDE DEF r
<1> QED
  BY <1>1, <1>3, <1>4, <1>5, Whole DEF r

\* The last descriptor of the file is closed.
LEMMA DestroyContext ==
  ASSUME NEW t, Threads = {t}, ReplayInv(t), enabled, record_write_data(t), pending = <<>>,
         NEW c, c = Head(out[t]), c.act = "CTX_DESTROY", destroy_context(c)
  PROVE  ReplayInv(t)'
<1> DEFINE r == Unread(t)
<1>1. /\ r \in Seq(Range(r)) /\ Len(r) # 0 /\ r[1] = c /\ c \in Range(r) /\ RecordInv(c)
      /\ Len(pending) + 1 = 1 /\ \A i \in 1..1 : r[i] = c
      /\ ctx_list \in Seq(Range(ctx_list)) /\ bo_list \in Seq(Range(bo_list))
      /\ fb_list \in Seq(Range(fb_list)) /\ job_ctx_list \in Seq(Range(job_ctx_list))
      /\ status = "running"
  BY NextRecord
<1>2. /\ Mirror(IdList(bo_list), r, LiveIds(bos), "BO_CREATE", "BO_DESTROY")
      /\ Mirror(ctx_list, r, LiveCtxs, "CTX_CREATE", "CTX_DESTROY")
      /\ Mirror(job_ctx_list, r, LiveIds(contexts), "JOB_CTX_CREATE", "JOB_CTX_DESTROY")
  BY DEF ReplayInv, MirrorInv
<1>3. c.id \in Range(ctx_list)
  BY <1>1, <1>2, MirrorDestroy
<1>4. Places(ctx_list, c.id) # {}
  BY <1>1, <1>3, PlacesFind
<1>5. PICK i \in Places(ctx_list, c.id) :
        /\ ctx_list' = RemoveAt(ctx_list, i)
        /\ UNCHANGED <<compression, bo_list, fb_list, job_ctx_list, pending, status>>
  BY <1>4 DEF destroy_context, Has
<1>6. i \in DOMAIN ctx_list /\ ctx_list[i] = c.id
  BY DEF Places
<1>7. ctx_list' \in Seq(Range(ctx_list'))
  BY <1>1, <1>5, <1>6, RemoveAtList
<1>8. Mirror(ctx_list', Drop(r, 1), LiveCtxs, "CTX_CREATE", "CTX_DESTROY")
  BY <1>1, <1>2, <1>5, <1>6, MirrorDestroy
<1> HIDE DEF r
<1> QED
  BY <1>1, <1>5, <1>7, <1>8, Whole DEF r

\* A channel is closed.
LEMMA DestroyJobContext ==
  ASSUME NEW t, Threads = {t}, ReplayInv(t), enabled, record_write_data(t), pending = <<>>,
         NEW c, c = Head(out[t]), c.act = "JOB_CTX_DESTROY", destroy_job_context(c)
  PROVE  ReplayInv(t)'
<1> DEFINE r == Unread(t)
<1>1. /\ r \in Seq(Range(r)) /\ Len(r) # 0 /\ r[1] = c /\ c \in Range(r) /\ RecordInv(c)
      /\ Len(pending) + 1 = 1 /\ \A i \in 1..1 : r[i] = c
      /\ ctx_list \in Seq(Range(ctx_list)) /\ bo_list \in Seq(Range(bo_list))
      /\ fb_list \in Seq(Range(fb_list)) /\ job_ctx_list \in Seq(Range(job_ctx_list))
      /\ status = "running"
  BY NextRecord
<1>2. /\ Mirror(IdList(bo_list), r, LiveIds(bos), "BO_CREATE", "BO_DESTROY")
      /\ Mirror(ctx_list, r, LiveCtxs, "CTX_CREATE", "CTX_DESTROY")
      /\ Mirror(job_ctx_list, r, LiveIds(contexts), "JOB_CTX_CREATE", "JOB_CTX_DESTROY")
  BY DEF ReplayInv, MirrorInv
<1>3. c.id \in Range(job_ctx_list)
  BY <1>1, <1>2, MirrorDestroy
<1>4. Places(job_ctx_list, c.id) # {}
  BY <1>1, <1>3, PlacesFind
<1>5. PICK i \in Places(job_ctx_list, c.id) :
        /\ job_ctx_list' = RemoveAt(job_ctx_list, i)
        /\ UNCHANGED <<compression, ctx_list, bo_list, fb_list, pending, status>>
  BY <1>4 DEF destroy_job_context, Has
<1>6. i \in DOMAIN job_ctx_list /\ job_ctx_list[i] = c.id
  BY DEF Places
<1>7. job_ctx_list' \in Seq(Range(job_ctx_list'))
  BY <1>1, <1>5, <1>6, RemoveAtList
<1>8. Mirror(job_ctx_list', Drop(r, 1), LiveIds(contexts), "JOB_CTX_CREATE", "JOB_CTX_DESTROY")
  BY <1>1, <1>2, <1>5, <1>6, MirrorDestroy
<1> HIDE DEF r
<1> QED
  BY <1>1, <1>5, <1>7, <1>8, Whole DEF r

\* A buffer is created.
LEMMA CreateBo ==
  ASSUME NEW t, Threads = {t}, ReplayInv(t), enabled, record_write_data(t), pending = <<>>,
         NEW c, c = Head(out[t]), c.act = "BO_CREATE", create_bo(c)
  PROVE  ReplayInv(t)'
<1> DEFINE r == Unread(t)
<1>1. /\ r \in Seq(Range(r)) /\ Len(r) # 0 /\ r[1] = c /\ c \in Range(r) /\ RecordInv(c)
      /\ Len(pending) + 1 = 1 /\ \A i \in 1..1 : r[i] = c
      /\ ctx_list \in Seq(Range(ctx_list)) /\ bo_list \in Seq(Range(bo_list))
      /\ fb_list \in Seq(Range(fb_list)) /\ job_ctx_list \in Seq(Range(job_ctx_list))
      /\ status = "running"
  BY NextRecord
<1>2. /\ Mirror(IdList(bo_list), r, LiveIds(bos), "BO_CREATE", "BO_DESTROY")
      /\ Mirror(ctx_list, r, LiveCtxs, "CTX_CREATE", "CTX_DESTROY")
      /\ Mirror(job_ctx_list, r, LiveIds(contexts), "JOB_CTX_CREATE", "JOB_CTX_DESTROY")
  BY DEF ReplayInv, MirrorInv
<1>3. Has(ctx_list, c.ctx_id)
  BY <1>1, Finds DEF RecordInv
<1> DEFINE x == [id |-> c.id, map |-> [p \in 1..c.num_pages |-> Zero]]
<1>4. /\ bo_list' = Append(bo_list, x)
      /\ UNCHANGED <<compression, ctx_list, fb_list, job_ctx_list, pending, status>>
  BY <1>3 DEF create_bo
<1>5. x.id = c.id
  OBVIOUS
<1> HIDE DEF x
<1>6. bo_list' \in Seq(Range(bo_list'))
  BY <1>1, <1>4, AppendList
<1>7. IdList(bo_list') = Append(IdList(bo_list), c.id)
  BY <1>1, <1>4, <1>5, IdListAppend
<1>8. IdList(bo_list) \in Seq(Range(IdList(bo_list)))
  BY <1>1, IdListIs
<1>9. Mirror(IdList(bo_list'), Drop(r, 1), LiveIds(bos), "BO_CREATE", "BO_DESTROY")
  BY <1>1, <1>2, <1>7, <1>8, MirrorCreate
<1> HIDE DEF r
<1> QED
  BY <1>1, <1>4, <1>6, <1>9, Whole DEF r

\* A handle is closed.
LEMMA DestroyBo ==
  ASSUME NEW t, Threads = {t}, ReplayInv(t), enabled, record_write_data(t), pending = <<>>,
         NEW c, c = Head(out[t]), c.act = "BO_DESTROY", destroy_bo(c)
  PROVE  ReplayInv(t)'
<1> DEFINE r == Unread(t)
<1>1. /\ r \in Seq(Range(r)) /\ Len(r) # 0 /\ r[1] = c /\ c \in Range(r) /\ RecordInv(c)
      /\ Len(pending) + 1 = 1 /\ \A i \in 1..1 : r[i] = c
      /\ ctx_list \in Seq(Range(ctx_list)) /\ bo_list \in Seq(Range(bo_list))
      /\ fb_list \in Seq(Range(fb_list)) /\ job_ctx_list \in Seq(Range(job_ctx_list))
      /\ status = "running"
  BY NextRecord
<1>2. /\ Mirror(IdList(bo_list), r, LiveIds(bos), "BO_CREATE", "BO_DESTROY")
      /\ Mirror(ctx_list, r, LiveCtxs, "CTX_CREATE", "CTX_DESTROY")
      /\ Mirror(job_ctx_list, r, LiveIds(contexts), "JOB_CTX_CREATE", "JOB_CTX_DESTROY")
  BY DEF ReplayInv, MirrorInv
<1>3. /\ IdList(bo_list) \in Seq(Range(IdList(bo_list))) /\ DOMAIN IdList(bo_list) = DOMAIN bo_list
      /\ \A i \in DOMAIN bo_list : IdList(bo_list)[i] = bo_list[i].id
  BY <1>1, IdListIs
<1>4. c.id \in Range(IdList(bo_list))
  BY <1>1, <1>2, <1>3, MirrorDestroy
<1>5. lookup_bo(c.id) # {}
  BY <1>1, <1>4, LookupBoFinds
<1>6. PICK i \in lookup_bo(c.id) :
        /\ bo_list' = RemoveAt(bo_list, i)
        /\ UNCHANGED <<compression, ctx_list, fb_list, job_ctx_list, pending, status>>
  BY <1>5 DEF destroy_bo
<1>7. i \in DOMAIN bo_list /\ bo_list[i].id = c.id
  BY DEF lookup_bo
<1>8. bo_list' \in Seq(Range(bo_list'))
  BY <1>1, <1>6, <1>7, RemoveAtList
<1>9. IdList(bo_list') = RemoveAt(IdList(bo_list), i)
  BY <1>1, <1>6, <1>7, IdListRemove
<1>10. Mirror(IdList(bo_list'), Drop(r, 1), LiveIds(bos), "BO_CREATE", "BO_DESTROY")
  <2> DEFINE L == IdList(bo_list)
  <2>1. i \in DOMAIN L /\ L[i] = c.id /\ L \in Seq(Range(L))
    BY <1>3, <1>7
  <2> HIDE DEF L, r
  <2>2. Mirror(L, r, LiveIds(bos), "BO_CREATE", "BO_DESTROY")
    BY <1>2 DEF L
  <2>3. Mirror(RemoveAt(L, i), Drop(r, 1), LiveIds(bos), "BO_CREATE", "BO_DESTROY")
    BY <1>1, <2>1, <2>2, MirrorDestroy
  <2> QED
    BY <1>9, <2>3 DEF L
<1> HIDE DEF r
<1> QED
  BY <1>1, <1>6, <1>8, <1>10, Whole DEF r

\* Flags are set.
LEMMA SetBoFlags ==
  ASSUME NEW t, Threads = {t}, ReplayInv(t), enabled, record_write_data(t), pending = <<>>,
         NEW c, c = Head(out[t]), c.act = "BO_SET_FLAGS", set_bo_flags(c)
  PROVE  ReplayInv(t)'
<1> DEFINE r == Unread(t)
<1>1. /\ r \in Seq(Range(r)) /\ Len(r) # 0 /\ r[1] = c /\ c \in Range(r) /\ RecordInv(c)
      /\ Len(pending) + 1 = 1 /\ \A i \in 1..1 : r[i] = c
      /\ ctx_list \in Seq(Range(ctx_list)) /\ bo_list \in Seq(Range(bo_list))
      /\ fb_list \in Seq(Range(fb_list)) /\ job_ctx_list \in Seq(Range(job_ctx_list))
      /\ status = "running"
  BY NextRecord
<1>2. /\ Mirror(IdList(bo_list), r, LiveIds(bos), "BO_CREATE", "BO_DESTROY")
      /\ Mirror(ctx_list, r, LiveCtxs, "CTX_CREATE", "CTX_DESTROY")
      /\ Mirror(job_ctx_list, r, LiveIds(contexts), "JOB_CTX_CREATE", "JOB_CTX_DESTROY")
  BY DEF ReplayInv, MirrorInv
<1>3. lookup_bo(c.id) # {}
  BY <1>1, Finds DEF RecordInv
<1>4. UNCHANGED <<compression, ctx_list, bo_list, fb_list, job_ctx_list, pending, status>>
  BY <1>3 DEF set_bo_flags, lists
<1> HIDE DEF r
<1> QED
  BY <1>1, <1>4, Whole DEF r

\* A framebuffer is made.
LEMMA CreateFramebuffer ==
  ASSUME NEW t, Threads = {t}, ReplayInv(t), enabled, record_write_data(t), pending = <<>>,
         NEW c, c = Head(out[t]), c.act = "ADD_FRAMEBUFFER", create_framebuffer(c)
  PROVE  ReplayInv(t)'
<1> DEFINE r == Unread(t)
<1>1. /\ r \in Seq(Range(r)) /\ Len(r) # 0 /\ r[1] = c /\ c \in Range(r) /\ RecordInv(c)
      /\ Len(pending) + 1 = 1 /\ \A i \in 1..1 : r[i] = c
      /\ ctx_list \in Seq(Range(ctx_list)) /\ bo_list \in Seq(Range(bo_list))
      /\ fb_list \in Seq(Range(fb_list)) /\ job_ctx_list \in Seq(Range(job_ctx_list))
      /\ status = "running"
  BY NextRecord
<1>2. /\ Mirror(IdList(bo_list), r, LiveIds(bos), "BO_CREATE", "BO_DESTROY")
      /\ Mirror(ctx_list, r, LiveCtxs, "CTX_CREATE", "CTX_DESTROY")
      /\ Mirror(job_ctx_list, r, LiveIds(contexts), "JOB_CTX_CREATE", "JOB_CTX_DESTROY")
  BY DEF ReplayInv, MirrorInv
<1>3. lookup_bo(c.bo_id) # {}
  BY <1>1, Finds DEF RecordInv
<1>4. PICK a \in Addrs :
        fb_list' = Append(fb_list, [addr |-> a, bo_id |-> c.bo_id, ctx_id |-> c.ctx_id, geom |-> c.geom])
  BY <1>3 DEF create_framebuffer
<1>5. UNCHANGED <<compression, ctx_list, bo_list, job_ctx_list, pending, status>>
  BY <1>3 DEF create_framebuffer
<1> DEFINE x == [addr |-> a, bo_id |-> c.bo_id, ctx_id |-> c.ctx_id, geom |-> c.geom]
           n == Len(fb_list)
<1>6. x.bo_id = c.bo_id /\ x.ctx_id = c.ctx_id
  OBVIOUS
<1> HIDE DEF x
<1>7. /\ fb_list' \in Seq(Range(fb_list')) /\ DOMAIN fb_list' = 1..n + 1 /\ n \in Nat
      /\ \A i \in 1..n : fb_list'[i] = fb_list[i]
      /\ fb_list'[n + 1] = x
  BY <1>1, <1>4, AppendList DEF x
<1>8. DOMAIN fb_list = 1..n /\ n + 1 \in 1..n + 1 /\ \A i \in 1..n : i \in 1..n + 1
  BY <1>1, <1>7, ListIs
<1> HIDE DEF n
<1>9. FbMade(fb_list', c.bo_id, c.ctx_id)
  BY <1>6, <1>7, <1>8 DEF FbMade
<1>10. \A bo, ctx : FbMade(fb_list, bo, ctx) => FbMade(fb_list', bo, ctx)
  BY <1>7, <1>8 DEF FbMade
<1> HIDE DEF r
<1>11. \A i \in 1..1 : FbMade(fb_list', r[i].bo_id, r[i].ctx_id)
  BY <1>1, <1>9
<1> DEFINE m == Len(pending) + 1
<1>12. m = 1
  BY <1>1
<1> HIDE DEF m
<1>13. /\ \A i \in 1..m : FbMade(fb_list', r[i].bo_id, r[i].ctx_id)
       /\ \A i \in 1..m : r[i].act = "ADD_FRAMEBUFFER"
       /\ r[m].act = "ADD_FRAMEBUFFER"
  BY <1>1, <1>11, <1>12
<1> QED
  BY <1>1, <1>5, <1>7, <1>10, <1>13, Whole DEF r, m

\* A framebuffer is shown.
LEMMA DisplayFramebuffer ==
  ASSUME NEW t, Threads = {t}, ReplayInv(t), enabled, record_write_data(t), pending = <<>>,
         NEW c, c = Head(out[t]), c.act = "DISP_FRAMEBUFFER", display_framebuffer(c)
  PROVE  ReplayInv(t)'
<1> DEFINE r == Unread(t)
<1>1. /\ r \in Seq(Range(r)) /\ Len(r) # 0 /\ r[1] = c /\ c \in Range(r) /\ RecordInv(c)
      /\ Len(pending) + 1 = 1 /\ \A i \in 1..1 : r[i] = c
      /\ ctx_list \in Seq(Range(ctx_list)) /\ bo_list \in Seq(Range(bo_list))
      /\ fb_list \in Seq(Range(fb_list)) /\ job_ctx_list \in Seq(Range(job_ctx_list))
      /\ status = "running"
  BY NextRecord
<1>2. /\ Mirror(IdList(bo_list), r, LiveIds(bos), "BO_CREATE", "BO_DESTROY")
      /\ Mirror(ctx_list, r, LiveCtxs, "CTX_CREATE", "CTX_DESTROY")
      /\ Mirror(job_ctx_list, r, LiveIds(contexts), "JOB_CTX_CREATE", "JOB_CTX_DESTROY")
  BY DEF ReplayInv, MirrorInv
<1>3. lookup_framebuffer(c.bo_id, c.ctx_id) # {}
  BY <1>1, LookupFbFinds DEF RecordInv
<1>4. UNCHANGED <<compression, ctx_list, bo_list, fb_list, job_ctx_list, pending, status>>
  BY <1>3 DEF display_framebuffer, lists
<1> HIDE DEF r
<1> QED
  BY <1>1, <1>4, Whole DEF r

\* A framebuffer is given up: those of other buffers stay.
LEMMA DestroyFramebuffer ==
  ASSUME NEW t, Threads = {t}, ReplayInv(t), enabled, record_write_data(t), pending = <<>>,
         NEW c, c = Head(out[t]), c.act = "DEL_FRAMEBUFFER", destroy_framebuffer(c)
  PROVE  ReplayInv(t)'
<1> DEFINE r == Unread(t)
<1>1. /\ r \in Seq(Range(r)) /\ Len(r) # 0 /\ r[1] = c /\ c \in Range(r) /\ RecordInv(c)
      /\ Len(pending) + 1 = 1 /\ Len(r) = 1
      /\ ctx_list \in Seq(Range(ctx_list)) /\ bo_list \in Seq(Range(bo_list))
      /\ fb_list \in Seq(Range(fb_list)) /\ job_ctx_list \in Seq(Range(job_ctx_list))
      /\ status = "running"
  BY NextRecord
<1>2. FbMade(fb_list, c.bo_id, c.ctx_id) /\ ~FbLive(c.bo_id)
  BY <1>1 DEF RecordInv
<1>3. lookup_framebuffer(c.bo_id, c.ctx_id) # {}
  BY <1>1, <1>2, LookupFbFinds
<1>4. PICK k \in lookup_framebuffer(c.bo_id, c.ctx_id) :
        /\ fb_list' = RemoveAt(fb_list, k)
        /\ UNCHANGED <<compression, ctx_list, bo_list, job_ctx_list, pending, status>>
  BY <1>3 DEF destroy_framebuffer
<1>5. k \in DOMAIN fb_list /\ fb_list[k].bo_id = c.bo_id
  BY DEF lookup_framebuffer
<1> DEFINE n == Len(fb_list)
<1>6. /\ fb_list' \in Seq(Range(fb_list')) /\ n \in Nat \ {0} /\ DOMAIN fb_list' = 1..n - 1
      /\ \A i \in 1..n - 1 : fb_list'[i] = IF i < k THEN fb_list[i] ELSE fb_list[i + 1]
      /\ DOMAIN fb_list = 1..n
  BY <1>1, <1>4, <1>5, RemoveAtList, ListIs
<1> HIDE DEF n, r
<1>7. ASSUME NEW bo, NEW ctx, bo # c.bo_id, FbMade(fb_list, bo, ctx)
      PROVE  FbMade(fb_list', bo, ctx)
  <2>1. PICK j \in 1..n : fb_list[j].bo_id = bo /\ fb_list[j].ctx_id = ctx
    BY <1>6, <1>7 DEF FbMade
  <2>2. j # k /\ k \in 1..n
    BY <1>5, <1>6, <1>7, <2>1
  <2>3. CASE j < k
    <3>1. j \in 1..n - 1 /\ fb_list'[j] = fb_list[j]
      BY <1>6, <2>2, <2>3
    <3> QED
      BY <1>6, <2>1, <3>1 DEF FbMade
  <2>4. CASE ~(j < k)
    <3> DEFINE i == j - 1
    <3>1. i \in 1..n - 1 /\ ~(i < k) /\ i + 1 = j
      BY <1>6, <2>2, <2>4
    <3> HIDE DEF i
    <3>2. fb_list'[i] = fb_list[j]
      BY <1>6, <3>1
    <3> QED
      BY <1>6, <2>1, <3>1, <3>2 DEF FbMade
  <2> QED
    BY <2>3, <2>4
<1>8. RecordsInv(t)' /\ Unread(t)' = Drop(r, 1)
  BY <1>1, <1>4, CarriedOut DEF r
<1>9. UNCHANGED <<rec_ctx, bos, contexts>>
  BY DEF record_write_data, shadow
<1>10. MirrorInv(t)'
  <2>1. \A i \in 1..1 : r[i] = c
    BY <1>1
  <2>2. 1 \in 0..Len(r) /\ MirrorInv(t)
    BY <1>1 DEF ReplayInv
  <2> QED
    BY <1>1, <1>4, <1>8, <1>9, <2>1, <2>2, MirrorOn DEF r
<1>11. Range(r) = {c}
  BY <1>1, ListIs DEF Range
<1>12. FbInv(t)'
  <2> SUFFICES ASSUME NEW f \in Files, NEW i \in DOMAIN bos[f], bos[f][i].fb_id # None
               PROVE  FbMade(fb_list', bos[f][i].id, rec_ctx[f])
    BY <1>9 DEF FbInv
  <2>1. FbMade(fb_list, bos[f][i].id, rec_ctx[f])
    BY <1>11 DEF ReplayInv, FbInv, r
  <2>2. bos[f][i].id # c.bo_id
    BY <1>2 DEF FbLive
  <2> QED
    BY <1>7, <2>1, <2>2
<1> QED
  BY <1>1, <1>4, <1>6, <1>8, <1>10, <1>12, ReadDone

-----------------------------------------------------------------------------
(* BO_LOAD_DATA and JOB_SUBMIT *)

\* Something is kept: the header, or the gathers.
LEMMA KeptDone ==
  ASSUME NEW t, Threads = {t}, ReplayInv(t), enabled, record_write_data(t),
         pending' = Append(pending, Head(out[t])), PendingInv',
         UNCHANGED <<compression, ctx_list, bo_list, fb_list, job_ctx_list, status>>
  PROVE  ReplayInv(t)'
<1>1. RecordsInv(t)' /\ Unread(t)' = Unread(t) /\ FbInv(t)'
  BY Kept
<1>2. UNCHANGED <<rec_ctx, bos, contexts>>
  BY DEF record_write_data, shadow
<1>3. LiveCtxs' = LiveCtxs
  BY <1>2 DEF LiveCtxs, Recorded
<1>4. MirrorInv(t)'
  BY <1>1, <1>2, <1>3 DEF ReplayInv, MirrorInv
<1>5. /\ ctx_list \in Seq(Range(ctx_list)) /\ bo_list \in Seq(Range(bo_list))
      /\ fb_list \in Seq(Range(fb_list)) /\ job_ctx_list \in Seq(Range(job_ctx_list))
      /\ status = "running"
  BY DEF ReplayInv, ListsInv
<1> QED
  BY <1>1, <1>4, <1>5, ReadDone

\* replay.c reads the header of an upload or a job and waits for its payload.
LEMMA Expect ==
  ASSUME NEW t, Threads = {t}, ReplayInv(t), enabled, record_write_data(t), pending = <<>>,
         NEW c, c = Head(out[t]), c.act \in {"BO_LOAD_DATA", "JOB_SUBMIT"}, expect(c)
  PROVE  ReplayInv(t)'
<1>1. c \in Range(Unread(t)) /\ RecordInv(c)
  BY NextRecord
<1>2. c.act = "JOB_SUBMIT" => Has(job_ctx_list, c.job_ctx_id)
  BY <1>1, Finds DEF RecordInv
<1>3. pending' = <<c>> /\ UNCHANGED <<compression, ctx_list, bo_list, fb_list, job_ctx_list, status>>
  BY <1>2 DEF expect, lists
<1>4. pending' = Append(pending, c)
  BY <1>3
<1>5. PendingInv'
  BY <1>3 DEF PendingInv
<1> QED
  BY <1>3, <1>4, <1>5, KeptDone

\* What has been read, and the payload that follows.
LEMMA PayloadIs ==
  ASSUME NEW t, Threads = {t}, ReplayInv(t), record_write_data(t), pending # <<>>,
         NEW c, c = Head(out[t]), NEW h, h = Head(pending)
  PROVE  LET r == Unread(t) IN
         /\ r \in Seq(Range(r)) /\ r[1] = h /\ h \in Range(r) /\ c \in Range(r)
         /\ RecordInv(h) /\ RecordInv(c)
         /\ h.act = "BO_LOAD_DATA" =>
              Len(pending) + 1 = 2 /\ r[2] = c /\ c.act = "page"
         /\ h.act # "BO_LOAD_DATA" => h.act = "JOB_SUBMIT"
         /\ h.act = "JOB_SUBMIT" /\ Len(pending) = 1 =>
              /\ Len(pending) + 1 = 2 /\ r[2] = c /\ c.act = "gathers" /\ pending = <<h>>
              /\ 3 \in DOMAIN r => (WithRelocs(h) <=> r[3].act = "relocs")
         /\ h.act = "JOB_SUBMIT" /\ Len(pending) # 1 =>
              /\ Len(pending) = 2 /\ Len(pending) + 1 = 3 /\ r[3] = c /\ c.act = "relocs"
              /\ r[2] = pending[2] /\ pending[2].act = "gathers" /\ pending[2] \in Range(r)
              /\ RecordInv(pending[2])
              /\ c.gather_id = pending[2].id /\ c.ctx_id = pending[2].ctx_id
<1> DEFINE r == Unread(t)
           m == Len(pending) + 1
<1>1. out[t] # <<>>
  BY DEF record_write_data
<1>2. /\ r \in Seq(Range(r)) /\ m \in 1..Len(r) /\ c = r[m] /\ c \in Range(r) /\ RecordInv(c)
      /\ \A i \in 1..Len(pending) : r[i] = pending[i]
  BY <1>1, UnreadIs
<1>3. Len(r) \in Nat /\ DOMAIN r = 1..Len(r)
  BY <1>2, ListIs
<1>4. PendingInv /\ Complete(r) /\ pending \in Seq(Range(pending)) /\ \A x \in Range(r) : RecordInv(x)
  BY DEF ReplayInv, RecordsInv
<1> HIDE DEF r
<1>5. h = pending[1] /\ Len(pending) \in {1, 2}
  BY <1>4 DEF PendingInv
<1>6. r[1] = h /\ h \in Range(r) /\ 2 \in DOMAIN r /\ 1 \in DOMAIN r
  BY <1>2, <1>3, <1>5 DEF Range
<1>7. h.act = "BO_LOAD_DATA" \/ h.act = "JOB_SUBMIT"
  BY <1>4, <1>5 DEF PendingInv, WithRelocs
<1>8. /\ h.act = "BO_LOAD_DATA" <=> r[2].act = "page"
      /\ h.act = "JOB_SUBMIT" <=> r[2].act = "gathers"
      /\ 3 \in DOMAIN r => /\ h.act = "JOB_SUBMIT" => (WithRelocs(h) <=> r[3].act = "relocs")
                           /\ r[3].act = "relocs" => r[3].gather_id = r[2].id /\ r[3].ctx_id = r[2].ctx_id
  <2>1. 1 + 1 = 2 /\ 1 + 2 = 3
    OBVIOUS
  <2> QED
    BY <1>4, <1>6, <2>1 DEF Complete
<1>9. ASSUME Len(pending) = 1
      PROVE  m = 2 /\ r[2] = c /\ pending = <<h>>
  BY <1>2, <1>4, <1>5, <1>9
<1>10. ASSUME Len(pending) # 1
       PROVE  /\ Len(pending) = 2 /\ m = 3 /\ r[3] = c /\ r[2] = pending[2] /\ pending[2].act = "gathers"
              /\ WithRelocs(h) /\ h.act = "JOB_SUBMIT" /\ 3 \in DOMAIN r
  <2>1. Len(pending) = 2 /\ WithRelocs(h) /\ pending[2].act = "gathers"
    BY <1>4, <1>5, <1>10 DEF PendingInv
  <2> QED
    BY <1>2, <1>3, <2>1 DEF WithRelocs
<1>11. r[2] \in Range(r)
  BY <1>6 DEF Range
<1> QED
  BY <1>2, <1>4, <1>5, <1>6, <1>7, <1>8, <1>9, <1>10, <1>11 DEF r

\* replay.c reads the bytes of a buffer.
LEMMA LoadBo ==
  ASSUME NEW t, Threads = {t}, ReplayInv(t), enabled, record_write_data(t), pending # <<>>,
         Head(pending).act = "BO_LOAD_DATA", NEW c, c = Head(out[t]), load_bo(c)
  PROVE  ReplayInv(t)'
<1> DEFINE r == Unread(t)
           h == Head(pending)
<1>1. /\ r \in Seq(Range(r)) /\ r[1] = h /\ h \in Range(r) /\ RecordInv(h) /\ RecordInv(c)
      /\ Len(pending) + 1 = 2 /\ r[2] = c /\ c.act = "page"
  BY PayloadIs
<1>2. lookup_bo(h.id) # {}
  BY <1>1, Finds DEF RecordInv
<1>3. compression = program.compression
  BY DEF ReplayInv, StartInv
<1>4. Unpackable(c)
  BY <1>1, <1>3 DEF RecordInv, Unpackable
<1>5. /\ \E i \in lookup_bo(h.id) : Store(i, h.page, c.data)
      /\ pending' = <<>>
      /\ UNCHANGED <<compression, ctx_list, fb_list, job_ctx_list, status>>
  BY <1>2, <1>4 DEF load_bo
<1>6. /\ ctx_list \in Seq(Range(ctx_list)) /\ bo_list \in Seq(Range(bo_list))
      /\ fb_list \in Seq(Range(fb_list)) /\ job_ctx_list \in Seq(Range(job_ctx_list))
      /\ status = "running"
  BY DEF ReplayInv, ListsInv
<1>7. bo_list' \in Seq(Range(bo_list')) /\ IdList(bo_list') = IdList(bo_list)
  BY <1>5, <1>6, StoreKeeps DEF lookup_bo
<1> DEFINE m == Len(pending) + 1
<1>8. m = 2 /\ \A i \in 1..m : i = 1 \/ i = 2
  BY <1>1
<1>9. \A i \in 1..m : r[i].act \in {"BO_LOAD_DATA", "page"}
  BY <1>1, <1>8
<1> HIDE DEF r
<1> QED
  BY <1>1, <1>5, <1>6, <1>7, <1>8, <1>9, Whole DEF r

\* The second of two records.
LEMMA AppendOne ==
  ASSUME NEW x, NEW y
  PROVE  Append(<<x>>, y) = <<x, y>>
<1>1. <<x>> \in Seq({x, y}) /\ <<x, y>> \in Seq({x, y}) /\ Append(<<x>>, y) \in Seq({x, y})
  OBVIOUS
<1>2. Len(Append(<<x>>, y)) = 2 /\ Len(<<x, y>>) = 2
  BY <1>1
<1>3. \A i \in 1..2 : i = 1 \/ i = 2
  OBVIOUS
<1>4. Append(<<x>>, y)[1] = x /\ Append(<<x>>, y)[2] = y
  BY <1>1
<1>5. \A i \in 1..2 : Append(<<x>>, y)[i] = <<x, y>>[i]
  BY <1>3, <1>4
<1> QED
  BY <1>1, <1>2, <1>5, SeqEqual

\* replay.c reads the gathers of a job.
LEMMA ReadGathers ==
  ASSUME NEW t, Threads = {t}, ReplayInv(t), enabled, record_write_data(t), pending # <<>>,
         Head(pending).act = "JOB_SUBMIT", Len(pending) = 1, NEW c, c = Head(out[t]), read_gathers(c)
  PROVE  ReplayInv(t)'
<1> DEFINE r == Unread(t)
           h == Head(pending)
<1>1. /\ r \in Seq(Range(r)) /\ r[1] = h /\ h \in Range(r) /\ RecordInv(h)
      /\ c \in Range(r) /\ RecordInv(c)
      /\ Len(pending) + 1 = 2 /\ r[2] = c /\ c.act = "gathers" /\ pending = <<h>>
      /\ 3 \in DOMAIN r => (WithRelocs(h) <=> r[3].act = "relocs")
  BY PayloadIs
<1>2. lookup_bo(c.id) # {}
  BY <1>1, Finds DEF RecordInv
<1>3. /\ pending' = IF h.num_relocs > 0 THEN <<h, c>> ELSE <<>>
      /\ UNCHANGED <<compression, ctx_list, bo_list, fb_list, job_ctx_list, status>>
  BY <1>1, <1>2 DEF read_gathers, lists
<1>4. CASE h.num_relocs > 0
  <2>1. pending' = Append(pending, c)
    BY <1>1, <1>3, <1>4, AppendOne
  <2>2. PendingInv'
    BY <1>1, <1>3, <1>4 DEF PendingInv, WithRelocs
  <2> QED
    BY <1>3, <2>1, <2>2, KeptDone
<1>5. CASE ~(h.num_relocs > 0)
  <2> DEFINE m == Len(pending) + 1
  <2>1. m = 2 /\ m + 1 = 3 /\ \A i \in 1..m : i = 1 \/ i = 2
    BY <1>1
  <2>2. \A i \in 1..m : r[i].act \in {"JOB_SUBMIT", "gathers"}
    BY <1>1, <2>1
  <2>3. m + 1 \in DOMAIN r => r[m + 1].act # "relocs"
    BY <1>1, <1>5, <2>1 DEF WithRelocs
  <2>4. /\ ctx_list \in Seq(Range(ctx_list)) /\ bo_list \in Seq(Range(bo_list))
        /\ fb_list \in Seq(Range(fb_list)) /\ job_ctx_list \in Seq(Range(job_ctx_list))
        /\ status = "running"
    BY DEF ReplayInv, ListsInv
  <2>5. pending' = <<>>
    BY <1>3, <1>5
  <2> HIDE DEF r
  <2> QED
    BY <1>1, <1>3, <2>1, <2>2, <2>3, <2>4, <2>5, Whole DEF r
<1> QED
  BY <1>4, <1>5

\* replay.c reads the relocations of a job and submits it.
LEMMA SubmitJob ==
  ASSUME NEW t, Threads = {t}, ReplayInv(t), enabled, record_write_data(t), pending # <<>>,
         Head(pending).act = "JOB_SUBMIT", Len(pending) = 2, NEW c, c = Head(out[t]), submit_job(c)
  PROVE  ReplayInv(t)'
<1> DEFINE r == Unread(t)
           h == Head(pending)
           g == pending[2]
<1>1. /\ r \in Seq(Range(r)) /\ r[1] = h /\ c \in Range(r) /\ RecordInv(c)
      /\ Len(pending) + 1 = 3 /\ r[3] = c /\ c.act = "relocs"
      /\ r[2] = g /\ g.act = "gathers" /\ g \in Range(r) /\ RecordInv(g)
      /\ c.gather_id = g.id /\ c.ctx_id = g.ctx_id
  BY PayloadIs
<1>2. Has(ctx_list, c.ctx_id)
  BY <1>1, Finds DEF RecordInv
<1>3. lookup_bo(g.id) # {}
  BY <1>1, Finds DEF RecordInv
<1>4. ASSUME NEW i \in DOMAIN c.ids
      PROVE  lookup_bo(c.ids[i]) # {}
  <2>1. c.ids[i] \in LiveIds(bos)
    BY <1>1 DEF RecordInv, Range
  <2> QED
    BY <1>1, <2>1, Finds
<1>5. /\ Execute(c.ids, c.write) /\ pending' = <<>>
      /\ UNCHANGED <<compression, ctx_list, fb_list, job_ctx_list, status>>
  BY <1>1, <1>2, <1>3, <1>4 DEF submit_job
<1>6. /\ ctx_list \in Seq(Range(ctx_list)) /\ bo_list \in Seq(Range(bo_list))
      /\ fb_list \in Seq(Range(fb_list)) /\ job_ctx_list \in Seq(Range(job_ctx_list))
      /\ status = "running"
  BY DEF ReplayInv, ListsInv
<1>7. bo_list' \in Seq(Range(bo_list')) /\ IdList(bo_list') = IdList(bo_list)
  BY <1>5, <1>6, StoreKeeps DEF Execute, lookup_bo
<1> DEFINE m == Len(pending) + 1
<1>8. m = 3 /\ \A i \in 1..m : i = 1 \/ i = 2 \/ i = 3
  BY <1>1
<1>9. \A i \in 1..m : r[i].act \in {"JOB_SUBMIT", "gathers", "relocs"}
  BY <1>1, <1>8
<1> HIDE DEF r
<1> QED
  BY <1>1, <1>5, <1>6, <1>7, <1>8, <1>9, Whole DEF r

-----------------------------------------------------------------------------
(* The next record is written and read *)

\* START and INFO
LEMMA StartRead ==
  ASSUME NEW t, Threads = {t}, ReplayInv(t), ~enabled, record_write_data(t)
  PROVE  ReplayInv(t)'
<1> DEFINE r == Unread(t)
           o == out[t]
           c == Head(o)
<1>1. /\ UNCHANGED <<program, rec_ctx, bos, contexts, inited, enabled, ctx_cnt, bos_cnt, job_ctx_cnt>>
      /\ o # <<>> /\ out' = [out EXCEPT ![t] = Tail(@)] /\ Consume(c)
      /\ call' = [call EXCEPT ![t] = NoCall] \/ call' = call
      /\ call[t].op \notin {"opening", "return"} => call' = call
  BY DEF record_write_data, shadow, recorder
<1>2. /\ \A f \in Files : rec_ctx[f] = None
      /\ ctx_list = <<>> /\ bo_list = <<>> /\ job_ctx_list = <<>> /\ pending = <<>>
      /\ inited <=> call[t].op = "start"
      /\ Len(o) = IF inited THEN 2 - act_cnt ELSE 0
      /\ act_cnt \in 0..IF inited THEN 2 ELSE 0
      /\ act_cnt = 0 /\ inited => o[1].act = "START" /\ o[2].act = "INFO"
      /\ act_cnt = 1 => o[1].act = "INFO"
      /\ \A k \in DOMAIN o : o[k].act = "INFO" => o[k].drm /\ o[k].compression = program.compression
  BY DEF ReplayInv, StartInv
<1>3. /\ DOMAIN out = Threads /\ o \in Seq(Range(o)) /\ status = "running"
      /\ DOMAIN call = Threads
  BY DEF ReplayInv, RecordsInv, OpenInv
<1>4. o[1] = c /\ Len(o) \in Nat /\ Len(o) # 0 /\ DOMAIN o = 1..Len(o)
      /\ Len(Tail(o)) = Len(o) - 1 /\ \A i \in 1..Len(o) - 1 : Tail(o)[i] = o[i + 1]
  BY <1>1, <1>3, ListIs
<1>5. out'[t] = Tail(o)
  BY <1>1, <1>3
<1> HIDE DEF o
<1>6. inited /\ call[t].op = "start" /\ act_cnt \in {0, 1} /\ Len(o) = 2 - act_cnt
  BY <1>2, <1>4
<1>7. call' = call
  BY <1>1, <1>6
<1>8. act_cnt' = act_cnt + 1 /\ handle(c)
  BY <1>1, <1>2, <1>3, <1>6 DEF Consume
<1>9. act_cnt = 0 => c.act = "START"
  BY <1>2, <1>4, <1>6
<1>10. act_cnt = 1 => c.act = "INFO" /\ c.drm /\ c.compression = program.compression
  BY <1>2, <1>4, <1>6
<1>11. /\ UNCHANGED <<ctx_list, bo_list, fb_list, job_ctx_list, pending, status>>
       /\ act_cnt = 1 => compression' = program.compression
  <2>1. InOrder(c)
    BY <1>6, <1>9, <1>10 DEF InOrder
  <2>2. CASE act_cnt = 0
    BY <1>8, <1>9, <2>1, <2>2 DEF handle, lists
  <2>3. CASE act_cnt = 1
    BY <1>8, <1>10, <2>1, <2>3 DEF handle, info, lists
  <2> QED
    BY <1>6, <2>2, <2>3
<1>12. Len(pending) + 1 = 1 /\ r \in Seq(Range(r)) /\ r[1] = c /\ 1 \in 1..Len(r)
  <2>1. Len(pending) + 1 = 1
    BY <1>2
  <2> QED
    BY <1>1, <2>1, UnreadIs DEF o
<1>13. \A bo, ctx : FbMade(fb_list, bo, ctx) => FbMade(fb_list', bo, ctx)
  BY <1>11 DEF FbMade
<1>14. c.act \in {"START", "INFO"}
  BY <1>6, <1>9, <1>10
<1>15. \A i \in 1..1 : r[i] = c
  BY <1>12
<1>16. 1 \in 0..Len(r)
  BY <1>12, ListIs
<1> HIDE DEF r, c
<1>17. RecordsInv(t)' /\ Unread(t)' = Drop(r, 1)
  BY <1>2, <1>11, <1>12, <1>13, <1>14, CarriedOut DEF r
<1>18. MirrorInv(t) /\ FbInv(t)
  BY DEF ReplayInv
<1>19. MirrorInv(t)'
  BY <1>1, <1>11, <1>12, <1>14, <1>15, <1>16, <1>17, <1>18, MirrorOn DEF r
<1>20. FbInv(t)'
  BY <1>1, <1>12, <1>13, <1>14, <1>15, <1>16, <1>17, <1>18, FbOn DEF r
<1>21. ListsInv'
  BY <1>1, <1>11 DEF ReplayInv, ListsInv, UniqueIds, Recorded
<1>22. OpenInv(t)'
  BY <1>1, <1>6, <1>7 DEF ReplayInv, OpenInv
<1>23. StartInv(t)'
  <2>1. Len(out'[t]) = 2 - act_cnt'
    BY <1>4, <1>5, <1>6, <1>8
  <2>2. act_cnt' = 1 => out'[t][1].act = "INFO"
    BY <1>2, <1>4, <1>5, <1>6, <1>8
  <2>3. \A k \in DOMAIN out'[t] : k + 1 \in DOMAIN o /\ out'[t][k] = o[k + 1]
    BY <1>3, <1>4, <1>5
  <2>4. \A k \in DOMAIN out'[t] :
          out'[t][k].act = "INFO" => out'[t][k].drm /\ out'[t][k].compression = program.compression
    BY <1>2, <2>3
  <2>5. act_cnt' \in {1, 2} /\ (act_cnt' = 2 => compression' = program.compression)
    BY <1>6, <1>8, <1>11
  <2> QED
    BY <1>1, <1>2, <1>6, <1>7, <1>11, <2>1, <2>2, <2>4, <2>5 DEF StartInv
<1> QED
  BY <1>3, <1>11, <1>17, <1>19, <1>20, <1>21, <1>22, <1>23 DEF ReplayInv

\* A record of the running recorder
LEMMA RecordRead ==
  ASSUME NEW t, Threads = {t}, ReplayInv(t), enabled, record_write_data(t)
  PROVE  ReplayInv(t)'
<1> DEFINE c == Head(out[t])
<1>1. Consume(c)
  BY DEF record_write_data
<1>2. status = "running" /\ act_cnt = 2
  BY DEF ReplayInv, StartInv
<1>3. InOrder(c)
  BY <1>2 DEF InOrder
<1>4. CASE pending = <<>>
  <2>1. handle(c)
    BY <1>1, <1>2, <1>4 DEF Consume
  <2>2. c.act \notin Payloads /\ c.act \notin {"START", "INFO"}
    BY <1>4, NextRecord
  <2> HIDE DEF c
  <2>3. \/ c.act = "CTX_CREATE" /\ create_context(c)
        \/ c.act = "CTX_DESTROY" /\ destroy_context(c)
        \/ c.act = "BO_CREATE" /\ create_bo(c)
        \/ c.act = "BO_DESTROY" /\ destroy_bo(c)
        \/ c.act = "BO_SET_FLAGS" /\ set_bo_flags(c)
        \/ c.act = "ADD_FRAMEBUFFER" /\ create_framebuffer(c)
        \/ c.act = "DEL_FRAMEBUFFER" /\ destroy_framebuffer(c)
        \/ c.act = "DISP_FRAMEBUFFER" /\ display_framebuffer(c)
        \/ c.act = "JOB_CTX_CREATE" /\ create_job_context(c)
        \/ c.act = "JOB_CTX_DESTROY" /\ destroy_job_context(c)
        \/ c.act \in {"BO_LOAD_DATA", "JOB_SUBMIT"} /\ expect(c)
    BY <1>3, <2>1, <2>2 DEF handle, Payloads
  <2>4. c = Head(out[t])
    BY DEF c
  <2>5. CASE c.act = "CTX_CREATE" /\ create_context(c)
    BY <1>4, <2>4, <2>5, CreateContext
  <2>6. CASE c.act = "CTX_DESTROY" /\ destroy_context(c)
    BY <1>4, <2>4, <2>6, DestroyContext
  <2>7. CASE c.act = "BO_CREATE" /\ create_bo(c)
    BY <1>4, <2>4, <2>7, CreateBo
  <2>8. CASE c.act = "BO_DESTROY" /\ destroy_bo(c)
    BY <1>4, <2>4, <2>8, DestroyBo
  <2>9. CASE c.act = "BO_SET_FLAGS" /\ set_bo_flags(c)
    BY <1>4, <2>4, <2>9, SetBoFlags
  <2>10. CASE c.act = "ADD_FRAMEBUFFER" /\ create_framebuffer(c)
    BY <1>4, <2>4, <2>10, CreateFramebuffer
  <2>11. CASE c.act = "DEL_FRAMEBUFFER" /\ destroy_framebuffer(c)
    BY <1>4, <2>4, <2>11, DestroyFramebuffer
  <2>12. CASE c.act = "DISP_FRAMEBUFFER" /\ display_framebuffer(c)
    BY <1>4, <2>4, <2>12, DisplayFramebuffer
  <2>13. CASE c.act = "JOB_CTX_CREATE" /\ create_job_context(c)
    BY <1>4, <2>4, <2>13, CreateJobContext
  <2>14. CASE c.act = "JOB_CTX_DESTROY" /\ destroy_job_context(c)
    BY <1>4, <2>4, <2>14, DestroyJobContext
  <2>15. CASE c.act \in {"BO_LOAD_DATA", "JOB_SUBMIT"} /\ expect(c)
    BY <1>4, <2>4, <2>15, Expect
  <2> QED
    BY <2>3, <2>5, <2>6, <2>7, <2>8, <2>9, <2>10, <2>11, <2>12, <2>13, <2>14, <2>15
<1>5. CASE pending # <<>>
  <2>1. \/ Head(pending).act = "BO_LOAD_DATA" /\ load_bo(c)
        \/ Head(pending).act = "JOB_SUBMIT" /\ Len(pending) = 1 /\ read_gathers(c)
        \/ Head(pending).act = "JOB_SUBMIT" /\ Len(pending) = 2 /\ submit_job(c)
    BY <1>1, <1>2, <1>5 DEF Consume
  <2> QED
    BY <1>5, <2>1, LoadBo, ReadGathers, SubmitJob
<1> QED
  BY <1>4, <1>5

\* Every record replay.c reads keeps the invariant.
LEMMA ReadStep ==
  ASSUME NEW t, Threads = {t}, ReplayInv(t), record_write_data(t)
  PROVE  ReplayInv(t)'
BY StartRead, RecordRead

-----------------------------------------------------------------------------
(* A step of the program: what it leaves to be written *)

\* Between two calls of the program everything is read.
LEMMA NothingUnread ==
  ASSUME NEW t \in Threads, RecordsInv(t), out[t] = <<>>
  PROVE  pending = <<>> /\ Unread(t) = <<>>
<1>1. pending \in Seq(Range(pending)) /\ PendingInv
  BY DEF RecordsInv
<1>2. Unread(t) = pending
  BY <1>1 DEF Unread
<1>3. Complete(pending)
  BY <1>2 DEF RecordsInv
<1>4. Len(pending) \in Nat /\ DOMAIN pending = 1..Len(pending)
  BY <1>1, ListIs
<1>5. CASE Len(pending) = 1 /\ pending[1].act \in {"BO_LOAD_DATA", "JOB_SUBMIT"}
  <2>1. 1 \in DOMAIN pending /\ 1 + 1 \notin DOMAIN pending
    BY <1>4, <1>5
  <2> QED
    BY <1>3, <1>5, <2>1 DEF Complete
<1>6. CASE Len(pending) = 2 /\ WithRelocs(pending[1])
  <2>1. 1 \in DOMAIN pending /\ 1 + 1 \in DOMAIN pending /\ 1 + 2 \notin DOMAIN pending
    BY <1>4, <1>6
  <2> QED
    BY <1>3, <1>6, <2>1 DEF Complete
<1> QED
  BY <1>1, <1>2, <1>5, <1>6 DEF PendingInv

\* A step of the program that writes the records s keeps the invariant when the records are complete,
\* name what exists, and follow what the step did to the program's objects.
LEMMA ProgramStep ==
  ASSUME NEW t, Threads = {t}, ReplayInv(t), out[t] = <<>>, UNCHANGED repVars,
         NEW s, s \in Seq(Range(s)), out' = [out EXCEPT ![t] = s],
         Complete(s), \A c \in Range(s) : RecordInv(c)',
         Mirror(IdList(bo_list), s, LiveIds(bos'), "BO_CREATE", "BO_DESTROY"),
         Mirror(ctx_list, s, LiveCtxs', "CTX_CREATE", "CTX_DESTROY"),
         Mirror(job_ctx_list, s, LiveIds(contexts'), "JOB_CTX_CREATE", "JOB_CTX_DESTROY"),
         \A f \in Files : \A i \in DOMAIN bos'[f] :
           bos'[f][i].fb_id # None =>
             \/ /\ rec_ctx'[f] = rec_ctx[f]
                /\ \E k \in DOMAIN bos[f] : bos[f][k].id = bos'[f][i].id /\ bos[f][k].fb_id # None
             \/ \E c \in Range(s) : /\ c.act = "ADD_FRAMEBUFFER"
                                    /\ c.bo_id = bos'[f][i].id /\ c.ctx_id = rec_ctx'[f],
         ListsInv', OpenInv(t)', StartInv(t)'
  PROVE  ReplayInv(t)'
<1>1. RecordsInv(t) /\ FbInv(t) /\ status = "running"
  BY DEF ReplayInv
<1>2. pending = <<>> /\ Unread(t) = <<>>
  BY <1>1, NothingUnread
<1>3. DOMAIN out' = Threads /\ out'[t] = s
  BY <1>1 DEF RecordsInv
<1>4. UNCHANGED <<pending, status, ctx_list, bo_list, fb_list, job_ctx_list>>
  BY DEF repVars, lists
<1>5. Unread(t)' = s
  BY <1>2, <1>3, <1>4 DEF Unread
<1>6. RecordsInv(t)'
  BY <1>2, <1>3, <1>4, <1>5 DEF RecordsInv, PendingInv
<1>7. MirrorInv(t)'
  BY <1>4, <1>5 DEF MirrorInv
<1>8. \A c : c \notin Range(Unread(t))
  BY <1>2 DEF Range
<1>9. \A f \in Files : \A i \in DOMAIN bos[f] :
        bos[f][i].fb_id # None => FbMade(fb_list, bos[f][i].id, rec_ctx[f])
  BY <1>1, <1>8 DEF FbInv
<1>10. FbInv(t)'
  BY <1>4, <1>5, <1>9 DEF FbInv
<1> QED
  BY <1>1, <1>4, <1>6, <1>7, <1>10 DEF ReplayInv

\* Nothing is left to be written, and the shadow stays.
LEMMA Quiet ==
  ASSUME NEW t, Threads = {t}, ReplayInv(t), out[t] = <<>>,
         UNCHANGED <<program, repVars, shadow, out>>, OpenInv(t)', StartInv(t)'
  PROVE  ReplayInv(t)'
<1>1. RecordsInv(t) /\ FbInv(t) /\ status = "running"
  BY DEF ReplayInv
<1>2. pending = <<>> /\ Unread(t) = <<>>
  BY <1>1, NothingUnread
<1>3. UNCHANGED <<pending, status, ctx_list, bo_list, fb_list, job_ctx_list, rec_ctx, bos, contexts>>
  BY DEF repVars, lists, shadow
<1>4. Unread(t)' = <<>> /\ LiveCtxs' = LiveCtxs /\ Recorded' = Recorded
  BY <1>2, <1>3 DEF Unread, LiveCtxs, Recorded
<1>5. \A c : c \notin Range(Unread(t))
  BY <1>2 DEF Range
<1>6. RecordsInv(t)'
  BY <1>1, <1>2, <1>3, <1>4, <1>5 DEF RecordsInv, PendingInv
<1>7. MirrorInv(t)'
  BY <1>2, <1>3, <1>4 DEF ReplayInv, MirrorInv
<1>8. FbInv(t)'
  BY <1>1, <1>2, <1>3, <1>4 DEF FbInv
<1>9. ListsInv'
  BY <1>3, <1>4 DEF ReplayInv, ListsInv, UniqueIds
<1> QED
  BY <1>1, <1>3, <1>6, <1>7, <1>8, <1>9 DEF ReplayInv

\* Nothing at all changes that the invariant speaks of.
LEMMA Aborts ==
  ASSUME NEW t, ReplayInv(t), UNCHANGED <<program, repVars>>, NEW why, Abort(why)
  PROVE  ReplayInv(t)'
<1>1. UNCHANGED <<program, act_cnt, compression, ctx_list, bo_list, fb_list, job_ctx_list, pending, status,
                  rec_ctx, bos, contexts, inited, enabled, ctx_cnt, bos_cnt, job_ctx_cnt, call, out>>
  BY DEF Abort, repVars, lists, shadow, recorder
<1>2. /\ LiveCtxs' = LiveCtxs /\ Recorded' = Recorded /\ Unread(t)' = Unread(t)
      /\ \A bo : FbLive(bo)' <=> FbLive(bo)
  BY <1>1 DEF LiveCtxs, Recorded, Unread, FbLive
<1>3. \A c : RecordInv(c) => RecordInv(c)'
  BY <1>1, <1>2, RecordSame
<1>4. RecordsInv(t)'
  BY <1>1, <1>2, <1>3 DEF ReplayInv, RecordsInv, PendingInv
<1>5. MirrorInv(t)'
  BY <1>1, <1>2 DEF ReplayInv, MirrorInv
<1>6. FbInv(t)'
  BY <1>1, <1>2 DEF ReplayInv, FbInv
<1>7. ListsInv'
  BY <1>1, <1>2 DEF ReplayInv, ListsInv, UniqueIds
<1>8. OpenInv(t)'
  BY <1>1, <1>2 DEF ReplayInv, OpenInv
<1>9. StartInv(t)'
  BY <1>1, <1>2 DEF ReplayInv, StartInv
<1> QED
  BY <1>1, <1>4, <1>5, <1>6, <1>7, <1>8, <1>9 DEF ReplayInv

\* The recorder runs on, or is not started yet.
LEMMA StartStays ==
  ASSUME NEW t, ReplayInv(t), UNCHANGED <<program, repVars, inited, enabled>>,
         call[t].op # "start", call'[t].op # "start",
         enabled \/ (out'[t] = out[t] /\ rec_ctx' = rec_ctx)
  PROVE  StartInv(t)'
<1>1. UNCHANGED <<act_cnt, compression, ctx_list, bo_list, job_ctx_list, pending>>
  BY DEF repVars, lists
<1> QED
  BY <1>1 DEF ReplayInv, StartInv

\* A file is recorded only by the running recorder.
LEMMA RecordedEnabled ==
  ASSUME NEW t, ReplayInv(t), NEW f \in Files
  PROVE  /\ rec_ctx[f] # None => enabled /\ f \in Recorded
         /\ bos[f] # <<>> \/ contexts[f] # <<>> => rec_ctx[f] # None
BY DEF ReplayInv, StartInv, ListsInv, Recorded

\* A call that opens and creates nothing
LEMMA OpenStays ==
  ASSUME NEW t, DOMAIN call' = Threads, ctx_cnt' \in Nat,
         call'[t].op \notin {"counting", "create", "open_channel"},
         call'[t].op # "none" => call'[t].file \in Files
  PROVE  OpenInv(t)'
BY DEF OpenInv

\* A return from a hook leaves the thread between calls, or about to return from one on a known file.
LEMMA Returned ==
  ASSUME NEW t \in Threads, DOMAIN call = Threads, NEW f \in Files, NEW u, NEW s, Return(t, f, u, s)
  PROVE  /\ DOMAIN call' = Threads /\ call'[t].op \in {"none", "return"}
         /\ call'[t].op # "none" => call'[t].file \in Files
<1>1. call' = [call EXCEPT ![t] = NoCall] \/ call' = [call EXCEPT ![t] = Call("return", f, None, None, u)]
  BY DEF Return
<1> QED
  BY <1>1, CallFields

\* A single record
LEMMA OneRecord ==
  ASSUME NEW c
  PROVE  /\ <<c>> \in Seq(Range(<<c>>)) /\ Range(<<c>>) = {c} /\ <<c>> # <<>>
         /\ c.act \notin Payloads \cup {"BO_LOAD_DATA", "JOB_SUBMIT"} => Complete(<<c>>)
<1>1. DOMAIN <<c>> = {1} /\ <<c>>[1] = c /\ Len(<<c>>) = 1
  OBVIOUS
<1>2. Range(<<c>>) = {c}
  BY <1>1 DEF Range
<1>3. 1 + 1 \notin {1} /\ 1 + 2 \notin {1}
  OBVIOUS
<1>4. ASSUME c.act \notin Payloads \cup {"BO_LOAD_DATA", "JOB_SUBMIT"}
      PROVE  Complete(<<c>>)
  BY <1>1, <1>3, <1>4 DEF Complete
<1> QED
  BY <1>2, <1>4

\* A step that writes nothing.
LEMMA NoRecord ==
  /\ <<>> \in Seq(Range(<<>>)) /\ Complete(<<>>) /\ \A c : c \notin Range(<<>>)
BY DEF Range, Complete

\* The fields of the records.
LEMMA RecFields ==
  ASSUME NEW a \in DOMAIN Code, NEW id, NEW ctx
  PROVE  /\ Rec(a, id, ctx).act = a /\ Rec(a, id, ctx).id = id /\ Rec(a, id, ctx).ctx_id = ctx
         /\ \A n : /\ BoRec(id, ctx, n).act = "BO_CREATE" /\ BoRec(id, ctx, n).id = id
                   /\ BoRec(id, ctx, n).ctx_id = ctx
         /\ \A p : /\ LoadRec(id, ctx, p).act = "BO_LOAD_DATA" /\ LoadRec(id, ctx, p).id = id
                   /\ LoadRec(id, ctx, p).ctx_id = ctx
         /\ \A bo, g : /\ FbRec(a, bo, ctx, g).act = a /\ FbRec(a, bo, ctx, g).bo_id = bo.id
                       /\ FbRec(a, bo, ctx, g).ctx_id = ctx
BY DEF Rec, BoRec, LoadRec, FbRec

-----------------------------------------------------------------------------
(* Steps that write nothing *)

\* The kernel's part of a call, and what ends a call without a record
LEMMA QuietCalls ==
  ASSUME NEW t, Threads = {t}, ReplayInv(t), UNCHANGED <<program, repVars>>,
         NEW f \in Files, NEW h, NEW b, NEW p, NEW v,
         \/ GemMmap(t, f, h) \/ GemClose(t, f, h) \/ BadHandle(t, f, h) \/ AddFb(t, f, h, b)
         \/ CloseChannel(t, f, h) \/ CpuWrite(t, f, h, p, v) \/ FbKernel(t) \/ SubmitKernel(t)
         \/ CloseFd(t, f)
  PROVE  ReplayInv(t)'
<1>1. DOMAIN call = Threads /\ ctx_cnt \in Nat
  BY DEF ReplayInv, OpenInv
<1>2. /\ UNCHANGED <<shadow, recorder, out>> /\ out[t] = <<>>
      /\ \/ call' = call /\ call[t] = NoCall
         \/ call' = [call EXCEPT ![t] = NoCall] /\ call[t].op \in {"rmfb", "display", "submit"}
         \/ /\ call[t] = NoCall
            /\ \E op \in {"mmap", "close", "addfb", "close_channel"} : \E o, u, x :
                 call' = [call EXCEPT ![t] = Call(op, f, x, o, u)]
  <2>1. CASE GemMmap(t, f, h)
    BY <2>1 DEF GemMmap, Entered, Idle
  <2>2. CASE GemClose(t, f, h)
    BY <2>2 DEF GemClose, Entered, Idle
  <2>3. CASE BadHandle(t, f, h)
    <3>1. PICK op \in {"mmap", "close", "addfb"} : Entered(t, Call(op, f, h, None, {}))
      BY <2>3 DEF BadHandle
    <3> QED
      BY <3>1 DEF Entered, Idle
  <2>4. CASE AddFb(t, f, h, b)
    BY <2>4 DEF AddFb, Entered, Idle
  <2>5. CASE CloseChannel(t, f, h)
    BY <2>5 DEF CloseChannel, Entered, Idle
  <2>6. CASE CpuWrite(t, f, h, p, v)
    BY <2>6 DEF CpuWrite, Idle
  <2>7. CASE FbKernel(t)
    BY <2>7 DEF FbKernel
  <2>8. CASE SubmitKernel(t)
    <3>1. /\ call[t].op = "submit" /\ out[t] = <<>>
          /\ call' = [call EXCEPT ![t] = NoCall]
          /\ UNCHANGED <<shadow, recorder, out>>
      BY <2>8 DEF SubmitKernel
    <3> QED
      BY <3>1
  <2>9. CASE CloseFd(t, f)
    BY <2>9 DEF CloseFd, Idle
  <2> QED
    BY <2>1, <2>2, <2>3, <2>4, <2>5, <2>6, <2>7, <2>8, <2>9
<1>3. /\ DOMAIN call' = Threads /\ call[t].op # "start"
      /\ call'[t].op \in {"none", "mmap", "close", "addfb", "close_channel"}
      /\ call'[t].op # "none" => call'[t].file \in Files
  <2>1. CASE call' = call /\ call[t] = NoCall
    BY <1>1, <2>1, CallFields
  <2>2. CASE call' = [call EXCEPT ![t] = NoCall] /\ call[t].op \in {"rmfb", "display", "submit"}
    BY <1>1, <2>2, CallFields
  <2>4. call[t] = NoCall => call[t].op # "start"
    BY CallFields
  <2>3. ASSUME call[t] = NoCall, NEW op \in {"mmap", "close", "addfb", "close_channel"},
               NEW o, NEW u, NEW x, call' = [call EXCEPT ![t] = Call(op, f, x, o, u)]
        PROVE  /\ DOMAIN call' = Threads /\ call[t].op # "start"
               /\ call'[t].op \in {"none", "mmap", "close", "addfb", "close_channel"}
               /\ call'[t].op # "none" => call'[t].file \in Files
    <3>1. DOMAIN call' = Threads /\ call'[t] = Call(op, f, x, o, u)
      BY <1>1, <2>3
    <3>2. call'[t].op = op /\ call'[t].file = f
      BY <3>1, CallFields
    <3> QED
      BY <2>3, <2>4, <3>1, <3>2
  <2> QED
    BY ONLY <1>2, <2>1, <2>2, <2>3
<1>4. UNCHANGED <<ctx_cnt, inited, enabled, rec_ctx>>
  BY <1>2 DEF recorder, shadow
<1>5. OpenInv(t)'
  BY <1>1, <1>3, <1>4, OpenStays
<1>6. StartInv(t)'
  BY <1>2, <1>3, <1>4, StartStays
<1> QED
  BY <1>2, <1>5, <1>6, Quiet

\* GEM_CREATE: the id the buffer will get is free.
LEMMA CreatesHandle ==
  ASSUME NEW t, Threads = {t}, ReplayInv(t), UNCHANGED <<program, repVars>>,
         NEW f \in Files, NEW h, NEW o, GemCreate(t, f, h, o)
  PROVE  ReplayInv(t)'
<1>1. /\ DOMAIN call = Threads /\ ctx_cnt \in Nat /\ call[t] = NoCall /\ out[t] = <<>>
      /\ UNCHANGED <<shadow, recorder, out>> /\ enabled /\ rec_ctx[f] # None
      /\ call' = [call EXCEPT ![t] = Call("create", f, h, o, {h})]
      /\ \A e \in Files : bos_cnt % IdMod \notin {bos[e][i].id : i \in DOMAIN bos[e]}
  BY DEF ReplayInv, OpenInv, GemCreate, Entered, Idle, Known, IsOpen, Fresh
<1>2. /\ DOMAIN call' = Threads /\ call[t].op # "start"
      /\ call'[t].op = "create" /\ call'[t].file = f
  BY <1>1, CallFields
<1>3. UNCHANGED <<ctx_cnt, bos_cnt, inited, enabled, rec_ctx, bos>>
  BY <1>1 DEF recorder, shadow
<1>4. f \in Recorded
  BY <1>1, RecordedEnabled
<1>5. bos_cnt % IdMod \notin LiveIds(bos)
  BY <1>1 DEF LiveIds, IdsOf
<1>6. OpenInv(t)'
  BY <1>1, <1>2, <1>3, <1>4, <1>5 DEF OpenInv, Recorded
<1>7. StartInv(t)'
  BY <1>1, <1>2, <1>3, StartStays
<1> QED
  BY <1>1, <1>6, <1>7, Quiet

\* DRM_IOCTL_TEGRA_OPEN_CHANNEL: the context gets its number and its record.
LEMMA OpensChannel ==
  ASSUME NEW t, Threads = {t}, ReplayInv(t), UNCHANGED <<program, repVars>>,
         NEW f \in Files, NEW c, OpenChannel(t, f, c)
  PROVE  ReplayInv(t)'
<1>1. /\ DOMAIN call = Threads /\ ctx_cnt \in Nat /\ call[t] = NoCall /\ out[t] = <<>>
      /\ UNCHANGED <<shadow, recorder, out>> /\ enabled /\ rec_ctx[f] # None
      /\ call' = [call EXCEPT ![t] = Call("open_channel", f, c, None, {})]
      /\ \A e \in Files : job_ctx_cnt % IdMod \notin {contexts[e][i].id : i \in DOMAIN contexts[e]}
  BY DEF ReplayInv, OpenInv, OpenChannel, Entered, Idle, Known, IsOpen, Fresh
<1>2. /\ DOMAIN call' = Threads /\ call[t].op # "start"
      /\ call'[t].op = "open_channel" /\ call'[t].file = f
  BY <1>1, CallFields
<1>3. UNCHANGED <<ctx_cnt, job_ctx_cnt, inited, enabled, rec_ctx, contexts>>
  BY <1>1 DEF recorder, shadow
<1>4. f \in Recorded
  BY <1>1, RecordedEnabled
<1>5. job_ctx_cnt % IdMod \notin LiveIds(contexts)
  BY <1>1 DEF LiveIds, IdsOf
<1>6. OpenInv(t)'
  BY <1>1, <1>2, <1>3, <1>4, <1>5 DEF OpenInv, Recorded
<1>7. StartInv(t)'
  BY <1>1, <1>2, <1>3, StartStays
<1> QED
  BY <1>1, <1>6, <1>7, Quiet

-----------------------------------------------------------------------------
(* open() and close() *)

\* The id the context will get is free.
LEMMA CountingIs ==
  ASSUME NEW t, Threads = {t}, ReplayInv(t), NEW f \in Files, NewContext(t, f),
         ctx_cnt' = ctx_cnt, enabled', out'[t] = <<>>, UNCHANGED rec_ctx, rec_ctx[f] = None
  PROVE  OpenInv(t)' /\ call'[t].op # "start"
<1>1. /\ DOMAIN call = Threads /\ ctx_cnt \in Nat
      /\ call' = [call EXCEPT ![t] = Counting(f, ctx_cnt)]
      /\ ctx_cnt % IdMod \notin {rec_ctx[e] : e \in Files}
  BY DEF ReplayInv, OpenInv, NewContext, Fresh
<1>2. /\ DOMAIN call' = Threads /\ call'[t].op = "counting"
      /\ call'[t].file = f /\ call'[t].count = ctx_cnt
  BY <1>1 DEF Counting
<1>3. LiveCtxs' = LiveCtxs /\ ctx_cnt % IdMod \notin LiveCtxs
  BY <1>1 DEF LiveCtxs, Recorded
<1> QED
  BY <1>1, <1>2, <1>3 DEF OpenInv

\* Nobody else is starting the recorder: a file is opened when it runs, or starts it.
LEMMA OpensFile ==
  ASSUME NEW t, Threads = {t}, ReplayInv(t), UNCHANGED <<program, repVars>>,
         NEW f \in Files, OpenFile(t, f)
  PROVE  ReplayInv(t)'
<1>1. /\ DOMAIN call = Threads /\ ctx_cnt \in Nat /\ DOMAIN out = Threads
      /\ call[t] = NoCall /\ call[t].op = "none" /\ out[t] = <<>> /\ rec_ctx[f] = None
      /\ UNCHANGED <<bos, contexts, enabled, ctx_cnt, bos_cnt, job_ctx_cnt>>
  BY CallFields DEF ReplayInv, OpenInv, RecordsInv, OpenFile, Idle, IsOpen
<1>2. inited => enabled
  BY <1>1 DEF ReplayInv, StartInv
<1>3. CASE enabled
  <2>1. NewContext(t, f) /\ UNCHANGED <<rec_ctx, inited, out>>
    BY <1>3 DEF OpenFile, ReplayInv, StartInv
  <2>2. OpenInv(t)' /\ call'[t].op # "start"
    BY <1>1, <1>3, <2>1, CountingIs
  <2>3. StartInv(t)'
    BY <1>1, <1>3, <2>1, <2>2, StartStays
  <2> QED
    BY <1>1, <2>1, <2>2, <2>3, Quiet DEF shadow
<1>4. CASE ~enabled
  <2> DEFINE a == [act |-> "START", code |-> 0]
             i == [act |-> "INFO", code |-> 1, drm |-> TRUE, compression |-> program.compression]
             s == <<a, i>>
  <2>1. ~inited /\ inited' /\ record_start(t, f) /\ UNCHANGED rec_ctx
    BY <1>2, <1>4 DEF OpenFile
  <2>2. out' = [out EXCEPT ![t] = s] /\ call' = [call EXCEPT ![t] = Call("start", f, None, None, {})]
    BY <2>1 DEF record_start
  <2>3. /\ DOMAIN s = {1, 2} /\ s[1] = a /\ s[2] = i /\ Len(s) = 2
        /\ s \in Seq(Range(s))
        /\ a.act = "START" /\ i.act = "INFO" /\ i.drm /\ i.compression = program.compression
    <3>1. DOMAIN s = {1, 2} /\ s[1] = a /\ s[2] = i /\ Len(s) = 2
      OBVIOUS
    <3>2. a \in Range(s) /\ i \in Range(s)
      BY <3>1 DEF Range
    <3> QED
      BY <3>1, <3>2
  <2>4. \A c \in Range(s) : c.act \in {"START", "INFO"}
    BY <2>3 DEF Range
  <2> HIDE DEF s, a, i
  <2>5. Complete(s)
    <3>1. \A k \in DOMAIN s : s[k].act \in {"START", "INFO"}
      BY <2>4 DEF Range
    <3>2. /\ \A k \in DOMAIN s : s[k].act \notin {"BO_LOAD_DATA", "JOB_SUBMIT", "DEL_FRAMEBUFFER"} \cup Payloads
          /\ \A k \in DOMAIN s : ~WithRelocs(s[k])
      BY <3>1 DEF Payloads, WithRelocs
    <3> HIDE DEF Payloads
    <3> QED
      BY <3>2 DEF Complete, Payloads
  <2>6. ~enabled'
    BY <1>1, <1>4
  <2>7. \A c \in Range(s) : RecordInv(c)'
    BY <2>4, <2>6 DEF RecordInv, Code, Payloads
  <2>8. /\ \A k \in DOMAIN s : s[k].act \in {"START", "INFO"}
        /\ \A x : x \notin {"START", "INFO"} => RecordsOf(s, x) = {} /\ IdsIn(s, x) = {}
    <3>1. \A k \in DOMAIN s : s[k].act \in {"START", "INFO"}
      BY <2>4 DEF Range
    <3>2. ASSUME NEW x, x \notin {"START", "INFO"}
          PROVE  RecordsOf(s, x) = {} /\ IdsIn(s, x) = {}
      BY <3>1, <3>2 DEF RecordsOf, IdsIn
    <3> QED
      BY <3>1, <3>2
  <2>9. /\ ctx_list = <<>> /\ bo_list = <<>> /\ job_ctx_list = <<>> /\ pending = <<>>
        /\ \A e \in Files : rec_ctx[e] = None
        /\ act_cnt = 0
    BY <1>4, <2>1 DEF ReplayInv, StartInv
  <2>10. LiveCtxs' = LiveCtxs /\ Recorded' = Recorded
    BY <2>1 DEF LiveCtxs, Recorded
  <2>11. /\ Mirror(IdList(bo_list), <<>>, LiveIds(bos), "BO_CREATE", "BO_DESTROY")
         /\ Mirror(ctx_list, <<>>, LiveCtxs, "CTX_CREATE", "CTX_DESTROY")
         /\ Mirror(job_ctx_list, <<>>, LiveIds(contexts), "JOB_CTX_CREATE", "JOB_CTX_DESTROY")
    BY <1>1, NothingUnread DEF ReplayInv, MirrorInv
  <2>12. \A x : RecordsOf(<<>>, x) = {} /\ IdsIn(<<>>, x) = {}
    BY DEF RecordsOf, IdsIn
  <2>13. \A L, S, C, D : C \notin {"START", "INFO"} /\ D \notin {"START", "INFO"} /\ Mirror(L, <<>>, S, C, D)
                          => Mirror(L, s, S, C, D)
    BY <2>8, <2>12 DEF Mirror
  <2>14. /\ Mirror(IdList(bo_list), s, LiveIds(bos'), "BO_CREATE", "BO_DESTROY")
         /\ Mirror(ctx_list, s, LiveCtxs', "CTX_CREATE", "CTX_DESTROY")
         /\ Mirror(job_ctx_list, s, LiveIds(contexts'), "JOB_CTX_CREATE", "JOB_CTX_DESTROY")
    BY <1>1, <2>10, <2>11, <2>13
  <2>15. ListsInv'
    BY <1>1, <2>1, <2>10 DEF ReplayInv, ListsInv, UniqueIds, repVars, lists
  <2>16. /\ DOMAIN call' = Threads /\ call'[t].op = "start" /\ call'[t].file = f /\ out'[t] = s
    BY <1>1, <2>2, CallFields
  <2>17. OpenInv(t)'
    BY <1>1, <2>16, OpenStays
  <2>18. StartInv(t)'
    BY <1>1, <2>1, <2>3, <2>6, <2>9, <2>16 DEF StartInv, repVars, lists
  <2>19. \A e \in Files : \A k \in DOMAIN bos'[e] :
           bos'[e][k].fb_id # None =>
             /\ rec_ctx'[e] = rec_ctx[e]
             /\ \E j \in DOMAIN bos[e] : bos[e][j].id = bos'[e][k].id /\ bos[e][j].fb_id # None
    BY <1>1, <2>1
  <2> QED
    BY <1>1, <2>2, <2>3, <2>5, <2>7, <2>14, <2>15, <2>17, <2>18, <2>19, ProgramStep
<1> QED
  BY <1>3, <1>4

\* record_start has returned.
LEMMA Starts ==
  ASSUME NEW t, Threads = {t}, ReplayInv(t), UNCHANGED <<program, repVars>>, Started(t)
  PROVE  ReplayInv(t)'
<1> DEFINE f == call[t].file
<1>1. /\ call[t].op = "start" /\ out[t] = <<>> /\ enabled' /\ NewContext(t, f)
      /\ UNCHANGED <<kernel, shadow, inited, ctx_cnt, bos_cnt, job_ctx_cnt, out, lock, aborted>>
  BY DEF Started
<1>2. f \in Files
  BY <1>1 DEF ReplayInv, OpenInv
<1>3. ~enabled
  BY <1>1 DEF ReplayInv, StartInv
<1>4. /\ \A e \in Files : rec_ctx[e] = None
      /\ inited /\ 0 = 2 - act_cnt /\ act_cnt \in 0..2
      /\ act_cnt = 2 => compression = program.compression
  <2>1. Len(out[t]) = 0
    BY <1>1
  <2> QED
    BY <1>1, <1>3, <2>1 DEF ReplayInv, StartInv
<1>5. act_cnt = 2
  BY <1>4
<1>6. UNCHANGED <<rec_ctx, act_cnt, compression>>
  BY <1>1 DEF shadow, repVars
<1>7. OpenInv(t)' /\ call'[t].op # "start"
  BY <1>1, <1>2, <1>4, <1>6, CountingIs
<1>8. StartInv(t)'
  BY <1>1, <1>4, <1>5, <1>6, <1>7 DEF StartInv
<1> QED
  BY <1>1, <1>7, <1>8, Quiet

-----------------------------------------------------------------------------
(* Steps that write one record *)

\* What the entries of a changed table are
LEMMA AddedEntries ==
  ASSUME NEW T, IsTable(T), NEW f \in Files, NEW x, NEW U, U = [T EXCEPT ![f] = Append(T[f], x)]
  PROVE  /\ \A e \in Files : \A k \in DOMAIN U[e] :
              (e = f /\ U[e][k] = x) \/ \E j \in DOMAIN T[e] : U[e][k] = T[e][j]
         /\ \A e \in Files : e # f => U[e] = T[e]
<1>1. DOMAIN T = Files /\ T[f] \in Seq(Range(T[f]))
  BY DEF IsTable
<1>2. U[f] = Append(T[f], x) /\ \A e \in Files : e # f => U[e] = T[e]
  BY <1>1
<1> DEFINE q == T[f]
           r == Append(q, x)
<1>3. /\ DOMAIN r = 1..Len(q) + 1 /\ Len(q) \in Nat
      /\ \A i \in 1..Len(q) : r[i] = q[i]
      /\ r[Len(q) + 1] = x
  BY <1>1, AppendList
<1>4. DOMAIN q = 1..Len(q)
  BY <1>1, ListIs
<1> HIDE DEF q, r
<1>5. \A k \in DOMAIN r : r[k] = x \/ \E j \in DOMAIN q : r[k] = q[j]
  <2>1. ASSUME NEW k \in DOMAIN r
        PROVE  r[k] = x \/ \E j \in DOMAIN q : r[k] = q[j]
    <3>1. k = Len(q) + 1 \/ k \in 1..Len(q)
      BY <1>3
    <3> QED
      BY <1>3, <1>4, <3>1
  <2> QED
    BY <2>1
<1> QED
  BY <1>2, <1>5 DEF q, r

\* list_del leaves the other entries and the other files' lists.
LEMMA RemovedEntries ==
  ASSUME NEW T, IsTable(T), NEW f \in Files, NEW i \in DOMAIN T[f],
         NEW U, U = [T EXCEPT ![f] = RemoveAt(T[f], i)]
  PROVE  /\ \A e \in Files : \A k \in DOMAIN U[e] : \E j \in DOMAIN T[e] : U[e][k] = T[e][j]
         /\ \A e \in Files : e # f => U[e] = T[e]
<1>1. DOMAIN T = Files /\ T[f] \in Seq(Range(T[f]))
  BY DEF IsTable
<1>2. U[f] = RemoveAt(T[f], i) /\ \A e \in Files : e # f => U[e] = T[e]
  BY <1>1
<1> DEFINE q == T[f]
           r == RemoveAt(q, i)
<1>3. /\ Len(q) \in Nat \ {0} /\ DOMAIN r = 1..Len(q) - 1
      /\ \A k \in 1..Len(q) - 1 : r[k] = IF k < i THEN q[k] ELSE q[k + 1]
  BY <1>1, RemoveAtList
<1>4. DOMAIN q = 1..Len(q)
  BY <1>1, ListIs
<1> HIDE DEF q, r
<1>5. \A k \in DOMAIN r : \E j \in DOMAIN q : r[k] = q[j]
  <2>1. ASSUME NEW k \in DOMAIN r
        PROVE  \E j \in DOMAIN q : r[k] = q[j]
    <3>1. k \in 1..Len(q) /\ k + 1 \in 1..Len(q)
      BY <1>3
    <3> QED
      BY <1>3, <1>4, <3>1
  <2> QED
    BY <2>1
<1> QED
  BY <1>2, <1>5 DEF q, r

\* An assignment to an entry that keeps its identity leaves the live identities and the other entries.
LEMMA EditedEntries ==
  ASSUME NEW T, IsTable(T), UniqueIds(T), NEW f \in Files, NEW i \in DOMAIN T[f],
         NEW b, b.id = T[f][i].id, NEW U, U = WithEntry(T, f, i, b)
  PROVE  /\ IsTable(U) /\ UniqueIds(U) /\ LiveIds(U) = LiveIds(T)
         /\ U[f][i] = b
         /\ \A e \in Files : DOMAIN U[e] = DOMAIN T[e]
         /\ \A e \in Files : \A k \in DOMAIN T[e] : e # f \/ k # i => U[e][k] = T[e][k]
<1>1. DOMAIN T = Files /\ \A e \in Files : T[e] \in Seq(Range(T[e]))
  BY DEF IsTable
<1> DEFINE q == T[f]
           r == [q EXCEPT ![i] = b]
<1>2. DOMAIN U = Files /\ U[f] = r /\ \A e \in Files : e # f => U[e] = T[e]
  BY <1>1 DEF WithEntry
<1>3. Len(q) \in Nat /\ DOMAIN q = 1..Len(q)
  BY <1>1, ListIs
<1>4. DOMAIN r = DOMAIN q /\ r = [k \in DOMAIN q |-> r[k]] /\ r[i] = b /\ \A k \in DOMAIN q : k # i => r[k] = q[k]
  OBVIOUS
<1>5. r \in Seq(Range(r))
  BY <1>3, <1>4, IsList
<1> HIDE DEF q, r
<1>6. \A e \in Files : DOMAIN U[e] = DOMAIN T[e] /\ U[e] \in Seq(Range(U[e]))
  BY <1>1, <1>2, <1>4, <1>5 DEF q
<1>7. \A e \in Files : \A k \in DOMAIN T[e] : e # f \/ k # i => U[e][k] = T[e][k]
  BY <1>2, <1>4 DEF q
<1>8. \A e \in Files : \A k \in DOMAIN T[e] : U[e][k].id = T[e][k].id
  BY <1>2, <1>4, <1>7
<1>9. UniqueIds(U) /\ LiveIds(U) = LiveIds(T)
  <2>1. \A e \in Files : /\ DOMAIN U[e] = DOMAIN T[e]
                        /\ \A k \in DOMAIN T[e] : U[e][k].id = T[e][k].id
    BY <1>6, <1>8
  <2> QED
    BY ONLY UniqueIds(T), <2>1, SameIds
<1> QED
  BY <1>2, <1>4, <1>6, <1>7, <1>9 DEF IsTable

\* The rest of ListsInv
LEMMA ListsKept ==
  ASSUME NEW t, ReplayInv(t), UNCHANGED <<repVars, rec_ctx>>,
         IsTable(bos'), UniqueIds(bos'), IsTable(contexts'), UniqueIds(contexts'),
         \A f \in Files : \A i \in DOMAIN bos'[f] : bos'[f][i] = [x \in BoFields |-> bos'[f][i][x]],
         \A f \in Files : rec_ctx[f] = None => bos'[f] = <<>> /\ contexts'[f] = <<>>
  PROVE  ListsInv'
<1>1. UNCHANGED <<ctx_list, bo_list, fb_list, job_ctx_list, rec_ctx>> /\ Recorded' = Recorded
  BY DEF repVars, lists, Recorded
<1>2. /\ DOMAIN bos' = Files /\ DOMAIN contexts' = Files
      /\ \A f \in Files : bos'[f] \in Seq(Range(bos'[f])) /\ contexts'[f] \in Seq(Range(contexts'[f]))
  BY DEF IsTable
<1>3. UniqueIds(bos)' /\ UniqueIds(contexts)'
  BY DEF UniqueIds
<1> QED
  BY <1>1, <1>2, <1>3 DEF ReplayInv, ListsInv

\* What the invariant says of libwrap's lists.
LEMMA TablesAre ==
  ASSUME NEW t, ReplayInv(t)
  PROVE  /\ IsTable(bos) /\ UniqueIds(bos) /\ IsTable(contexts) /\ UniqueIds(contexts)
         /\ \A f \in Files : \A i \in DOMAIN bos[f] : bos[f][i] = [x \in BoFields |-> bos[f][i][x]]
         /\ \A f \in Files : rec_ctx[f] = None => bos[f] = <<>> /\ contexts[f] = <<>>
         /\ DOMAIN call = Threads /\ ctx_cnt \in Nat /\ DOMAIN rec_ctx = Files
BY DEF ReplayInv, ListsInv, OpenInv, IsTable

\* What nothing unread says of the replay
LEMMA AllRead ==
  ASSUME NEW t \in Threads, ReplayInv(t), out[t] = <<>>
  PROVE  /\ Mirror(IdList(bo_list), <<>>, LiveIds(bos), "BO_CREATE", "BO_DESTROY")
         /\ Mirror(ctx_list, <<>>, LiveCtxs, "CTX_CREATE", "CTX_DESTROY")
         /\ Mirror(job_ctx_list, <<>>, LiveIds(contexts), "JOB_CTX_CREATE", "JOB_CTX_DESTROY")
         /\ \A f \in Files : \A i \in DOMAIN bos[f] :
              bos[f][i].fb_id # None => FbMade(fb_list, bos[f][i].id, rec_ctx[f])
<1>1. pending = <<>> /\ Unread(t) = <<>>
  BY NothingUnread DEF ReplayInv
<1>2. \A c : c \notin Range(Unread(t))
  BY <1>1 DEF Range
<1> QED
  BY <1>1, <1>2 DEF ReplayInv, MirrorInv, FbInv

\* The ids S of the program's objects follow the record c.
Follows(c, S, T, create, destroy) ==
    \/ T = S /\ c.act \notin {create, destroy}
    \/ T = S \cup {c.id} /\ c.act = create /\ c.id \notin S
    \/ T = S \ {c.id} /\ c.act = destroy /\ c.id \in S

\* One record that follows the change of the live identities keeps the replay's list in step.
LEMMA MirrorFollows ==
  ASSUME NEW L, NEW S, NEW T, NEW C, NEW D, Mirror(L, <<>>, S, C, D), C # D, NEW c, Follows(c, S, T, C, D)
  PROVE  Mirror(L, <<c>>, T, C, D)
BY MirrorOne, MirrorAnnounce, MirrorRetire DEF Follows

\* A step of the program that writes one record without a payload.
LEMMA OneStep ==
  ASSUME NEW t, Threads = {t}, ReplayInv(t), out[t] = <<>>, enabled,
         UNCHANGED <<program, repVars, inited, enabled>>,
         NEW c, out' = [out EXCEPT ![t] = <<c>>],
         c.act \notin Payloads \cup {"BO_LOAD_DATA", "JOB_SUBMIT"}, RecordInv(c)',
         Follows(c, LiveIds(bos), LiveIds(bos'), "BO_CREATE", "BO_DESTROY"),
         Follows(c, LiveCtxs, LiveCtxs', "CTX_CREATE", "CTX_DESTROY"),
         Follows(c, LiveIds(contexts), LiveIds(contexts'), "JOB_CTX_CREATE", "JOB_CTX_DESTROY"),
         \A f \in Files : \A i \in DOMAIN bos'[f] :
           bos'[f][i].fb_id # None =>
             \/ /\ rec_ctx'[f] = rec_ctx[f]
                /\ \E k \in DOMAIN bos[f] : bos[f][k].id = bos'[f][i].id /\ bos[f][k].fb_id # None
             \/ c.act = "ADD_FRAMEBUFFER" /\ c.bo_id = bos'[f][i].id /\ c.ctx_id = rec_ctx'[f],
         ListsInv', ctx_cnt' \in Nat, DOMAIN call' = Threads, call[t].op # "start",
         call'[t].op \in {"none", "return", "opening", "rmfb", "display"},
         call'[t].op # "none" => call'[t].file \in Files
  PROVE  ReplayInv(t)'
<1>1. <<c>> \in Seq(Range(<<c>>)) /\ Range(<<c>>) = {c} /\ Complete(<<c>>)
  BY OneRecord
<1>2. OpenInv(t)'
  BY OpenStays
<1>3. StartInv(t)'
  BY StartStays
<1>4. Mirror(IdList(bo_list), <<c>>, LiveIds(bos'), "BO_CREATE", "BO_DESTROY")
  BY AllRead, MirrorFollows
<1>5. Mirror(ctx_list, <<c>>, LiveCtxs', "CTX_CREATE", "CTX_DESTROY")
  BY AllRead, MirrorFollows
<1>6. Mirror(job_ctx_list, <<c>>, LiveIds(contexts'), "JOB_CTX_CREATE", "JOB_CTX_DESTROY")
  BY AllRead, MirrorFollows
<1>7. \A d \in Range(<<c>>) : RecordInv(d)'
  BY <1>1
<1>8. \A f \in Files : \A i \in DOMAIN bos'[f] :
        bos'[f][i].fb_id # None =>
          \/ /\ rec_ctx'[f] = rec_ctx[f]
             /\ \E k \in DOMAIN bos[f] : bos[f][k].id = bos'[f][i].id /\ bos[f][k].fb_id # None
          \/ \E d \in Range(<<c>>) : /\ d.act = "ADD_FRAMEBUFFER"
                                     /\ d.bo_id = bos'[f][i].id /\ d.ctx_id = rec_ctx'[f]
  BY <1>1
<1> QED
  BY <1>1, <1>2, <1>3, <1>4, <1>5, <1>6, <1>7, <1>8, ProgramStep

\* Two threads would read the same count; one does not.
LEMMA Counts ==
  ASSUME NEW t, Threads = {t}, ReplayInv(t), UNCHANGED <<program, repVars>>, Counted(t)
  PROVE  ReplayInv(t)'
<1> DEFINE f == call[t].file
<1>0. PICK x, c : x = call[t].count % IdMod /\ c = Rec("CTX_CREATE", x, None)
  OBVIOUS
<1>1. /\ call[t].op = "counting"
      /\ rec_ctx' = [rec_ctx EXCEPT ![f] = x]
      /\ ctx_cnt' = call[t].count + 1
      /\ out' = [out EXCEPT ![t] = <<c>>]
      /\ call' = [call EXCEPT ![t] = Call("opening", f, None, None, {})]
      /\ UNCHANGED <<bos, contexts, inited, enabled>>
  BY <1>0 DEF Counted
<1>2. /\ f \in Files /\ enabled /\ out[t] = <<>> /\ rec_ctx[f] = None
      /\ call[t].count \in Nat /\ x \notin LiveCtxs
  BY <1>0, <1>1 DEF ReplayInv, OpenInv
<1>3. x \in 0..(IdMod - 1) /\ ctx_cnt' \in Nat
  <2>1. \A n \in Nat : n % IdMod \in 0..(IdMod - 1) /\ n + 1 \in Nat
    BY FormatAssumption
  <2> QED
    BY <1>0, <1>1, <1>2, <2>1
<1>4. x # None /\ x # NullCtx
  BY <1>3, NoneAssumption DEF NullCtx
<1>5. /\ DOMAIN call = Threads /\ DOMAIN rec_ctx = Files
      /\ bos[f] = <<>> /\ contexts[f] = <<>>
  BY <1>2, TablesAre
<1>6. c.act = "CTX_CREATE" /\ c.id = x
  BY <1>0, RecFields DEF Code
<1>7. /\ DOMAIN call' = Threads /\ call'[t].op = "opening" /\ call'[t].file = f
  BY <1>1, <1>5, CallFields
<1> HIDE DEF f
<1>8. DOMAIN rec_ctx' = Files /\ rec_ctx'[f] = x /\ \A e \in Files : e # f => rec_ctx'[e] = rec_ctx[e]
  BY <1>1, <1>2, <1>5
<1>9. Recorded' = Recorded \cup {f}
  BY <1>2, <1>4, <1>8 DEF Recorded
<1>10. f \notin Recorded
  BY <1>2 DEF Recorded
<1>11. \A e \in Recorded : e \in Files /\ e # f /\ rec_ctx'[e] = rec_ctx[e] /\ rec_ctx[e] # x
  BY <1>2, <1>8, <1>10 DEF Recorded, LiveCtxs
<1>12. LiveCtxs' = LiveCtxs \cup {x}
  <2>1. LiveCtxs' = {rec_ctx'[e] : e \in Recorded'}
    BY DEF LiveCtxs
  <2> QED
    BY <1>8, <1>9, <1>11, <2>1 DEF LiveCtxs
<1>13. RecordInv(c)'
  BY <1>6 DEF RecordInv, Code, Payloads
<1>14. ListsInv'
  <2>1. \A d, e \in Recorded' : rec_ctx'[d] = rec_ctx'[e] => d = e
    <3>1. \A d, e \in Recorded : rec_ctx[d] = rec_ctx[e] => d = e
      BY DEF ReplayInv, ListsInv
    <3> QED
      BY <1>8, <1>9, <1>11, <3>1
  <2>2. \A e \in Files : /\ rec_ctx'[e] # NullCtx
                         /\ rec_ctx'[e] = None => bos[e] = <<>> /\ contexts[e] = <<>>
    BY <1>4, <1>5, <1>8 DEF ReplayInv, ListsInv
  <2>3. UNCHANGED <<ctx_list, bo_list, fb_list, job_ctx_list>>
    BY DEF repVars, lists
  <2> QED
    BY <1>1, <1>8, <2>1, <2>2, <2>3 DEF ReplayInv, ListsInv, UniqueIds
<1>15. \A e \in Files : \A i \in DOMAIN bos'[e] :
         bos'[e][i].fb_id # None =>
           /\ rec_ctx'[e] = rec_ctx[e]
           /\ \E k \in DOMAIN bos[e] : bos[e][k].id = bos'[e][i].id /\ bos[e][k].fb_id # None
  BY <1>1, <1>5, <1>8
<1>16. /\ Follows(c, LiveIds(bos), LiveIds(bos'), "BO_CREATE", "BO_DESTROY")
       /\ Follows(c, LiveCtxs, LiveCtxs', "CTX_CREATE", "CTX_DESTROY")
       /\ Follows(c, LiveIds(contexts), LiveIds(contexts'), "JOB_CTX_CREATE", "JOB_CTX_DESTROY")
  BY <1>1, <1>2, <1>6, <1>12 DEF Follows
<1>17. c.act \notin Payloads \cup {"BO_LOAD_DATA", "JOB_SUBMIT"}
  BY <1>6 DEF Payloads
<1> QED
  BY <1>1, <1>2, <1>3, <1>7, <1>13, <1>14, <1>15, <1>16, <1>17, OneStep

\* A leave hook's records and its call
LEMMA FinishIs ==
  ASSUME NEW t \in Threads, NEW s, Finish(t, s), DOMAIN call = Threads, call[t].file \in Files
  PROVE  /\ out' = [out EXCEPT ![t] = s] /\ UNCHANGED <<inited, enabled>>
         /\ DOMAIN call' = Threads /\ call'[t].op \in {"none", "return"}
         /\ call'[t].op # "none" => call'[t].file \in Files
BY Returned DEF Finish, Write

\* A hook runs on a file, between reads of the replay.
LEMMA FileOfCall ==
  ASSUME NEW t, ReplayInv(t), NEW op, Hook(t, op), op # "none"
  PROVE  call[t].op = op /\ out[t] = <<>> /\ call[t].file \in Files /\ DOMAIN call = Threads
BY DEF Hook, ReplayInv, OpenInv

\* The buffer gets the id that was free when the call began.
LEMMA ListsBo ==
  ASSUME NEW t, Threads = {t}, ReplayInv(t), UNCHANGED <<program, repVars>>, GemCreateLeave(t)
  PROVE  ReplayInv(t)'
<1> DEFINE f == call[t].file
           id == bos_cnt % IdMod
           n == Len(mem[call[t].obj])
           x == [handle |-> call[t].handle, id |-> id, data |-> None,
                 captured |-> FALSE, is_framebuffer |-> FALSE, fb_id |-> None,
                 chksum |-> [p \in DOMAIN mem[call[t].obj] |-> Zero]]
<1>0. PICK c : c = BoRec(id, rec_ctx[f], n)
  OBVIOUS
<1>1. /\ call[t].op = "create" /\ out[t] = <<>> /\ f \in Files /\ DOMAIN call = Threads
  <2>1. Hook(t, "create")
    BY Zenon DEF GemCreateLeave
  <2> QED
    BY <2>1, FileOfCall
<1>2. f \in Recorded /\ id \notin LiveIds(bos)
  BY <1>1 DEF ReplayInv, OpenInv
<1>3. rec_ctx[f] # NullCtx /\ rec_ctx[f] # None /\ enabled /\ rec_ctx[f] \in LiveCtxs
  BY <1>2, RecordedEnabled DEF Recorded, LiveCtxs
<1>4. /\ bos' = [bos EXCEPT ![f] = Append(bos[f], x)]
      /\ Finish(t, <<c>>)
      /\ UNCHANGED <<rec_ctx, contexts, ctx_cnt>>
  BY <1>0, <1>3, Zenon DEF GemCreateLeave, Listed
<1>5. x.id = id /\ x = [y \in BoFields |-> x[y]] /\ x.fb_id = None
  BY DEF BoFields
<1>6. c.act = "BO_CREATE" /\ c.id = id /\ c.ctx_id = rec_ctx[f]
  BY <1>0, RecFields DEF Code
<1> HIDE DEF x, id, n, f
<1>7. /\ out' = [out EXCEPT ![t] = <<c>>] /\ UNCHANGED <<inited, enabled>>
      /\ DOMAIN call' = Threads /\ call'[t].op \in {"none", "return"}
      /\ call'[t].op # "none" => call'[t].file \in Files
  BY <1>1, <1>4, FinishIs DEF f
<1>8. IsTable(bos') /\ UniqueIds(bos') /\ LiveIds(bos') = LiveIds(bos) \cup {id}
  <2>1. IsTable(bos) /\ UniqueIds(bos)
    BY TablesAre
  <2>2. x.id \notin LiveIds(bos)
    BY <1>2, <1>5
  <2>3. IsTable(bos') /\ UniqueIds(bos') /\ LiveIds(bos') = LiveIds(bos) \cup {x.id}
    BY <1>1, <1>4, <2>1, <2>2, AddedIds
  <2> QED
    BY <1>5, <2>3
<1>9. /\ \A e \in Files : \A k \in DOMAIN bos'[e] :
           (e = f /\ bos'[e][k] = x) \/ \E j \in DOMAIN bos[e] : bos'[e][k] = bos[e][j]
      /\ \A e \in Files : e # f => bos'[e] = bos[e]
  BY <1>1, <1>4, TablesAre, AddedEntries
<1>10. \A e \in Files : \A k \in DOMAIN bos'[e] : bos'[e][k] = [y \in BoFields |-> bos'[e][k][y]]
  <2>1. ASSUME NEW e \in Files, NEW k \in DOMAIN bos'[e]
        PROVE  bos'[e][k] = [y \in BoFields |-> bos'[e][k][y]]
    <3>1. CASE bos'[e][k] = x
      BY <1>5, <3>1
    <3>2. ASSUME NEW j \in DOMAIN bos[e], bos'[e][k] = bos[e][j]
          PROVE  bos'[e][k] = [y \in BoFields |-> bos'[e][k][y]]
      BY <3>2, TablesAre
    <3> QED
      BY <1>9, <3>1, <3>2
  <2> QED
    BY <2>1
<1>11. \A e \in Files : rec_ctx[e] = None => bos'[e] = <<>> /\ contexts'[e] = <<>>
  BY <1>3, <1>4, <1>9, TablesAre
<1>12. ListsInv'
  BY <1>4, <1>8, <1>10, <1>11, TablesAre, ListsKept
<1>13. LiveCtxs' = LiveCtxs
  BY <1>4 DEF LiveCtxs, Recorded
<1>14. RecordInv(c)'
  BY <1>3, <1>6, <1>13 DEF RecordInv, Code, Payloads
<1>15. \A e \in Files : \A i \in DOMAIN bos'[e] :
         bos'[e][i].fb_id # None =>
           /\ rec_ctx'[e] = rec_ctx[e]
           /\ \E k \in DOMAIN bos[e] : bos[e][k].id = bos'[e][i].id /\ bos[e][k].fb_id # None
  BY <1>4, <1>5, <1>9
<1>16. /\ Follows(c, LiveIds(bos), LiveIds(bos'), "BO_CREATE", "BO_DESTROY")
       /\ Follows(c, LiveCtxs, LiveCtxs', "CTX_CREATE", "CTX_DESTROY")
       /\ Follows(c, LiveIds(contexts), LiveIds(contexts'), "JOB_CTX_CREATE", "JOB_CTX_DESTROY")
  BY <1>2, <1>4, <1>6, <1>8, <1>13 DEF Follows
<1>17. c.act \notin Payloads \cup {"BO_LOAD_DATA", "JOB_SUBMIT"}
  BY <1>6 DEF Payloads
<1>18. ctx_cnt' \in Nat
  BY <1>4, TablesAre
<1> QED
  BY <1>1, <1>3, <1>7, <1>12, <1>14, <1>15, <1>16, <1>17, <1>18, OneStep

\* host1x_bo_free
LEMMA UnlistsBo ==
  ASSUME NEW t, Threads = {t}, ReplayInv(t), UNCHANGED <<program, repVars>>, GemCloseLeave(t)
  PROVE  ReplayInv(t)'
<1> DEFINE f == call[t].file
<1>1. /\ call[t].op = "close" /\ out[t] = <<>> /\ f \in Files /\ DOMAIN call = Threads
  <2>1. Hook(t, "close")
    BY Zenon DEF GemCloseLeave
  <2> QED
    BY <2>1, FileOfCall
<1>2. CASE Abort("invalid handle")
  BY <1>2, Aborts, Zenon
<1>3. ASSUME NEW i \in file_lookup_bo(f, call[t].handle),
             bos' = [bos EXCEPT ![f] = RemoveAt(bos[f], i)],
             Finish(t, <<Rec("BO_DESTROY", bos[f][i].id, rec_ctx[f])>>),
             UNCHANGED <<rec_ctx, contexts, ctx_cnt>>
      PROVE  ReplayInv(t)'
  <2>0. PICK x, c : x = bos[f][i] /\ c = Rec("BO_DESTROY", x.id, rec_ctx[f])
    OBVIOUS
  <2>1. i \in DOMAIN bos[f]
    BY <1>3 DEF file_lookup_bo, IndexOf
  <2>2. bos[f] # <<>> /\ x.id \in LiveIds(bos)
    BY <1>1, <2>0, <2>1, InLiveIds
  <2>3. rec_ctx[f] # None /\ enabled
    BY <1>1, <2>2, RecordedEnabled
  <2>4. c.act = "BO_DESTROY" /\ c.id = x.id
    BY <2>0, RecFields DEF Code
  <2> HIDE DEF f
  <2>5. /\ out' = [out EXCEPT ![t] = <<c>>] /\ UNCHANGED <<inited, enabled>>
        /\ DOMAIN call' = Threads /\ call'[t].op \in {"none", "return"}
        /\ call'[t].op # "none" => call'[t].file \in Files
    BY <1>1, <1>3, <2>0, FinishIs DEF f
  <2>6. IsTable(bos') /\ UniqueIds(bos') /\ LiveIds(bos') = LiveIds(bos) \ {x.id}
    <3>1. IsTable(bos) /\ UniqueIds(bos)
      BY TablesAre
    <3>2. f \in Files /\ bos' = WithList(bos, f, RemoveAt(bos[f], i))
      BY <1>1, <1>3 DEF WithList
    <3>3. IsTable(bos') /\ UniqueIds(bos') /\ LiveIds(bos') = LiveIds(bos) \ {bos[f][i].id}
      BY ONLY <2>1, <3>1, <3>2, RemovedIds
    <3> QED
      BY <2>0, <3>3
  <2>7. /\ \A e \in Files : \A k \in DOMAIN bos'[e] : \E j \in DOMAIN bos[e] : bos'[e][k] = bos[e][j]
        /\ \A e \in Files : e # f => bos'[e] = bos[e]
    BY <1>1, <1>3, <2>1, TablesAre, RemovedEntries
  <2>8. \A e \in Files : \A k \in DOMAIN bos'[e] : bos'[e][k] = [y \in BoFields |-> bos'[e][k][y]]
    <3>1. \A e \in Files : \A k \in DOMAIN bos[e] : bos[e][k] = [y \in BoFields |-> bos[e][k][y]]
      BY TablesAre
    <3> QED
      BY <2>7, <3>1
  <2>9. \A e \in Files : rec_ctx[e] = None => bos'[e] = <<>> /\ contexts'[e] = <<>>
    BY <1>3, <2>3, <2>7, TablesAre
  <2>10. ListsInv'
    BY <1>3, <2>6, <2>8, <2>9, TablesAre, ListsKept
  <2>11. LiveCtxs' = LiveCtxs
    BY <1>3 DEF LiveCtxs, Recorded
  <2>12. RecordInv(c)'
    BY <2>4 DEF RecordInv, Code, Payloads
  <2>13. \A e \in Files : \A k \in DOMAIN bos'[e] :
           bos'[e][k].fb_id # None =>
             /\ rec_ctx'[e] = rec_ctx[e]
             /\ \E j \in DOMAIN bos[e] : bos[e][j].id = bos'[e][k].id /\ bos[e][j].fb_id # None
    BY <1>3, <2>7
  <2>14. /\ Follows(c, LiveIds(bos), LiveIds(bos'), "BO_CREATE", "BO_DESTROY")
         /\ Follows(c, LiveCtxs, LiveCtxs', "CTX_CREATE", "CTX_DESTROY")
         /\ Follows(c, LiveIds(contexts), LiveIds(contexts'), "JOB_CTX_CREATE", "JOB_CTX_DESTROY")
    BY <1>3, <2>2, <2>4, <2>6, <2>11 DEF Follows
  <2>15. c.act \notin Payloads \cup {"BO_LOAD_DATA", "JOB_SUBMIT"}
    BY <2>4 DEF Payloads
  <2>16. ctx_cnt' \in Nat
    BY <1>3, TablesAre
  <2> QED
    BY <1>1, <2>3, <2>5, <2>10, <2>12, <2>13, <2>14, <2>15, <2>16, OneStep
<1> QED
  BY <1>2, <1>3, Zenon DEF GemCloseLeave, Unlisted

\* The hook records nothing: the shadow's ids stay.
LEMMA NoStep ==
  ASSUME NEW t, Threads = {t}, ReplayInv(t), out[t] = <<>>, enabled,
         UNCHANGED <<program, repVars, rec_ctx, contexts, inited, enabled>>,
         out' = [out EXCEPT ![t] = <<>>], LiveIds(bos') = LiveIds(bos),
         \A f \in Files : \A i \in DOMAIN bos'[f] :
           bos'[f][i].fb_id # None =>
             \E k \in DOMAIN bos[f] : bos[f][k].id = bos'[f][i].id /\ bos[f][k].fb_id # None,
         ListsInv', ctx_cnt' \in Nat, DOMAIN call' = Threads, call[t].op # "start",
         call'[t].op \in {"none", "return", "opening", "rmfb", "display"},
         call'[t].op # "none" => call'[t].file \in Files
  PROVE  ReplayInv(t)'
<1>1. OpenInv(t)'
  BY OpenStays
<1>2. StartInv(t)'
  BY StartStays
<1>3. LiveCtxs' = LiveCtxs
  BY DEF LiveCtxs, Recorded
<1>4. /\ Mirror(IdList(bo_list), <<>>, LiveIds(bos'), "BO_CREATE", "BO_DESTROY")
      /\ Mirror(ctx_list, <<>>, LiveCtxs', "CTX_CREATE", "CTX_DESTROY")
      /\ Mirror(job_ctx_list, <<>>, LiveIds(contexts'), "JOB_CTX_CREATE", "JOB_CTX_DESTROY")
  BY <1>3, AllRead
<1> QED
  BY <1>1, <1>2, <1>4, NoRecord, ProgramStep

\* A list without an entry is the empty one.
LEMMA EmptyList ==
  ASSUME NEW s, s \in Seq(Range(s)), DOMAIN s = {}
  PROVE  s = <<>>
<1>1. Len(s) \in Nat /\ DOMAIN s = 1..Len(s)
  BY ListIs
<1>2. Len(s) = 0
  BY <1>1
<1> QED
  BY <1>2

\* One entry of the shadow is edited; its id stays.
LEMMA Edits ==
  ASSUME NEW t, ReplayInv(t), UNCHANGED <<repVars, rec_ctx, contexts>>,
         NEW f \in Files, NEW i \in DOMAIN bos[f], NEW b, b.id = bos[f][i].id,
         b = [x \in BoFields |-> b[x]], bos' = WithEntry(bos, f, i, b)
  PROVE  /\ ListsInv' /\ LiveIds(bos') = LiveIds(bos) /\ LiveCtxs' = LiveCtxs
         /\ LiveIds(contexts') = LiveIds(contexts) /\ UniqueIds(bos')
         /\ bos'[f][i] = b /\ \A e \in Files : DOMAIN bos'[e] = DOMAIN bos[e]
         /\ \A e \in Files : \A k \in DOMAIN bos'[e] :
              (e = f /\ k = i) \/ (k \in DOMAIN bos[e] /\ bos'[e][k] = bos[e][k])
<1>1. IsTable(bos) /\ UniqueIds(bos)
  BY TablesAre
<1>2. /\ IsTable(bos') /\ UniqueIds(bos') /\ LiveIds(bos') = LiveIds(bos)
      /\ bos'[f][i] = b
      /\ \A e \in Files : DOMAIN bos'[e] = DOMAIN bos[e]
      /\ \A e \in Files : \A k \in DOMAIN bos[e] : e # f \/ k # i => bos'[e][k] = bos[e][k]
  BY ONLY <1>1, f \in Files, i \in DOMAIN bos[f], b.id = bos[f][i].id,
          bos' = WithEntry(bos, f, i, b), EditedEntries
<1>3. \A e \in Files : \A k \in DOMAIN bos'[e] :
        (e = f /\ k = i) \/ (k \in DOMAIN bos[e] /\ bos'[e][k] = bos[e][k])
  BY <1>2
<1>4. \A e \in Files : \A k \in DOMAIN bos'[e] : bos'[e][k] = [x \in BoFields |-> bos'[e][k][x]]
  <2>1. \A e \in Files : \A k \in DOMAIN bos[e] : bos[e][k] = [x \in BoFields |-> bos[e][k][x]]
    BY TablesAre
  <2>2. ASSUME NEW e \in Files, NEW k \in DOMAIN bos'[e]
        PROVE  bos'[e][k] = [x \in BoFields |-> bos'[e][k][x]]
    <3>1. CASE e = f /\ k = i
      BY <1>2, <3>1
    <3>2. CASE k \in DOMAIN bos[e] /\ bos'[e][k] = bos[e][k]
      BY <2>1, <3>2
    <3> QED
      BY <1>3, <3>1, <3>2
  <2> QED
    BY <2>2
<1>5. \A e \in Files : rec_ctx[e] = None => bos'[e] = <<>> /\ contexts'[e] = <<>>
  <2>1. \A e \in Files : rec_ctx[e] = None => bos[e] = <<>> /\ contexts[e] = <<>>
    BY TablesAre
  <2>2. ASSUME NEW e \in Files, rec_ctx[e] = None
        PROVE  bos'[e] = <<>>
    <3>1. bos[e] = <<>> /\ DOMAIN bos'[e] = {} /\ bos'[e] \in Seq(Range(bos'[e]))
      BY <1>2, <2>1, <2>2 DEF IsTable
    <3> QED
      BY <3>1, EmptyList
  <2> QED
    BY <2>1, <2>2
<1>6. ListsInv'
  BY <1>2, <1>4, <1>5, TablesAre, ListsKept
<1>7. LiveCtxs' = LiveCtxs /\ LiveIds(contexts') = LiveIds(contexts)
  BY DEF LiveCtxs, Recorded
<1> QED
  BY <1>2, <1>3, <1>6, <1>7

\* Assigning the mapped object keeps the identity and the framebuffer.
LEMMA SetsBoData ==
  ASSUME NEW a, a = [x \in BoFields |-> a[x]], NEW o
  PROVE  LET b == SetBoData(a, o) IN
         /\ b.id = a.id /\ b.fb_id = a.fb_id /\ b = [x \in BoFields |-> b[x]]
<1>1. CASE a.data # None
  BY <1>1 DEF SetBoData
<1>2. CASE a.data = None
  <2>1. SetBoData(a, o) = [x \in BoFields |-> IF x = "data" THEN o ELSE a[x]]
    BY <1>2 DEF SetBoData
  <2> QED
    BY <2>1 DEF BoFields
<1> QED
  BY <1>1, <1>2

\* record_set_bo_data
LEMMA MapsBo ==
  ASSUME NEW t, Threads = {t}, ReplayInv(t), UNCHANGED <<program, repVars>>, GemMmapLeave(t)
  PROVE  ReplayInv(t)'
<1> DEFINE f == call[t].file
<1>1. /\ call[t].op = "mmap" /\ out[t] = <<>> /\ f \in Files /\ DOMAIN call = Threads
  <2>1. Hook(t, "mmap")
    BY Zenon DEF GemMmapLeave
  <2> QED
    BY <2>1, FileOfCall
<1>2. CASE Abort("invalid handle") \/ Abort("mmap failed")
  BY <1>2, Aborts, Zenon
<1>3. ASSUME NEW i \in file_lookup_bo(f, call[t].handle),
             bos' = [bos EXCEPT ![f][i] = SetBoData(bos[f][i], call[t].obj)],
             Finish(t, <<>>), UNCHANGED <<rec_ctx, contexts, ctx_cnt>>
      PROVE  ReplayInv(t)'
  <2>0. PICK b : b = SetBoData(bos[f][i], call[t].obj)
    OBVIOUS
  <2>1. i \in DOMAIN bos[f]
    BY <1>3 DEF file_lookup_bo, IndexOf
  <2>2. enabled /\ bos[f][i] = [x \in BoFields |-> bos[f][i][x]]
    BY <1>1, <2>1, RecordedEnabled, TablesAre
  <2>3. b.id = bos[f][i].id /\ b.fb_id = bos[f][i].fb_id /\ b = [x \in BoFields |-> b[x]]
    BY <2>0, <2>2, SetsBoData
  <2> HIDE DEF f
  <2>4. /\ out' = [out EXCEPT ![t] = <<>>] /\ UNCHANGED <<inited, enabled>>
        /\ DOMAIN call' = Threads /\ call'[t].op \in {"none", "return"}
        /\ call'[t].op # "none" => call'[t].file \in Files
    BY <1>1, <1>3, FinishIs DEF f
  <2>5. bos' = WithEntry(bos, f, i, b)
    BY <1>3, <2>0 DEF WithEntry
  <2>6. UNCHANGED <<repVars, rec_ctx, contexts>>
    BY <1>3
  <2>7. /\ ListsInv' /\ LiveIds(bos') = LiveIds(bos)
        /\ bos'[f][i] = b
        /\ \A e \in Files : \A k \in DOMAIN bos'[e] :
             (e = f /\ k = i) \/ (k \in DOMAIN bos[e] /\ bos'[e][k] = bos[e][k])
    BY ONLY ReplayInv(t), <1>1, <2>1, <2>3, <2>5, <2>6, Edits
  <2>8. \A e \in Files : \A k \in DOMAIN bos'[e] :
          bos'[e][k].fb_id # None =>
            \E j \in DOMAIN bos[e] : bos[e][j].id = bos'[e][k].id /\ bos[e][j].fb_id # None
    BY <2>1, <2>3, <2>7
  <2>9. ctx_cnt' \in Nat
    BY <1>3, TablesAre
  <2> QED
    BY <1>1, <1>3, <2>2, <2>4, <2>7, <2>8, <2>9, NoStep
<1> QED
  BY <1>2, <1>3, Zenon DEF GemMmapLeave

\* The shadow stays, and the hook's only record is of an object the program keeps.
LEMMA Mentions ==
  ASSUME NEW t, Threads = {t}, ReplayInv(t), out[t] = <<>>, enabled,
         UNCHANGED <<program, repVars, shadow, inited, enabled, ctx_cnt>>,
         NEW c, out' = [out EXCEPT ![t] = <<c>>],
         c.act \in {"BO_SET_FLAGS", "DISP_FRAMEBUFFER"}, RecordInv(c)',
         DOMAIN call' = Threads, call[t].op # "start",
         call'[t].op \in {"none", "return", "opening", "rmfb", "display"},
         call'[t].op # "none" => call'[t].file \in Files
  PROVE  ReplayInv(t)'
<1>1. UNCHANGED <<rec_ctx, bos, contexts>> /\ UNCHANGED <<repVars, rec_ctx>>
  BY DEF shadow
<1>2. LiveCtxs' = LiveCtxs
  BY <1>1 DEF LiveCtxs, Recorded
<1>3. ListsInv' /\ ctx_cnt' \in Nat
  BY <1>1, TablesAre, ListsKept
<1>4. /\ Follows(c, LiveIds(bos), LiveIds(bos'), "BO_CREATE", "BO_DESTROY")
      /\ Follows(c, LiveCtxs, LiveCtxs', "CTX_CREATE", "CTX_DESTROY")
      /\ Follows(c, LiveIds(contexts), LiveIds(contexts'), "JOB_CTX_CREATE", "JOB_CTX_DESTROY")
  BY <1>1, <1>2 DEF Follows
<1>5. c.act \notin Payloads \cup {"BO_LOAD_DATA", "JOB_SUBMIT"}
  BY DEF Payloads
<1>6. \A e \in Files : \A k \in DOMAIN bos'[e] :
        bos'[e][k].fb_id # None =>
          /\ rec_ctx'[e] = rec_ctx[e]
          /\ \E j \in DOMAIN bos[e] : bos[e][j].id = bos'[e][k].id /\ bos[e][j].fb_id # None
  BY <1>1
<1> QED
  BY <1>3, <1>4, <1>5, <1>6, OneStep

\* A hook of a call that is yet to be made runs when the thread is idle.
LEMMA IdleIs ==
  ASSUME NEW t, ReplayInv(t), Idle(t)
  PROVE  out[t] = <<>> /\ call[t].op = "none" /\ DOMAIN call = Threads
BY DEF Idle, NoCall, Call, ReplayInv, OpenInv

\* record_set_bo_flags
LEMMA SetsFlags ==
  ASSUME NEW t, Threads = {t}, ReplayInv(t), UNCHANGED <<program, repVars>>,
         NEW f \in Files, NEW h, SetFlags(t, f, h)
  PROVE  ReplayInv(t)'
<1>1. out[t] = <<>> /\ call[t].op = "none" /\ DOMAIN call = Threads
  <2>1. Idle(t)
    BY Zenon DEF SetFlags
  <2> QED
    BY <2>1, IdleIs
<1>2. CASE Abort("invalid handle")
  BY <1>2, Aborts, Zenon
<1>3. ASSUME NEW i \in file_lookup_bo(f, h),
             Write(t, <<Rec("BO_SET_FLAGS", bos[f][i].id, rec_ctx[f])>>), Return(t, f, {h}, <<h>>),
             UNCHANGED <<shadow, ctx_cnt>>
      PROVE  ReplayInv(t)'
  <2>0. PICK x, c : x = bos[f][i].id /\ c = Rec("BO_SET_FLAGS", x, rec_ctx[f])
    OBVIOUS
  <2>1. i \in DOMAIN bos[f]
    BY <1>3 DEF file_lookup_bo, IndexOf
  <2>2. enabled /\ x \in LiveIds(bos)
    BY <2>0, <2>1, RecordedEnabled, InLiveIds
  <2>3. c.act = "BO_SET_FLAGS" /\ c.id = x
    BY <2>0, RecFields DEF Code
  <2>4. out' = [out EXCEPT ![t] = <<c>>] /\ UNCHANGED <<inited, enabled>>
    BY <1>3, <2>0 DEF Write
  <2>5. /\ DOMAIN call' = Threads /\ call'[t].op \in {"none", "return"}
        /\ call'[t].op # "none" => call'[t].file \in Files
    BY <1>1, <1>3, Returned
  <2>6. RecordInv(c)'
    <3>1. bos' = bos
      BY <1>3 DEF shadow
    <3> QED
      BY <2>2, <2>3, <3>1 DEF RecordInv, Code, Payloads
  <2> QED
    BY <1>1, <1>3, <2>2, <2>3, <2>4, <2>5, <2>6, Mentions
<1> QED
  BY <1>2, <1>3, Zenon DEF SetFlags

\* The shadow stays, and the hook records nothing.
LEMMA Unrecorded ==
  ASSUME NEW t, Threads = {t}, ReplayInv(t), out[t] = <<>>, call[t].op # "start",
         UNCHANGED <<program, repVars, shadow, inited, enabled, ctx_cnt>>, Write(t, <<>>),
         DOMAIN call' = Threads, call'[t].op \in {"rmfb", "display"}, call'[t].file \in Files
  PROVE  ReplayInv(t)'
<1>1. out' = [out EXCEPT ![t] = <<>>] /\ out'[t] = out[t]
  BY DEF ReplayInv, RecordsInv, Write
<1>2. UNCHANGED <<rec_ctx, bos, contexts>> /\ UNCHANGED <<repVars, rec_ctx>>
  BY DEF shadow
<1>3. ListsInv' /\ ctx_cnt' \in Nat
  BY <1>2, TablesAre, ListsKept
<1>4. OpenInv(t)'
  BY <1>3, OpenStays
<1>5. StartInv(t)'
  BY <1>1, <1>2, StartStays
<1>6. LiveCtxs' = LiveCtxs
  BY <1>2 DEF LiveCtxs, Recorded
<1>7. /\ Mirror(IdList(bo_list), <<>>, LiveIds(bos'), "BO_CREATE", "BO_DESTROY")
      /\ Mirror(ctx_list, <<>>, LiveCtxs', "CTX_CREATE", "CTX_DESTROY")
      /\ Mirror(job_ctx_list, <<>>, LiveIds(contexts'), "JOB_CTX_CREATE", "JOB_CTX_DESTROY")
  BY <1>2, <1>6, AllRead
<1>8. \A e \in Files : \A k \in DOMAIN bos'[e] :
        bos'[e][k].fb_id # None =>
          /\ rec_ctx'[e] = rec_ctx[e]
          /\ \E j \in DOMAIN bos[e] : bos[e][j].id = bos'[e][k].id /\ bos[e][j].fb_id # None
  BY <1>2
<1> QED
  BY <1>1, <1>3, <1>4, <1>5, <1>7, <1>8, NoRecord, ProgramStep

\* record_display_framebuffer
LEMMA Displayed ==
  ASSUME NEW t, Threads = {t}, ReplayInv(t), UNCHANGED <<program, repVars>>,
         NEW f \in Files, NEW b \in FbIds, Display(t, f, b)
  PROVE  ReplayInv(t)'
<1>1. out[t] = <<>> /\ call[t].op = "none" /\ DOMAIN call = Threads
  <2>1. Idle(t)
    BY Zenon DEF Display
  <2> QED
    BY <2>1, IdleIs
<1>2. call' = [call EXCEPT ![t] = Call("display", f, None, b, {})] /\ UNCHANGED <<shadow, ctx_cnt>>
  BY Zenon DEF Display
<1>3. DOMAIN call' = Threads /\ call'[t].op = "display" /\ call'[t].file \in Files
  BY <1>1, <1>2 DEF Call
<1>4. ASSUME Write(t, <<>>)
      PROVE  ReplayInv(t)'
  <2>1. UNCHANGED <<inited, enabled>>
    BY <1>4 DEF Write
  <2> QED
    BY <1>1, <1>2, <1>3, <1>4, <2>1, Unrecorded
<1>5. ASSUME NEW i \in file_lookup_fb(f, b),
             Write(t, <<FbRec("DISP_FRAMEBUFFER", bos[f][i], rec_ctx[f], b)>>)
      PROVE  ReplayInv(t)'
  <2>0. PICK x, c : x = bos[f][i] /\ c = FbRec("DISP_FRAMEBUFFER", x, rec_ctx[f], b)
    OBVIOUS
  <2>1. i \in DOMAIN bos[f] /\ bos[f][i].fb_id = b
    BY <1>5 DEF file_lookup_fb, IndexOf
  <2>2. enabled /\ b # None
    BY <2>1, RecordedEnabled, NoneAssumption
  <2>3. c.act = "DISP_FRAMEBUFFER" /\ c.bo_id = x.id /\ c.ctx_id = rec_ctx[f]
    BY <2>0 DEF FbRec, Code
  <2>4. out' = [out EXCEPT ![t] = <<c>>] /\ UNCHANGED <<inited, enabled>>
    BY <1>5, <2>0 DEF Write
  <2>5. FbMade(fb_list, c.bo_id, c.ctx_id)
    <3>1. FbMade(fb_list, bos[f][i].id, rec_ctx[f])
      BY <1>1, <2>1, <2>2, AllRead
    <3> QED
      BY <2>0, <2>3, <3>1
  <2>6. RecordInv(c)'
    <3>1. fb_list' = fb_list
      BY DEF repVars, lists
    <3> QED
      BY <2>3, <2>5, <3>1 DEF RecordInv, Code, Payloads
  <2> QED
    BY <1>1, <1>2, <1>3, <2>2, <2>3, <2>4, <2>6, Mentions
<1> QED
  BY <1>4, <1>5, Zenon DEF Display

\* record_add_framebuffer
LEMMA AddsFb ==
  ASSUME NEW t, Threads = {t}, ReplayInv(t), UNCHANGED <<program, repVars>>, AddFbLeave(t)
  PROVE  ReplayInv(t)'
<1> DEFINE f == call[t].file
           b == call[t].obj
<1>1. /\ call[t].op = "addfb" /\ out[t] = <<>> /\ f \in Files /\ DOMAIN call = Threads
  <2>1. Hook(t, "addfb")
    BY Zenon DEF AddFbLeave
  <2> QED
    BY <2>1, FileOfCall
<1>2. CASE Abort("invalid handle")
  BY <1>2, Aborts, Zenon
<1>3. ASSUME NEW i \in file_lookup_bo(f, call[t].handle),
             bos' = [bos EXCEPT ![f][i].fb_id = b, ![f][i].is_framebuffer = TRUE],
             Finish(t, <<FbRec("ADD_FRAMEBUFFER", bos[f][i], rec_ctx[f], b)>>),
             UNCHANGED <<rec_ctx, contexts, ctx_cnt>>
      PROVE  ReplayInv(t)'
  <2>0. PICK a, c : a = bos[f][i] /\ c = FbRec("ADD_FRAMEBUFFER", a, rec_ctx[f], b)
    OBVIOUS
  <2>1. i \in DOMAIN bos[f]
    BY <1>3 DEF file_lookup_bo, IndexOf
  <2>2. a = [x \in BoFields |-> a[x]]
    BY <1>1, <2>0, <2>1, TablesAre
  <2>3. PICK r : r = [[a EXCEPT !.fb_id = b] EXCEPT !.is_framebuffer = TRUE]
    OBVIOUS
  <2>4. r.id = a.id /\ r.fb_id = b /\ r = [x \in BoFields |-> r[x]]
    BY <2>2, <2>3 DEF BoFields
  <2>5. bos' = WithEntry(bos, f, i, r)
    BY <1>1, <1>3, <2>0, <2>1, <2>3 DEF WithEntry
  <2>6. enabled /\ a.id \in LiveIds(bos)
    BY <1>1, <2>0, <2>1, RecordedEnabled, InLiveIds
  <2>7. c.act = "ADD_FRAMEBUFFER" /\ c.bo_id = a.id /\ c.ctx_id = rec_ctx[f]
    BY <2>0, RecFields DEF Code
  <2> HIDE DEF f, b
  <2>8. /\ out' = [out EXCEPT ![t] = <<c>>] /\ UNCHANGED <<inited, enabled>>
        /\ DOMAIN call' = Threads /\ call'[t].op \in {"none", "return"}
        /\ call'[t].op # "none" => call'[t].file \in Files
    BY <1>1, <1>3, <2>0, FinishIs DEF f, b
  <2>9. UNCHANGED <<repVars, rec_ctx, contexts>> /\ r.id = bos[f][i].id
    BY <1>3, <2>0, <2>4
  <2>10. /\ ListsInv' /\ LiveIds(bos') = LiveIds(bos) /\ LiveCtxs' = LiveCtxs
        /\ LiveIds(contexts') = LiveIds(contexts) /\ bos'[f][i] = r
        /\ \A e \in Files : \A k \in DOMAIN bos'[e] :
             (e = f /\ k = i) \/ (k \in DOMAIN bos[e] /\ bos'[e][k] = bos[e][k])
    BY ONLY ReplayInv(t), <1>1, <2>1, <2>4, <2>9, <2>5, Edits
  <2>11. RecordInv(c)'
    BY <2>6, <2>7, <2>10 DEF RecordInv, Code, Payloads
  <2>12. \A e \in Files : \A k \in DOMAIN bos'[e] :
           bos'[e][k].fb_id # None =>
             \/ /\ rec_ctx'[e] = rec_ctx[e]
                /\ \E j \in DOMAIN bos[e] : bos[e][j].id = bos'[e][k].id /\ bos[e][j].fb_id # None
             \/ c.act = "ADD_FRAMEBUFFER" /\ c.bo_id = bos'[e][k].id /\ c.ctx_id = rec_ctx'[e]
    <3>1. ASSUME NEW e \in Files, NEW k \in DOMAIN bos'[e], bos'[e][k].fb_id # None
          PROVE  \/ /\ rec_ctx'[e] = rec_ctx[e]
                    /\ \E j \in DOMAIN bos[e] : bos[e][j].id = bos'[e][k].id /\ bos[e][j].fb_id # None
                 \/ c.act = "ADD_FRAMEBUFFER" /\ c.bo_id = bos'[e][k].id /\ c.ctx_id = rec_ctx'[e]
      <4>1. CASE e = f /\ k = i
        <5>1. bos'[e][k] = r /\ rec_ctx' = rec_ctx
          BY <1>3, <2>10, <4>1
        <5> QED
          BY ONLY <2>4, <2>7, <4>1, <5>1
      <4>2. CASE k \in DOMAIN bos[e] /\ bos'[e][k] = bos[e][k]
        BY <1>3, <3>1, <4>2
      <4> QED
        BY <2>10, <4>1, <4>2
    <3> QED
      BY <3>1
  <2>13. /\ Follows(c, LiveIds(bos), LiveIds(bos'), "BO_CREATE", "BO_DESTROY")
         /\ Follows(c, LiveCtxs, LiveCtxs', "CTX_CREATE", "CTX_DESTROY")
         /\ Follows(c, LiveIds(contexts), LiveIds(contexts'), "JOB_CTX_CREATE", "JOB_CTX_DESTROY")
    BY <2>7, <2>10 DEF Follows
  <2>14. c.act \notin Payloads \cup {"BO_LOAD_DATA", "JOB_SUBMIT"}
    BY <2>7 DEF Payloads
  <2>15. ctx_cnt' \in Nat
    BY <1>3, TablesAre
  <2> QED
    BY <1>1, <2>6, <2>8, <2>10, <2>11, <2>12, <2>13, <2>14, <2>15, OneStep
<1>4. CASE /\ file_lookup_bo(f, call[t].handle) # {} /\ Finish(t, <<>>)
           /\ UNCHANGED <<kernel, shadow, ctx_cnt, bos_cnt, job_ctx_cnt>>
  <2>1. enabled
    <3>1. PICK i : i \in file_lookup_bo(f, call[t].handle)
      BY <1>4
    <3>2. i \in DOMAIN bos[f]
      BY <3>1 DEF file_lookup_bo, IndexOf
    <3> QED
      BY <1>1, <3>2, RecordedEnabled
  <2>2. /\ out' = [out EXCEPT ![t] = <<>>] /\ UNCHANGED <<inited, enabled>>
        /\ DOMAIN call' = Threads /\ call'[t].op \in {"none", "return"}
        /\ call'[t].op # "none" => call'[t].file \in Files
    BY <1>1, <1>4, FinishIs
  <2>3. UNCHANGED <<rec_ctx, bos, contexts, ctx_cnt>> /\ ctx_cnt' \in Nat
    BY <1>4, TablesAre DEF shadow
  <2>4. ListsInv' /\ LiveIds(bos') = LiveIds(bos)
    BY <2>3 DEF ReplayInv, ListsInv, UniqueIds, Recorded, repVars, lists
  <2> QED
    BY <1>1, <2>1, <2>2, <2>3, <2>4, NoStep
<1> QED
  BY <1>2, <1>3, <1>4, Zenon DEF AddFbLeave

\* record_del_framebuffer
LEMMA RemovesFb ==
  ASSUME NEW t, Threads = {t}, ReplayInv(t), UNCHANGED <<program, repVars>>,
         NEW f \in Files, NEW b \in FbIds, RmFb(t, f, b)
  PROVE  ReplayInv(t)'
<1>1. out[t] = <<>> /\ call[t].op = "none" /\ DOMAIN call = Threads
  <2>1. Idle(t)
    BY Zenon DEF RmFb
  <2> QED
    BY <2>1, IdleIs
<1>2. call' = [call EXCEPT ![t] = Call("rmfb", f, None, b, {})] /\ UNCHANGED <<rec_ctx, contexts, ctx_cnt>>
  BY Zenon DEF RmFb
<1>3. DOMAIN call' = Threads /\ call'[t].op = "rmfb" /\ call'[t].file \in Files
  BY <1>1, <1>2 DEF Call
<1>4. ASSUME Write(t, <<>>), UNCHANGED bos
      PROVE  ReplayInv(t)'
  <2>1. UNCHANGED <<inited, enabled>>
    BY <1>4 DEF Write
  <2>2. UNCHANGED <<shadow, ctx_cnt>>
    BY <1>2, <1>4 DEF shadow
  <2> QED
    BY <1>1, <1>3, <1>4, <2>1, <2>2, Unrecorded
<1>5. ASSUME NEW i \in file_lookup_fb(f, b), bos' = [bos EXCEPT ![f][i] = NoFramebuffer(bos[f][i])],
             Write(t, <<FbRec("DEL_FRAMEBUFFER", bos[f][i], rec_ctx[f], b)>>)
      PROVE  ReplayInv(t)'
  <2>0. PICK a, c : a = bos[f][i] /\ c = FbRec("DEL_FRAMEBUFFER", a, rec_ctx[f], b)
    OBVIOUS
  <2>1. i \in DOMAIN bos[f] /\ bos[f][i].fb_id = b
    BY <1>5 DEF file_lookup_fb, IndexOf
  <2>2. enabled /\ b # None /\ a = [x \in BoFields |-> a[x]]
    BY <2>0, <2>1, RecordedEnabled, NoneAssumption, TablesAre
  <2>3. c.act = "DEL_FRAMEBUFFER" /\ c.bo_id = a.id /\ c.ctx_id = rec_ctx[f]
    BY <2>0 DEF FbRec, Code
  <2>4. out' = [out EXCEPT ![t] = <<c>>] /\ UNCHANGED <<inited, enabled>>
    BY <1>5, <2>0 DEF Write
  <2>5. FbMade(fb_list, c.bo_id, c.ctx_id)
    <3>1. FbMade(fb_list, bos[f][i].id, rec_ctx[f])
      BY <1>1, <2>1, <2>2, AllRead
    <3> QED
      BY <2>0, <2>3, <3>1
  <2>6. PICK r : r = [[a EXCEPT !.fb_id = None] EXCEPT !.is_framebuffer = FALSE]
    OBVIOUS
  <2>7. r.id = a.id /\ r.fb_id = None /\ r = [x \in BoFields |-> r[x]]
    BY <2>2, <2>6 DEF BoFields
  <2>8. bos' = WithEntry(bos, f, i, r)
    BY <1>5, <2>0, <2>1, <2>6 DEF WithEntry, NoFramebuffer
  <2>9. UNCHANGED <<repVars, rec_ctx, contexts>> /\ r.id = bos[f][i].id
    BY <1>2, <2>0, <2>7
  <2>10. /\ ListsInv' /\ LiveIds(bos') = LiveIds(bos) /\ LiveCtxs' = LiveCtxs
         /\ LiveIds(contexts') = LiveIds(contexts) /\ UniqueIds(bos') /\ bos'[f][i] = r
         /\ \A e \in Files : DOMAIN bos'[e] = DOMAIN bos[e]
         /\ \A e \in Files : \A k \in DOMAIN bos'[e] :
              (e = f /\ k = i) \/ (k \in DOMAIN bos[e] /\ bos'[e][k] = bos[e][k])
    BY ONLY ReplayInv(t), f \in Files, <2>1, <2>7, <2>8, <2>9, Edits
  <2>11. ASSUME NEW e \in Files, NEW k \in DOMAIN bos'[e], bos'[e][k].id = a.id
         PROVE  bos'[e][k].fb_id = None
    <3>1. i \in DOMAIN bos'[f] /\ bos'[f][i].id = a.id
      BY <2>1, <2>7, <2>10
    <3>2. e = f /\ k = i
      BY <2>10, <2>11, <3>1 DEF UniqueIds
    <3> QED
      BY <2>7, <2>10, <3>2
  <2>12. RecordInv(c)'
    <3>1. fb_list' = fb_list
      BY DEF repVars, lists
    <3>2. FbMade(fb_list', c.bo_id, c.ctx_id)
      BY <2>5, <3>1
    <3>3. ~FbLive(c.bo_id)'
      BY <2>3, <2>11 DEF FbLive
    <3> QED
      BY <2>3, <3>2, <3>3 DEF RecordInv, Code, Payloads
  <2>13. \A e \in Files : \A k \in DOMAIN bos'[e] :
           bos'[e][k].fb_id # None =>
             /\ rec_ctx'[e] = rec_ctx[e]
             /\ \E j \in DOMAIN bos[e] : bos[e][j].id = bos'[e][k].id /\ bos[e][j].fb_id # None
    <3>1. rec_ctx' = rec_ctx
      BY <1>2
    <3> QED
      BY ONLY <2>7, <2>10, <3>1
  <2>14. /\ Follows(c, LiveIds(bos), LiveIds(bos'), "BO_CREATE", "BO_DESTROY")
         /\ Follows(c, LiveCtxs, LiveCtxs', "CTX_CREATE", "CTX_DESTROY")
         /\ Follows(c, LiveIds(contexts), LiveIds(contexts'), "JOB_CTX_CREATE", "JOB_CTX_DESTROY")
    BY <2>3, <2>10 DEF Follows
  <2>15. c.act \notin Payloads \cup {"BO_LOAD_DATA", "JOB_SUBMIT"}
    BY <2>3 DEF Payloads
  <2>16. ctx_cnt' \in Nat
    BY <1>2, TablesAre
  <2> QED
    BY <1>1, <1>3, <2>2, <2>4, <2>10, <2>12, <2>13, <2>14, <2>15, <2>16, OneStep
<1> QED
  BY <1>4, <1>5, Zenon DEF RmFb

\* host1x_file_context_new
LEMMA ListsContext ==
  ASSUME NEW t, Threads = {t}, ReplayInv(t), UNCHANGED <<program, repVars>>, OpenChannelLeave(t)
  PROVE  ReplayInv(t)'
<1> DEFINE f == call[t].file
           id == job_ctx_cnt % IdMod
           x == [chan |-> call[t].handle, id |-> id]
<1>0. PICK c : c = Rec("JOB_CTX_CREATE", id, None)
  OBVIOUS
<1>1. /\ call[t].op = "open_channel" /\ out[t] = <<>> /\ f \in Files /\ DOMAIN call = Threads
  <2>1. Hook(t, "open_channel")
    BY Zenon DEF OpenChannelLeave
  <2> QED
    BY <2>1, FileOfCall
<1>2. f \in Recorded /\ id \notin LiveIds(contexts)
  BY <1>1 DEF ReplayInv, OpenInv
<1>3. rec_ctx[f] # None /\ enabled
  BY <1>2, RecordedEnabled DEF Recorded
<1>4. /\ contexts' = [contexts EXCEPT ![f] = Append(contexts[f], x)]
      /\ Finish(t, <<c>>)
      /\ UNCHANGED <<rec_ctx, bos, ctx_cnt>>
  BY <1>0, Zenon DEF OpenChannelLeave
<1>5. x.id = id
  OBVIOUS
<1>6. c.act = "JOB_CTX_CREATE" /\ c.id = id
  BY <1>0 DEF Rec, Code
<1> HIDE DEF x, id, f
<1>7. /\ out' = [out EXCEPT ![t] = <<c>>] /\ UNCHANGED <<inited, enabled>>
      /\ DOMAIN call' = Threads /\ call'[t].op \in {"none", "return"}
      /\ call'[t].op # "none" => call'[t].file \in Files
  BY <1>1, <1>4, FinishIs DEF f
<1>8. IsTable(contexts') /\ UniqueIds(contexts') /\ LiveIds(contexts') = LiveIds(contexts) \cup {id}
  <2>1. IsTable(contexts) /\ UniqueIds(contexts)
    BY TablesAre
  <2>2. x.id \notin LiveIds(contexts)
    BY <1>2, <1>5
  <2>3. IsTable(contexts') /\ UniqueIds(contexts') /\ LiveIds(contexts') = LiveIds(contexts) \cup {x.id}
    BY <1>1, <1>4, <2>1, <2>2, AddedIds
  <2> QED
    BY <1>5, <2>3
<1>9. \A e \in Files : e # f => contexts'[e] = contexts[e]
  BY <1>1, <1>4, TablesAre, AddedEntries
<1>10. \A e \in Files : rec_ctx[e] = None => bos'[e] = <<>> /\ contexts'[e] = <<>>
  BY <1>3, <1>4, <1>9, TablesAre
<1>11. ListsInv'
  <2>1. /\ IsTable(bos') /\ UniqueIds(bos')
        /\ \A e \in Files : \A k \in DOMAIN bos'[e] : bos'[e][k] = [y \in BoFields |-> bos'[e][k][y]]
    BY <1>4, TablesAre
  <2>2. UNCHANGED <<repVars, rec_ctx>>
    BY <1>4
  <2> QED
    BY ONLY ReplayInv(t), <1>8, <1>10, <2>1, <2>2, ListsKept
<1>12. LiveCtxs' = LiveCtxs
  BY <1>4 DEF LiveCtxs, Recorded
<1>13. RecordInv(c)'
  BY <1>6 DEF RecordInv, Code, Payloads
<1>14. \A e \in Files : \A k \in DOMAIN bos'[e] :
         bos'[e][k].fb_id # None =>
           /\ rec_ctx'[e] = rec_ctx[e]
           /\ \E j \in DOMAIN bos[e] : bos[e][j].id = bos'[e][k].id /\ bos[e][j].fb_id # None
  BY <1>4
<1>15. /\ Follows(c, LiveIds(bos), LiveIds(bos'), "BO_CREATE", "BO_DESTROY")
       /\ Follows(c, LiveCtxs, LiveCtxs', "CTX_CREATE", "CTX_DESTROY")
       /\ Follows(c, LiveIds(contexts), LiveIds(contexts'), "JOB_CTX_CREATE", "JOB_CTX_DESTROY")
  BY <1>2, <1>4, <1>6, <1>8, <1>12 DEF Follows
<1>16. c.act \notin Payloads \cup {"BO_LOAD_DATA", "JOB_SUBMIT"}
  BY <1>6 DEF Payloads
<1>17. ctx_cnt' \in Nat
  BY <1>4, TablesAre
<1> QED
  BY <1>1, <1>3, <1>7, <1>11, <1>13, <1>14, <1>15, <1>16, <1>17, OneStep

\* host1x_file_context_free
LEMMA UnlistsContext ==
  ASSUME NEW t, Threads = {t}, ReplayInv(t), UNCHANGED <<program, repVars>>, CloseChannelLeave(t)
  PROVE  ReplayInv(t)'
<1> DEFINE f == call[t].file
<1>1. /\ call[t].op = "close_channel" /\ out[t] = <<>> /\ f \in Files /\ DOMAIN call = Threads
  <2>1. Hook(t, "close_channel")
    BY Zenon DEF CloseChannelLeave
  <2> QED
    BY <2>1, FileOfCall
<1>2. PICK i \in file_lookup_context(f, call[t].handle) :
        /\ contexts' = [contexts EXCEPT ![f] = RemoveAt(contexts[f], i)]
        /\ Finish(t, <<Rec("JOB_CTX_DESTROY", contexts[f][i].id, None)>>)
        /\ UNCHANGED <<rec_ctx, bos, ctx_cnt>>
  BY Zenon DEF CloseChannelLeave
<1>3. PICK x, c : x = contexts[f][i] /\ c = Rec("JOB_CTX_DESTROY", x.id, None)
  OBVIOUS
<1>4. i \in DOMAIN contexts[f]
  BY <1>2 DEF file_lookup_context, IndexOf
<1>5. contexts[f] # <<>> /\ x.id \in LiveIds(contexts)
  BY <1>1, <1>3, <1>4, InLiveIds
<1>6. rec_ctx[f] # None /\ enabled
  BY <1>1, <1>5, RecordedEnabled
<1>7. c.act = "JOB_CTX_DESTROY" /\ c.id = x.id
  BY <1>3 DEF Rec, Code
<1> HIDE DEF f
<1>8. /\ out' = [out EXCEPT ![t] = <<c>>] /\ UNCHANGED <<inited, enabled>>
      /\ DOMAIN call' = Threads /\ call'[t].op \in {"none", "return"}
      /\ call'[t].op # "none" => call'[t].file \in Files
  BY <1>1, <1>2, <1>3, FinishIs DEF f
<1>9. IsTable(contexts') /\ UniqueIds(contexts') /\ LiveIds(contexts') = LiveIds(contexts) \ {x.id}
  <2>1. IsTable(contexts) /\ UniqueIds(contexts)
    BY TablesAre
  <2>2. f \in Files /\ contexts' = WithList(contexts, f, RemoveAt(contexts[f], i))
    BY <1>1, <1>2 DEF WithList
  <2>3. /\ IsTable(contexts') /\ UniqueIds(contexts')
        /\ LiveIds(contexts') = LiveIds(contexts) \ {contexts[f][i].id}
    BY ONLY <1>4, <2>1, <2>2, RemovedIds
  <2> QED
    BY <1>3, <2>3
<1>10. \A e \in Files : e # f => contexts'[e] = contexts[e]
  BY <1>1, <1>2, <1>4, TablesAre, RemovedEntries
<1>11. \A e \in Files : rec_ctx[e] = None => bos'[e] = <<>> /\ contexts'[e] = <<>>
  BY <1>2, <1>6, <1>10, TablesAre
<1>12. ListsInv'
  <2>1. /\ IsTable(bos') /\ UniqueIds(bos')
        /\ \A e \in Files : \A k \in DOMAIN bos'[e] : bos'[e][k] = [y \in BoFields |-> bos'[e][k][y]]
    BY <1>2, TablesAre
  <2>2. UNCHANGED <<repVars, rec_ctx>>
    BY <1>2
  <2> QED
    BY ONLY ReplayInv(t), <1>9, <1>11, <2>1, <2>2, ListsKept
<1>13. LiveCtxs' = LiveCtxs
  BY <1>2 DEF LiveCtxs, Recorded
<1>14. RecordInv(c)'
  BY <1>7 DEF RecordInv, Code, Payloads
<1>15. \A e \in Files : \A k \in DOMAIN bos'[e] :
         bos'[e][k].fb_id # None =>
           /\ rec_ctx'[e] = rec_ctx[e]
           /\ \E j \in DOMAIN bos[e] : bos[e][j].id = bos'[e][k].id /\ bos[e][j].fb_id # None
  BY <1>2
<1>16. /\ Follows(c, LiveIds(bos), LiveIds(bos'), "BO_CREATE", "BO_DESTROY")
       /\ Follows(c, LiveCtxs, LiveCtxs', "CTX_CREATE", "CTX_DESTROY")
       /\ Follows(c, LiveIds(contexts), LiveIds(contexts'), "JOB_CTX_CREATE", "JOB_CTX_DESTROY")
  BY <1>2, <1>5, <1>7, <1>9, <1>13 DEF Follows
<1>17. c.act \notin Payloads \cup {"BO_LOAD_DATA", "JOB_SUBMIT"}
  BY <1>7 DEF Payloads
<1>18. ctx_cnt' \in Nat
  BY <1>2, TablesAre
<1> QED
  BY <1>1, <1>6, <1>8, <1>12, <1>14, <1>15, <1>16, <1>17, <1>18, OneStep

-----------------------------------------------------------------------------
(* Calls that write several records *)

\* Two lists and one more record.
LEMMA Concat3 ==
  ASSUME NEW p, p \in Seq(Range(p)), NEW q, q \in Seq(Range(q)), NEW d
  PROVE  LET r == p \o q \o <<d>>
             n == Len(p)
             m == Len(q)
         IN
         /\ r \in Seq(Range(r)) /\ n \in Nat /\ m \in Nat
         /\ DOMAIN r = 1..n + m + 1 /\ DOMAIN p = 1..n /\ DOMAIN q = 1..m
         /\ \A i \in 1..n : r[i] = p[i]
         /\ \A j \in 1..m : r[n + j] = q[j]
         /\ r[n + m + 1] = d
<1> DEFINE n == Len(p)
           m == Len(q)
           e == <<d>>
           u == p \o q
           r == u \o e
<1>1. n \in Nat /\ m \in Nat /\ DOMAIN p = 1..n /\ DOMAIN q = 1..m
  BY ListIs
<1>2. e \in Seq(Range(e)) /\ Len(e) = 1 /\ e[1] = d
  BY OneRecord
<1>3. /\ u \in Seq(Range(u)) /\ Len(u) = n + m
      /\ \A i \in 1..n : u[i] = p[i]
      /\ \A j \in 1..m : u[n + j] = q[j]
  BY ConcatList
<1> HIDE DEF e, u, n, m
<1>4. /\ r \in Seq(Range(r)) /\ DOMAIN r = 1..Len(u) + Len(e)
      /\ \A i \in 1..Len(u) : r[i] = u[i]
      /\ \A j \in 1..Len(e) : r[Len(u) + j] = e[j]
  <2>1. u \in Seq(Range(u)) /\ e \in Seq(Range(e))
    BY <1>2, <1>3
  <2> QED
    BY ONLY <2>1, ConcatList
<1> HIDE DEF r
<1>5. DOMAIN r = 1..n + m + 1 /\ \A i \in 1..n + m : r[i] = u[i]
  BY <1>2, <1>3, <1>4
<1>6. r[n + m + 1] = d
  <2>1. 1 \in 1..Len(e) /\ Len(u) + 1 = n + m + 1
    BY <1>2, <1>3
  <2> QED
    BY <1>2, <1>4, <2>1
<1>7. /\ \A i \in 1..n : i \in 1..n + m
      /\ \A j \in 1..m : n + j \in 1..n + m
  BY <1>1
<1>8. /\ \A i \in 1..n : r[i] = p[i]
      /\ \A j \in 1..m : r[n + j] = q[j]
  <2>1. ASSUME NEW i \in 1..n
        PROVE  r[i] = p[i]
    BY <1>3, <1>5, <1>7
  <2>2. ASSUME NEW j \in 1..m
        PROVE  r[n + j] = q[j]
    BY <1>3, <1>5, <1>7
  <2> QED
    BY <2>1, <2>2
<1> QED
  BY <1>1, <1>4, <1>5, <1>6, <1>8 DEF r, u, e, n, m

\* Records without payloads, jobs and framebuffer deletions are complete.
LEMMA PlainComplete ==
  ASSUME NEW s, \A k \in DOMAIN s : s[k].act \notin Payloads \cup {"BO_LOAD_DATA", "JOB_SUBMIT", "DEL_FRAMEBUFFER"}
  PROVE  Complete(s)
BY DEF Complete, WithRelocs, Payloads

\* host1x_file_release writes the end of everything the file has, once each.
LEMMA ReleasedIs ==
  ASSUME NEW t, ReplayInv(t), NEW f \in Files, NEW s, s = Released(f)
  PROVE  /\ s \in Seq(Range(s))
         /\ \A k \in DOMAIN s : s[k].act \in {"BO_DESTROY", "JOB_CTX_DESTROY", "CTX_DESTROY"}
         /\ IdsIn(s, "BO_DESTROY") = IdsOf(bos[f])
         /\ IdsIn(s, "JOB_CTX_DESTROY") = IdsOf(contexts[f])
         /\ IdsIn(s, "CTX_DESTROY") = {rec_ctx[f]}
         /\ \A a \in {"BO_DESTROY", "JOB_CTX_DESTROY", "CTX_DESTROY"} :
              \A j, k \in RecordsOf(s, a) : s[j].id = s[k].id => j = k
<1> DEFINE p == [i \in DOMAIN bos[f] |-> Rec("BO_DESTROY", bos[f][i].id, rec_ctx[f])]
           q == [i \in DOMAIN contexts[f] |-> Rec("JOB_CTX_DESTROY", contexts[f][i].id, None)]
           d == Rec("CTX_DESTROY", rec_ctx[f], None)
           n == Len(p)
           m == Len(q)
<1>1. /\ bos[f] \in Seq(Range(bos[f])) /\ contexts[f] \in Seq(Range(contexts[f]))
      /\ UniqueIds(bos) /\ UniqueIds(contexts)
  BY TablesAre DEF IsTable
<1>2. p \in Seq(Range(p)) /\ q \in Seq(Range(q))
  <2>1. /\ DOMAIN bos[f] = 1..Len(bos[f]) /\ Len(bos[f]) \in Nat
        /\ DOMAIN contexts[f] = 1..Len(contexts[f]) /\ Len(contexts[f]) \in Nat
    BY <1>1, ListIs
  <2>2. p = [i \in 1..Len(bos[f]) |-> p[i]] /\ q = [i \in 1..Len(contexts[f]) |-> q[i]]
    BY <2>1
  <2> HIDE DEF p, q
  <2> QED
    BY <2>1, <2>2, IsList
<1>3. DOMAIN p = DOMAIN bos[f] /\ DOMAIN q = DOMAIN contexts[f]
  OBVIOUS
<1>4. \A i \in DOMAIN p : p[i].act = "BO_DESTROY" /\ p[i].id = bos[f][i].id
  BY DEF Rec
<1>5. \A i \in DOMAIN q : q[i].act = "JOB_CTX_DESTROY" /\ q[i].id = contexts[f][i].id
  BY DEF Rec
<1>6. d.act = "CTX_DESTROY" /\ d.id = rec_ctx[f]
  BY DEF Rec
<1>7. s = p \o q \o <<d>>
  BY DEF Released
<1> HIDE DEF p, q, d
<1>8. /\ s \in Seq(Range(s)) /\ n \in Nat /\ m \in Nat
      /\ DOMAIN s = 1..n + m + 1 /\ DOMAIN p = 1..n /\ DOMAIN q = 1..m
      /\ \A i \in 1..n : s[i] = p[i]
      /\ \A j \in 1..m : s[n + j] = q[j]
      /\ s[n + m + 1] = d
  BY <1>2, <1>7, Concat3
<1> HIDE DEF n, m
<1>9. ASSUME NEW k \in DOMAIN s
      PROVE  \/ k \in 1..n /\ k \in DOMAIN bos[f] /\ s[k].act = "BO_DESTROY" /\ s[k].id = bos[f][k].id
             \/ /\ k \in n + 1..n + m /\ k - n \in DOMAIN contexts[f]
                /\ s[k].act = "JOB_CTX_DESTROY" /\ s[k].id = contexts[f][k - n].id
             \/ k = n + m + 1 /\ s[k].act = "CTX_DESTROY" /\ s[k].id = rec_ctx[f]
  <2>1. CASE k \in 1..n
    BY <1>3, <1>4, <1>8, <2>1
  <2>2. CASE k \in n + 1..n + m
    <3>1. PICK j \in 1..m : k = n + j /\ k - n = j
      <4>1. k - n \in 1..m /\ k = n + (k - n)
        BY <1>8, <2>2
      <4> QED
        BY <4>1
    <3> QED
      BY <1>3, <1>5, <1>8, <2>2, <3>1
  <2>3. CASE k = n + m + 1
    BY <1>6, <1>8, <2>3
  <2>4. k \in 1..n \/ k \in n + 1..n + m \/ k = n + m + 1
    BY <1>8
  <2> QED
    BY <2>1, <2>2, <2>3, <2>4
<1>10. ASSUME NEW i \in DOMAIN bos[f]
       PROVE  i \in DOMAIN s /\ s[i].act = "BO_DESTROY" /\ s[i].id = bos[f][i].id
  <2>1. i \in 1..n /\ i \in 1..n + m + 1
    BY <1>3, <1>8
  <2> QED
    BY <1>4, <1>8, <2>1
<1>11. ASSUME NEW j \in DOMAIN contexts[f]
       PROVE  n + j \in DOMAIN s /\ s[n + j].act = "JOB_CTX_DESTROY" /\ s[n + j].id = contexts[f][j].id
  <2>1. j \in 1..m /\ n + j \in 1..n + m + 1
    BY <1>3, <1>8
  <2> QED
    BY <1>5, <1>8, <2>1
<1>12. n + m + 1 \in DOMAIN s /\ s[n + m + 1].act = "CTX_DESTROY" /\ s[n + m + 1].id = rec_ctx[f]
  BY <1>6, <1>8
<1>13. IdsIn(s, "BO_DESTROY") = IdsOf(bos[f])
  BY <1>9, <1>10 DEF IdsIn, RecordsOf, IdsOf
<1>14. IdsIn(s, "JOB_CTX_DESTROY") = IdsOf(contexts[f])
  BY <1>9, <1>11 DEF IdsIn, RecordsOf, IdsOf
<1>15. IdsIn(s, "CTX_DESTROY") = {rec_ctx[f]}
  BY <1>9, <1>12 DEF IdsIn, RecordsOf
<1>16. ASSUME NEW j \in RecordsOf(s, "BO_DESTROY"), NEW k \in RecordsOf(s, "BO_DESTROY"), s[j].id = s[k].id
       PROVE  j = k
  BY <1>1, <1>9, <1>16 DEF RecordsOf, UniqueIds
<1>17. ASSUME NEW j \in RecordsOf(s, "JOB_CTX_DESTROY"), NEW k \in RecordsOf(s, "JOB_CTX_DESTROY"),
              s[j].id = s[k].id
       PROVE  j = k
  <2>1. /\ j \in n + 1..n + m /\ j - n \in DOMAIN contexts[f] /\ s[j].id = contexts[f][j - n].id
        /\ k \in n + 1..n + m /\ k - n \in DOMAIN contexts[f] /\ s[k].id = contexts[f][k - n].id
    BY <1>9 DEF RecordsOf
  <2>2. \A x, y \in DOMAIN contexts[f] : contexts[f][x].id = contexts[f][y].id => x = y
    BY <1>1 DEF UniqueIds
  <2>3. j - n = k - n
    BY ONLY <1>17, <2>1, <2>2
  <2> QED
    BY <1>8, <2>1, <2>3
<1>18. ASSUME NEW j \in RecordsOf(s, "CTX_DESTROY"), NEW k \in RecordsOf(s, "CTX_DESTROY")
       PROVE  j = k
  BY <1>9 DEF RecordsOf
<1>19. \A k \in DOMAIN s : s[k].act \in {"BO_DESTROY", "JOB_CTX_DESTROY", "CTX_DESTROY"}
  BY <1>9
<1> QED
  BY <1>8, <1>13, <1>14, <1>15, <1>16, <1>17, <1>18, <1>19

\* host1x_file_release
LEMMA ClosesFile ==
  ASSUME NEW t, Threads = {t}, ReplayInv(t), UNCHANGED <<program, repVars>>,
         NEW f \in Files, CloseFile(t, f)
  PROVE  ReplayInv(t)'
<1>1. out[t] = <<>> /\ call[t].op = "none" /\ DOMAIN call = Threads
  <2>1. Idle(t)
    BY Zenon DEF CloseFile
  <2> QED
    BY <2>1, IdleIs
<1>2. rec_ctx[f] # NullCtx
  BY DEF ReplayInv, ListsInv
<1>3. PICK s : s = Released(f)
  OBVIOUS
<1>4. /\ enabled /\ rec_ctx[f] # None
      /\ rec_ctx' = [rec_ctx EXCEPT ![f] = None]
      /\ bos' = [bos EXCEPT ![f] = <<>>]
      /\ contexts' = [contexts EXCEPT ![f] = <<>>]
      /\ out' = [out EXCEPT ![t] = s]
      /\ Return(t, f, {}, out'[t])
      /\ UNCHANGED recorder
  BY <1>2, <1>3, Zenon DEF CloseFile, IsOpen
<1>5. UNCHANGED <<inited, enabled, ctx_cnt>>
  BY <1>4 DEF recorder
<1>6. /\ DOMAIN call' = Threads /\ call'[t].op \in {"none", "return"}
      /\ call'[t].op # "none" => call'[t].file \in Files
  BY <1>1, <1>4, Returned
<1>7. /\ s \in Seq(Range(s))
      /\ \A k \in DOMAIN s : s[k].act \in {"BO_DESTROY", "JOB_CTX_DESTROY", "CTX_DESTROY"}
      /\ IdsIn(s, "BO_DESTROY") = IdsOf(bos[f])
      /\ IdsIn(s, "JOB_CTX_DESTROY") = IdsOf(contexts[f])
      /\ IdsIn(s, "CTX_DESTROY") = {rec_ctx[f]}
      /\ \A a \in {"BO_DESTROY", "JOB_CTX_DESTROY", "CTX_DESTROY"} :
           \A j, k \in RecordsOf(s, a) : s[j].id = s[k].id => j = k
  BY <1>3, ReleasedIs
<1>8. IsTable(bos) /\ UniqueIds(bos) /\ IsTable(contexts) /\ UniqueIds(contexts)
  BY TablesAre
<1>9. IsTable(bos') /\ UniqueIds(bos') /\ LiveIds(bos') = LiveIds(bos) \ IdsOf(bos[f])
  BY ONLY f \in Files, <1>4, <1>8, ClearedIds
<1>10. /\ IsTable(contexts') /\ UniqueIds(contexts')
       /\ LiveIds(contexts') = LiveIds(contexts) \ IdsOf(contexts[f])
  BY ONLY f \in Files, <1>4, <1>8, ClearedIds
<1>11. /\ rec_ctx'[f] = None /\ bos'[f] = <<>> /\ contexts'[f] = <<>>
       /\ \A e \in Files \ {f} : rec_ctx'[e] = rec_ctx[e] /\ bos'[e] = bos[e] /\ contexts'[e] = contexts[e]
       /\ DOMAIN rec_ctx' = Files
  BY <1>4, <1>8, TablesAre DEF IsTable
<1>12. Recorded' = Recorded \ {f} /\ f \in Recorded
  BY <1>2, <1>4, <1>11 DEF Recorded
<1>13. LiveCtxs' = LiveCtxs \ {rec_ctx[f]} /\ rec_ctx[f] \in LiveCtxs
  <2>1. \A e, g \in Recorded : rec_ctx[e] = rec_ctx[g] => e = g
    BY DEF ReplayInv, ListsInv
  <2>2. Recorded \subseteq Files
    BY DEF Recorded
  <2> QED
    BY <1>11, <1>12, <2>1, <2>2 DEF LiveCtxs
<1>14. Complete(s)
  BY <1>7, PlainComplete DEF Payloads
<1>15. \A c \in Range(s) : RecordInv(c)'
  <2>1. \A c \in Range(s) : c.act \in {"BO_DESTROY", "JOB_CTX_DESTROY", "CTX_DESTROY"}
    BY <1>7 DEF Range
  <2> QED
    BY <2>1 DEF RecordInv, Code, Payloads
<1>16. RecordsOf(s, "BO_CREATE") = {} /\ RecordsOf(s, "JOB_CTX_CREATE") = {} /\ RecordsOf(s, "CTX_CREATE") = {}
  BY <1>7 DEF RecordsOf
<1>17. IdsOf(bos[f]) \subseteq LiveIds(bos) /\ IdsOf(contexts[f]) \subseteq LiveIds(contexts)
  BY DEF LiveIds
<1>18. /\ Mirror(IdList(bo_list), <<>>, LiveIds(bos), "BO_CREATE", "BO_DESTROY")
       /\ Mirror(ctx_list, <<>>, LiveCtxs, "CTX_CREATE", "CTX_DESTROY")
       /\ Mirror(job_ctx_list, <<>>, LiveIds(contexts), "JOB_CTX_CREATE", "JOB_CTX_DESTROY")
  BY <1>1, AllRead
<1>19. Mirror(IdList(bo_list), s, LiveIds(bos'), "BO_CREATE", "BO_DESTROY")
  <2>1. Mirror(IdList(bo_list), s, LiveIds(bos) \ IdsIn(s, "BO_DESTROY"), "BO_CREATE", "BO_DESTROY")
    BY <1>7, <1>16, <1>17, <1>18, MirrorWrite
  <2> QED
    BY <1>7, <1>9, <2>1
<1>20. Mirror(ctx_list, s, LiveCtxs', "CTX_CREATE", "CTX_DESTROY")
  <2>1. Mirror(ctx_list, s, LiveCtxs \ IdsIn(s, "CTX_DESTROY"), "CTX_CREATE", "CTX_DESTROY")
    BY <1>7, <1>13, <1>16, <1>18, MirrorWrite
  <2> QED
    BY <1>7, <1>13, <2>1
<1>21. Mirror(job_ctx_list, s, LiveIds(contexts'), "JOB_CTX_CREATE", "JOB_CTX_DESTROY")
  <2>1. Mirror(job_ctx_list, s, LiveIds(contexts) \ IdsIn(s, "JOB_CTX_DESTROY"),
               "JOB_CTX_CREATE", "JOB_CTX_DESTROY")
    BY <1>7, <1>16, <1>17, <1>18, MirrorWrite
  <2> QED
    BY <1>7, <1>10, <2>1
<1>22. \A e \in Files : \A k \in DOMAIN bos'[e] :
         bos'[e][k].fb_id # None =>
           /\ rec_ctx'[e] = rec_ctx[e]
           /\ \E j \in DOMAIN bos[e] : bos[e][j].id = bos'[e][k].id /\ bos[e][j].fb_id # None
  <2>1. DOMAIN <<>> = {}
    OBVIOUS
  <2> QED
    BY <1>11, <2>1
<1>23. ListsInv'
  <2>1. \A e \in Files : rec_ctx'[e] # NullCtx
    BY <1>11, NoneAssumption DEF ReplayInv, ListsInv
  <2>2. \A e \in Files : rec_ctx'[e] = None => bos'[e] = <<>> /\ contexts'[e] = <<>>
    BY <1>11, TablesAre
  <2>3. \A e, g \in Recorded' : rec_ctx'[e] = rec_ctx'[g] => e = g
    <3>1. \A e, g \in Recorded : rec_ctx[e] = rec_ctx[g] => e = g
      BY DEF ReplayInv, ListsInv
    <3>2. Recorded \subseteq Files
      BY DEF Recorded
    <3> QED
      BY <1>11, <1>12, <3>1, <3>2
  <2>4. UNCHANGED <<ctx_list, bo_list, fb_list, job_ctx_list>>
    BY DEF repVars, lists
  <2>5. \A e \in Files : \A k \in DOMAIN bos'[e] : bos'[e][k] = [y \in BoFields |-> bos'[e][k][y]]
    <3>1. \A e \in Files : \A k \in DOMAIN bos[e] : bos[e][k] = [y \in BoFields |-> bos[e][k][y]]
      BY TablesAre
    <3>2. DOMAIN bos'[f] = {}
      BY <1>11
    <3> QED
      BY <1>11, <3>1, <3>2
  <2>6. /\ ctx_list' \in Seq(Range(ctx_list')) /\ bo_list' \in Seq(Range(bo_list'))
        /\ fb_list' \in Seq(Range(fb_list')) /\ job_ctx_list' \in Seq(Range(job_ctx_list'))
    BY <2>4 DEF ReplayInv, ListsInv
  <2>7. UniqueIds(bos)' /\ UniqueIds(contexts)'
    BY <1>9, <1>10 DEF UniqueIds
  <2>8. /\ DOMAIN bos' = Files /\ DOMAIN contexts' = Files
        /\ \A e \in Files : bos'[e] \in Seq(Range(bos'[e])) /\ contexts'[e] \in Seq(Range(contexts'[e]))
    BY <1>9, <1>10 DEF IsTable
  <2> QED
    BY <1>11, <2>1, <2>2, <2>3, <2>5, <2>6, <2>7, <2>8 DEF ListsInv
<1>24. OpenInv(t)'
  BY <1>5, <1>6, TablesAre, OpenStays
<1>25. StartInv(t)'
  BY <1>1, <1>4, <1>5, <1>6, StartStays
<1> QED
  <2>1. \A e \in Files : \A k \in DOMAIN bos'[e] :
          bos'[e][k].fb_id # None =>
            \/ /\ rec_ctx'[e] = rec_ctx[e]
               /\ \E j \in DOMAIN bos[e] : bos[e][j].id = bos'[e][k].id /\ bos[e][j].fb_id # None
            \/ \E c \in Range(s) : /\ c.act = "ADD_FRAMEBUFFER"
                                   /\ c.bo_id = bos'[e][k].id /\ c.ctx_id = rec_ctx'[e]
    BY <1>22
  <2>2. UNCHANGED repVars /\ s \in Seq(Range(s)) /\ out' = [out EXCEPT ![t] = s] /\ out[t] = <<>>
    BY <1>1, <1>4, <1>7
  <2> QED
    BY ONLY Threads = {t}, ReplayInv(t), <1>14, <1>15, <1>19, <1>20, <1>21, <1>23, <1>24, <1>25,
            <2>1, <2>2, ProgramStep

\* Every number up to n, when 0 is one and each makes the next
LEMMA FromZero ==
  ASSUME NEW n \in Nat, NEW T, 0 \in T, \A k \in 0..n - 1 : k \in T => k + 1 \in T
  PROVE  \A k \in 0..n : k \in T
<1> DEFINE bad == {k \in 0..n : k \notin T}
<1> SUFFICES ASSUME bad # {}
             PROVE  FALSE
  OBVIOUS
<1>1. bad \in SUBSET Nat
  OBVIOUS
<1>2. PICK m \in bad : \A k \in bad : m <= k
  BY <1>1, LeastNat
<1>3. m \in 0..n /\ m # 0 /\ m \notin T
  BY <1>2
<1>4. m - 1 \in 0..n - 1 /\ ~(m <= m - 1) /\ (m - 1) + 1 = m
  BY <1>3
<1>5. m - 1 \in T
  BY <1>2, <1>4
<1> QED
  BY <1>3, <1>4, <1>5

\* The pages of a capture: each header is followed by its payload.
LoadSeq(s, S, z) ==
    /\ s \in Seq(Range(s))
    /\ \A k \in DOMAIN s :
        /\ s[k].act \in {"BO_LOAD_DATA", "page"}
        /\ k = 1 => s[k].act = "BO_LOAD_DATA"
        /\ s[k].act = "BO_LOAD_DATA" => s[k].id \in S /\ k + 1 \in DOMAIN s
        /\ s[k].act = "page" => s[k].packed \in {"none", z}
        /\ k + 1 \in DOMAIN s => (s[k].act = "BO_LOAD_DATA" <=> s[k + 1].act = "page")

\* Nothing is a list of uploads.
LEMMA NoLoads ==
  ASSUME NEW S, NEW z
  PROVE  LoadSeq(<<>>, S, z)
<1>1. DOMAIN <<>> = {} /\ <<>> \in Seq(Range(<<>>))
  OBVIOUS
<1> QED
  BY <1>1 DEF LoadSeq

\* Uploads after uploads are uploads.
LEMMA MoreLoads ==
  ASSUME NEW S, NEW z, NEW a, LoadSeq(a, S, z), NEW b, LoadSeq(b, S, z)
  PROVE  LoadSeq(a \o b, S, z)
<1> DEFINE r == a \o b
           n == Len(a)
           m == Len(b)
<1>1. a \in Seq(Range(a)) /\ b \in Seq(Range(b))
  BY DEF LoadSeq
<1>2. /\ r \in Seq(Range(r)) /\ DOMAIN r = 1..n + m
      /\ n \in Nat /\ m \in Nat /\ DOMAIN a = 1..n /\ DOMAIN b = 1..m
      /\ \A i \in 1..n : r[i] = a[i]
      /\ \A j \in 1..m : r[n + j] = b[j]
  BY <1>1, ConcatList, ListIs
<1> HIDE DEF r, n, m
<1>3. ASSUME NEW k \in 1..n
      PROVE  /\ r[k].act \in {"BO_LOAD_DATA", "page"}
             /\ k = 1 => r[k].act = "BO_LOAD_DATA"
             /\ r[k].act = "BO_LOAD_DATA" => r[k].id \in S /\ k + 1 \in DOMAIN r
             /\ r[k].act = "page" => r[k].packed \in {"none", z}
             /\ k + 1 \in DOMAIN r => (r[k].act = "BO_LOAD_DATA" <=> r[k + 1].act = "page")
  <2>1. /\ r[k] = a[k] /\ a[k].act \in {"BO_LOAD_DATA", "page"}
        /\ k = 1 => a[k].act = "BO_LOAD_DATA"
        /\ a[k].act = "BO_LOAD_DATA" => a[k].id \in S /\ k + 1 \in 1..n
        /\ a[k].act = "page" => a[k].packed \in {"none", z}
        /\ k + 1 \in 1..n => (a[k].act = "BO_LOAD_DATA" <=> a[k + 1].act = "page")
    BY <1>2 DEF LoadSeq
  <2>2. k + 1 \in 1..n => k + 1 \in DOMAIN r /\ r[k + 1] = a[k + 1]
    BY <1>2
  <2>3. k + 1 \notin 1..n /\ k + 1 \in DOMAIN r => r[k + 1].act = "BO_LOAD_DATA" /\ a[k].act = "page"
    <3> SUFFICES ASSUME k + 1 \notin 1..n, k + 1 \in DOMAIN r
                 PROVE  r[k + 1].act = "BO_LOAD_DATA" /\ a[k].act = "page"
      OBVIOUS
    <3>1. k + 1 = n + 1 /\ 1 \in 1..m
      BY <1>2
    <3>2. r[k + 1] = b[1]
      BY <1>2, <3>1
    <3>3. b[1].act = "BO_LOAD_DATA"
      BY <1>2, <3>1 DEF LoadSeq
    <3> QED
      BY <2>1, <3>2, <3>3
  <2> QED
    BY <2>1, <2>2, <2>3
<1>4. ASSUME NEW j \in 1..m
      PROVE  LET k == n + j IN
             /\ r[k].act \in {"BO_LOAD_DATA", "page"}
             /\ k = 1 => r[k].act = "BO_LOAD_DATA"
             /\ r[k].act = "BO_LOAD_DATA" => r[k].id \in S /\ k + 1 \in DOMAIN r
             /\ r[k].act = "page" => r[k].packed \in {"none", z}
             /\ k + 1 \in DOMAIN r => (r[k].act = "BO_LOAD_DATA" <=> r[k + 1].act = "page")
  <2>1. /\ r[n + j] = b[j] /\ b[j].act \in {"BO_LOAD_DATA", "page"}
        /\ j = 1 => b[j].act = "BO_LOAD_DATA"
        /\ b[j].act = "BO_LOAD_DATA" => b[j].id \in S /\ j + 1 \in 1..m
        /\ b[j].act = "page" => b[j].packed \in {"none", z}
        /\ j + 1 \in 1..m => (b[j].act = "BO_LOAD_DATA" <=> b[j + 1].act = "page")
    BY <1>2 DEF LoadSeq
  <2>2. (n + j) + 1 \in DOMAIN r <=> j + 1 \in 1..m
    BY <1>2
  <2>3. j + 1 \in 1..m => r[(n + j) + 1] = b[j + 1]
    <3>1. (n + j) + 1 = n + (j + 1)
      BY <1>2
    <3> QED
      BY <1>2, <3>1
  <2>4. n + j = 1 => j = 1
    BY <1>2
  <2> QED
    BY <2>1, <2>2, <2>3, <2>4
<1>5. ASSUME NEW k \in DOMAIN r
      PROVE  k \in 1..n \/ \E j \in 1..m : k = n + j
  <2>1. k \in 1..n \/ (k - n \in 1..m /\ k = n + (k - n))
    BY <1>2
  <2> QED
    BY <2>1
<1>6. LoadSeq(r, S, z)
  <2>1. ASSUME NEW k \in DOMAIN r
        PROVE  /\ r[k].act \in {"BO_LOAD_DATA", "page"}
               /\ k = 1 => r[k].act = "BO_LOAD_DATA"
               /\ r[k].act = "BO_LOAD_DATA" => r[k].id \in S /\ k + 1 \in DOMAIN r
               /\ r[k].act = "page" => r[k].packed \in {"none", z}
               /\ k + 1 \in DOMAIN r => (r[k].act = "BO_LOAD_DATA" <=> r[k + 1].act = "page")
    <3>1. CASE k \in 1..n
      BY ONLY <1>3, <3>1
    <3>2. ASSUME NEW j \in 1..m, k = n + j
          PROVE  /\ r[k].act \in {"BO_LOAD_DATA", "page"}
                 /\ k = 1 => r[k].act = "BO_LOAD_DATA"
                 /\ r[k].act = "BO_LOAD_DATA" => r[k].id \in S /\ k + 1 \in DOMAIN r
                 /\ r[k].act = "page" => r[k].packed \in {"none", z}
                 /\ k + 1 \in DOMAIN r => (r[k].act = "BO_LOAD_DATA" <=> r[k + 1].act = "page")
      BY <1>4, <3>2
    <3> QED
      BY <1>5, <3>1, <3>2
  <2> QED
    BY <1>2, <2>1 DEF LoadSeq
<1> QED
  BY <1>6 DEF r

\* FlattenSeq concatenates from the left.
LEMMA FlattenIs ==
  ASSUME NEW ss, Len(ss) \in Nat \ {0}
  PROVE  \E s : /\ FlattenSeq(ss) = s[Len(ss)] /\ s[1] = ss[1]
                /\ \A k \in 1..Len(ss) - 1 : s[k + 1] = s[k] \o ss[k + 1]
<1> DEFINE N == Len(ss)
           G(g, n) == g = [i \in 1..n |-> IF i = 1 THEN ss[i] ELSE g[i - 1] \o ss[i]]
           T == {n \in Nat : \E g : G(g, n)}
<1>0. (\E g : G(g, N)) => \E s : G(s, N) /\ FlattenSeq(ss) = s[N]
  BY DEF FlattenSeq
<1>1. 0 \in T
  <2>1. G([i \in 1..0 |-> 0], 0)
    OBVIOUS
  <2> QED
    BY <2>1
<1>2. ASSUME NEW n \in 0..N - 1, n \in T
      PROVE  n + 1 \in T
  <2>1. PICK g : G(g, n)
    BY <1>2
  <2> DEFINE h == [i \in 1..n + 1 |-> IF i <= n THEN g[i] ELSE IF i = 1 THEN ss[i] ELSE g[n] \o ss[i]]
  <2>2. \A i \in 1..n + 1 : h[i] = IF i = 1 THEN ss[i] ELSE h[i - 1] \o ss[i]
    <3> SUFFICES ASSUME NEW i \in 1..n + 1
                 PROVE  h[i] = IF i = 1 THEN ss[i] ELSE h[i - 1] \o ss[i]
      OBVIOUS
    <3>1. CASE i <= n
      <4>1. i \in 1..n /\ h[i] = g[i] /\ (i # 1 => i - 1 \in 1..n + 1 /\ i - 1 <= n)
        BY <3>1
      <4>2. g[i] = IF i = 1 THEN ss[i] ELSE g[i - 1] \o ss[i]
        BY <2>1, <4>1
      <4>3. i # 1 => h[i - 1] = g[i - 1]
        BY <4>1
      <4> QED
        BY <4>1, <4>2, <4>3
    <3>2. CASE i = n + 1
      <4>1. ~(i <= n) /\ (i # 1 => i - 1 \in 1..n + 1 /\ i - 1 <= n /\ i - 1 = n)
        BY <3>2
      <4>2. i # 1 => h[i - 1] = g[n]
        BY <4>1
      <4> QED
        BY <4>1, <4>2
    <3> QED
      BY <3>1, <3>2
  <2>3. h = [i \in 1..n + 1 |-> h[i]]
    OBVIOUS
  <2> HIDE DEF h
  <2>4. G(h, n + 1)
    BY <2>2, <2>3
  <2>5. n + 1 \in Nat
    OBVIOUS
  <2> HIDE DEF G
  <2>6. \E x : G(x, n + 1)
    BY <2>4
  <2> QED
    BY <2>5, <2>6
<1> HIDE DEF T
<1>3. N \in T
  <2>1. N \in Nat /\ \A k \in 0..N - 1 : k \in T => k + 1 \in T
    BY <1>2
  <2>2. \A k \in 0..N : k \in T
    BY <1>1, <2>1, FromZero
  <2> QED
    BY <2>1, <2>2
<1>4. PICK s : G(s, N) /\ FlattenSeq(ss) = s[N]
  BY <1>0, <1>3 DEF T
<1>5. s[1] = ss[1]
  BY <1>4
<1>6. ASSUME NEW k \in 1..N - 1
      PROVE  s[k + 1] = s[k] \o ss[k + 1]
  <2>1. k + 1 \in 1..N /\ k + 1 # 1 /\ (k + 1) - 1 = k
    OBVIOUS
  <2> QED
    BY <1>4, <2>1
<1> QED
  BY <1>4, <1>5, <1>6

\* The uploads of every buffer of a job, one after another, are uploads.
LEMMA FlattenLoads ==
  ASSUME NEW S, NEW z, NEW ss, ss \in Seq(Range(ss)), \A i \in DOMAIN ss : LoadSeq(ss[i], S, z)
  PROVE  LoadSeq(FlattenSeq(ss), S, z)
<1> DEFINE N == Len(ss)
<1>1. N \in Nat /\ DOMAIN ss = 1..N
  BY ListIs
<1>2. CASE N = 0
  <2>1. FlattenSeq(ss) = ss
    BY <1>2 DEF FlattenSeq
  <2>2. ss = <<>>
    BY <1>1, <1>2, EmptyList
  <2> QED
    BY <2>1, <2>2, NoLoads
<1>3. CASE N # 0
  <2>1. PICK s : /\ FlattenSeq(ss) = s[N] /\ s[1] = ss[1]
                 /\ \A k \in 1..N - 1 : s[k + 1] = s[k] \o ss[k + 1]
    BY <1>1, <1>3, FlattenIs
  <2> HIDE DEF N
  <2> DEFINE T == {k \in 0..N : k = 0 \/ LoadSeq(s[k], S, z)}
  <2>2. 0 \in T
    BY <1>1
  <2>3. ASSUME NEW k \in 0..N - 1, k \in T
        PROVE  k + 1 \in T
    <3>1. k + 1 \in 0..N /\ k + 1 \in 1..N
      BY <1>1
    <3>2. LoadSeq(ss[k + 1], S, z)
      BY <1>1, <3>1
    <3>3. CASE k = 0
      BY <2>1, <3>1, <3>2, <3>3
    <3>4. CASE k # 0
      <4>1. s[k + 1] = s[k] \o ss[k + 1] /\ LoadSeq(s[k], S, z)
        <5>1. k \in 1..N - 1
          BY <1>1, <3>4
        <5> QED
          BY <2>1, <2>3, <3>4, <5>1
      <4>2. LoadSeq(s[k + 1], S, z)
        BY <3>2, <4>1, MoreLoads
      <4> QED
        BY <3>1, <4>2
    <3> QED
      BY <3>3, <3>4
  <2>4. N \in T
    <3> HIDE DEF T
    <3>1. \A k \in 0..N : k \in T
      BY <1>1, <2>2, <2>3, FromZero
    <3> QED
      BY <1>1, <3>1
  <2> QED
    BY <1>3, <2>1, <2>4
<1> QED
  BY <1>2, <1>3

\* SetToSeq lists the members of a finite set.
LEMMA SetToSeqIs ==
  ASSUME NEW S, IsFiniteSet(S)
  PROVE  LET s == SetToSeq(S) IN
         /\ s \in Seq(Range(s)) /\ Len(s) \in Nat /\ DOMAIN s = 1..Len(s)
         /\ \A i \in DOMAIN s : s[i] \in S
         /\ Len(s) = 0 <=> S = {}
<1> DEFINE n == Cardinality(S)
           s == SetToSeq(S)
<1>1. n \in Nat /\ ExistsBijection(1..n, S) /\ (n = 0 <=> S = {})
  BY FS_CardinalityType, FS_EmptySet
<1>2. \E g \in [1..n -> S] : IsInjective(g)
  BY <1>1 DEF ExistsBijection, Bijection, Injection
<1>3. s \in [1..n -> S]
  BY <1>2 DEF SetToSeq
<1> HIDE DEF s, n
<1>4. s = [i \in 1..n |-> s[i]] /\ \A i \in 1..n : s[i] \in S
  BY <1>3
<1>5. s \in Seq(Range(s)) /\ DOMAIN s = 1..n /\ Len(s) = n
  BY <1>1, <1>4, IsList
<1> QED
  BY <1>1, <1>4, <1>5 DEF s

\* record_capture_bo_data
LEMMA LoadsAre ==
  ASSUME NEW f, NEW b, IsFiniteSet(DOMAIN b.chksum), NEW S, b.id \in S
  PROVE  LoadSeq(Loads(f, b), S, program.compression)
<1> DEFINE ps == SetToSeq(PagesToLoad(b))
           load(p) == <<LoadRec(b.id, rec_ctx[f], p),
                        [act |-> "page", packed |-> Packed(mem[b.data][p]),
                         data |-> mem[b.data][p], code |-> 0]>>
           ss == [i \in DOMAIN ps |-> load(ps[i])]
<1>1. PagesToLoad(b) \in SUBSET DOMAIN b.chksum
  BY DEF PagesToLoad
<1>2. IsFiniteSet(PagesToLoad(b))
  BY <1>1, FS_Subset
<1>3. Len(ps) \in Nat /\ DOMAIN ps = 1..Len(ps)
  BY <1>2, SetToSeqIs
<1> HIDE DEF ps
<1>4. ASSUME NEW p
      PROVE  LoadSeq(load(p), S, program.compression)
  <2>1. PICK v, x, y : v = mem[b.data][p] /\ x = LoadRec(b.id, rec_ctx[f], p)
                       /\ y = [act |-> "page", packed |-> Packed(v), data |-> v, code |-> 0]
    OBVIOUS
  <2>2. load(p) = <<x, y>>
    BY <2>1
  <2>3. x.act = "BO_LOAD_DATA" /\ x.id = b.id
    BY <2>1 DEF LoadRec
  <2>4. Packed(v) \in {"none", program.compression}
    BY DEF Packed
  <2>5. y.act = "page" /\ y.packed = Packed(v)
    BY <2>1
  <2>6. /\ <<x, y>> \in Seq(Range(<<x, y>>)) /\ DOMAIN <<x, y>> = {1, 2}
        /\ <<x, y>>[1] = x /\ <<x, y>>[2] = y
    <3>1. DOMAIN <<x, y>> = {1, 2} /\ <<x, y>>[1] = x /\ <<x, y>>[2] = y
      OBVIOUS
    <3>2. x \in Range(<<x, y>>) /\ y \in Range(<<x, y>>)
      BY <3>1 DEF Range
    <3> QED
      BY <3>1, <3>2
  <2>7. 1 + 1 = 2 /\ 2 + 1 \notin {1, 2}
    OBVIOUS
  <2>8. LoadSeq(<<x, y>>, S, program.compression)
    BY ONLY b.id \in S, <2>3, <2>4, <2>5, <2>6, <2>7 DEF LoadSeq
  <2> QED
    BY <2>2, <2>8
<1> HIDE DEF load
<1>5. ss \in Seq(Range(ss)) /\ DOMAIN ss = DOMAIN ps
  <2>1. ss = [i \in 1..Len(ps) |-> ss[i]] /\ DOMAIN ss = DOMAIN ps
    BY <1>3
  <2> HIDE DEF ss
  <2> QED
    BY <1>3, <2>1, IsList
<1>6. \A i \in DOMAIN ss : LoadSeq(ss[i], S, program.compression)
  BY <1>4
<1>7. Loads(f, b) = FlattenSeq(ss)
  BY DEF Loads, ss, ps, load
<1> HIDE DEF ss
<1> QED
  BY <1>5, <1>6, <1>7, FlattenLoads

\* The captures, then the job with or without relocations
LEMMA CompleteJob ==
  ASSUME NEW a, NEW S, NEW z, LoadSeq(a, S, z), NEW s,
         \A i \in 1..Len(a) : s[i] = a[i],
         s[Len(a) + 1].act = "JOB_SUBMIT", s[Len(a) + 2].act = "gathers",
         \/ DOMAIN s = 1..Len(a) + 2 /\ Len(s) = Len(a) + 2 /\ ~WithRelocs(s[Len(a) + 1])
         \/ /\ DOMAIN s = 1..Len(a) + 3 /\ Len(s) = Len(a) + 3 /\ WithRelocs(s[Len(a) + 1])
            /\ s[Len(a) + 3].act = "relocs"
            /\ s[Len(a) + 3].gather_id = s[Len(a) + 2].id
            /\ s[Len(a) + 3].ctx_id = s[Len(a) + 2].ctx_id
  PROVE  Complete(s)
<1> DEFINE n == Len(a)
<1>1. n \in Nat /\ DOMAIN a = 1..n
  BY ListIs DEF LoadSeq
<1>2. /\ \A i \in 1..n : s[i] = a[i]
      /\ s[n + 1].act = "JOB_SUBMIT" /\ s[n + 2].act = "gathers"
      /\ \/ DOMAIN s = 1..n + 2 /\ Len(s) = n + 2 /\ ~WithRelocs(s[n + 1])
         \/ /\ DOMAIN s = 1..n + 3 /\ Len(s) = n + 3 /\ WithRelocs(s[n + 1])
            /\ s[n + 3].act = "relocs"
            /\ s[n + 3].gather_id = s[n + 2].id /\ s[n + 3].ctx_id = s[n + 2].ctx_id
  OBVIOUS
<1> HIDE DEF n
<1>3. \A k \in 1..n :
        /\ s[k].act \in {"BO_LOAD_DATA", "page"}
        /\ k = 1 => s[k].act = "BO_LOAD_DATA"
        /\ s[k].act = "BO_LOAD_DATA" => k + 1 \in 1..n
        /\ k + 1 \in 1..n => (s[k].act = "BO_LOAD_DATA" <=> s[k + 1].act = "page")
  <2>1. \A k \in 1..n :
          /\ a[k].act \in {"BO_LOAD_DATA", "page"}
          /\ k = 1 => a[k].act = "BO_LOAD_DATA"
          /\ a[k].act = "BO_LOAD_DATA" => k + 1 \in 1..n
          /\ k + 1 \in 1..n => (a[k].act = "BO_LOAD_DATA" <=> a[k + 1].act = "page")
    BY <1>1 DEF LoadSeq
  <2> QED
    BY <1>2, <2>1
<1>4. n + 1 \in DOMAIN s /\ n + 2 \in DOMAIN s /\ \A k \in 1..n : k \in DOMAIN s /\ k + 1 \in DOMAIN s /\ k + 2 \in DOMAIN s
  BY <1>2, <1>1
<1>5. ASSUME NEW k \in DOMAIN s
      PROVE  /\ k = 1 => s[k].act \notin Payloads
             /\ s[k].act \in {"BO_LOAD_DATA", "JOB_SUBMIT"} => k + 1 \in DOMAIN s
             /\ s[k].act = "DEL_FRAMEBUFFER" => Len(s) = 1
             /\ k + 1 \in DOMAIN s =>
                 /\ s[k].act = "BO_LOAD_DATA" <=> s[k + 1].act = "page"
                 /\ s[k].act = "JOB_SUBMIT" <=> s[k + 1].act = "gathers"
                 /\ s[k + 1].act = "relocs" => s[k].act = "gathers"
                 /\ WithRelocs(s[k]) => k + 2 \in DOMAIN s
             /\ k + 2 \in DOMAIN s =>
                 /\ s[k].act = "JOB_SUBMIT" => (WithRelocs(s[k]) <=> s[k + 2].act = "relocs")
                 /\ s[k + 2].act = "relocs" => /\ s[k + 2].gather_id = s[k + 1].id
                                               /\ s[k + 2].ctx_id = s[k + 1].ctx_id
  <2>1. CASE k \in 1..n
    <3>1. s[k].act \in {"BO_LOAD_DATA", "page"} /\ ~WithRelocs(s[k])
      BY <1>2, <1>3, <2>1 DEF WithRelocs
    <3>2. k + 1 \in 1..n \/ (k + 1 = n + 1 /\ s[k].act = "page")
      BY <1>2, <1>1, <1>3, <2>1
    <3>3. s[k + 1].act \in {"BO_LOAD_DATA", "page", "JOB_SUBMIT"}
      BY <1>2, <1>3, <3>2
    <3>4. k + 2 \in 1..n \/ k + 2 = n + 1 \/ k + 2 = n + 2
      <4>1. n \in Nat
        BY <1>1
      <4> QED
        BY <2>1, <4>1
    <3>5. s[k + 2].act # "relocs"
      BY <1>2, <1>3, <3>4
    <3>6. s[k].act = "BO_LOAD_DATA" <=> s[k + 1].act = "page"
      BY <1>2, <1>3, <2>1, <3>2
    <3> QED
      BY <1>2, <1>3, <1>4, <2>1, <3>1, <3>3, <3>5, <3>6 DEF Payloads
  <2>2. CASE k = n + 1
    <3>1. k + 1 = n + 2 /\ k + 2 = n + 3 /\ (n + 3 \in DOMAIN s <=> WithRelocs(s[n + 1]))
      BY <1>2, <1>1, <2>2
    <3>2. k = 1 => s[k].act \notin Payloads
      BY <1>2, <2>2 DEF Payloads
    <3> QED
      BY <1>2, <1>4, <2>2, <3>1, <3>2
  <2>3. CASE k = n + 2
    <3>1. k # 1 /\ k + 1 = n + 3 /\ k + 2 \notin DOMAIN s
      BY <1>2, <1>1, <2>3
    <3>2. n + 3 \in DOMAIN s => s[n + 3].act = "relocs"
      BY <1>2, <1>1
    <3> QED
      BY <1>2, <2>3, <3>1, <3>2 DEF WithRelocs
  <2>4. CASE k = n + 3
    <3>1. k # 1 /\ k + 1 \notin DOMAIN s /\ k + 2 \notin DOMAIN s /\ s[k].act = "relocs"
      BY <1>2, <1>1, <2>4
    <3> QED
      BY <3>1
  <2>5. k \in 1..n \/ k = n + 1 \/ k = n + 2 \/ k = n + 3
    BY <1>2, <1>1
  <2> QED
    BY <2>1, <2>2, <2>3, <2>4, <2>5
<1> QED
  BY <1>2, <1>5 DEF Complete

\* Capturing changes the checksums only.
LEMMA CapturedIs ==
  ASSUME NEW e, e = [x \in BoFields |-> e[x]]
  PROVE  LET r == Captured(e) IN
         /\ r = [x \in BoFields |-> r[x]] /\ r.id = e.id /\ r.fb_id = e.fb_id
         /\ DOMAIN r.chksum = DOMAIN e.chksum
<1> DEFINE ck == [p \in DOMAIN e.chksum |-> IF p \in PagesToLoad(e) THEN mem[e.data][p] ELSE e.chksum[p]]
           r == [[e EXCEPT !.captured = TRUE] EXCEPT !.chksum = ck]
<1>1. Captured(e) = e \/ Captured(e) = r
  BY DEF Captured, BoFields
<1>2. DOMAIN ck = DOMAIN e.chksum
  OBVIOUS
<1> HIDE DEF ck
<1>3. r = [x \in BoFields |-> r[x]] /\ r.id = e.id /\ r.fb_id = e.fb_id /\ r.chksum = ck
  BY DEF BoFields
<1> SUFFICES ASSUME NEW u, u = Captured(e)
             PROVE  /\ u = [x \in BoFields |-> u[x]] /\ u.id = e.id /\ u.fb_id = e.fb_id
                    /\ DOMAIN u.chksum = DOMAIN e.chksum
  OBVIOUS
<1>4. CASE u = e
  BY <1>4
<1>5. CASE u = r
  <2> HIDE DEF r
  <2> QED
    BY <1>2, <1>3, <1>5
<1> QED
  BY <1>1, <1>4, <1>5

\* The records of a job: the captures, the job, its gather and the relocations if it has any
LEMMA JobIs ==
  ASSUME NEW a, NEW S, NEW z, LoadSeq(a, S, z), NEW J, NEW G, NEW R,
         J.act = "JOB_SUBMIT", G.act = "gathers", R.act = "relocs",
         R.gather_id = G.id, R.ctx_id = G.ctx_id,
         NEW r, (r = <<>> /\ ~WithRelocs(J)) \/ (r = <<R>> /\ WithRelocs(J))
  PROVE  LET s == a \o <<J, G>> \o r IN
         /\ s \in Seq(Range(s)) /\ Complete(s)
         /\ \A c \in Range(s) : c \in Range(a) \/ c = J \/ c = G \/ (c = R /\ WithRelocs(J))
<1> SUFFICES ASSUME NEW s, s = a \o <<J, G>> \o r
             PROVE  /\ s \in Seq(Range(s)) /\ Complete(s)
                    /\ \A c \in Range(s) : c \in Range(a) \/ c = J \/ c = G \/ (c = R /\ WithRelocs(J))
  OBVIOUS
<1> DEFINE q == <<J, G>>
           u == a \o q
           n == Len(a)
<1>1. n \in Nat /\ DOMAIN a = 1..n /\ a \in Seq(Range(a))
  BY ListIs DEF LoadSeq
<1>2. q \in Seq(Range(q)) /\ Len(q) = 2 /\ q[1] = J /\ q[2] = G
  <2>1. q = [i \in 1..2 |-> q[i]]
    OBVIOUS
  <2>2. q \in Seq(Range(q))
    <3> HIDE DEF q
    <3> QED
      BY <2>1, IsList
  <2> QED
    BY <2>2
<1> HIDE DEF q
<1>3. /\ u \in Seq(Range(u)) /\ Len(u) = n + 2
      /\ \A i \in 1..n : u[i] = a[i]
      /\ \A j \in 1..2 : u[n + j] = q[j]
  <2>1. a \in Seq(Range(a)) /\ q \in Seq(Range(q))
    BY <1>1, <1>2
  <2>2. /\ u \in Seq(Range(u)) /\ Len(u) = Len(a) + Len(q)
        /\ \A i \in 1..Len(a) : u[i] = a[i]
        /\ \A j \in 1..Len(q) : u[Len(a) + j] = q[j]
    BY ONLY <2>1, ConcatList
  <2> QED
    BY <1>2, <2>2
<1>4. r \in Seq(Range(r)) /\ (r = <<>> \/ (Len(r) = 1 /\ r[1] = R))
  <2>1. <<>> \in Seq(Range(<<>>)) /\ <<R>> \in Seq(Range(<<R>>))
    BY OneRecord, NoRecord
  <2>2. CASE r = <<>>
    BY <2>1, <2>2
  <2>3. CASE r = <<R>>
    BY <2>1, <2>3
  <2> QED
    BY <2>2, <2>3
<1> HIDE DEF u
<1>5. /\ s \in Seq(Range(s)) /\ DOMAIN s = 1..(n + 2) + Len(r) /\ Len(s) = (n + 2) + Len(r)
      /\ \A i \in 1..n + 2 : s[i] = u[i]
      /\ \A j \in 1..Len(r) : s[(n + 2) + j] = r[j]
  <2>1. s = u \o r
    BY DEF u, q
  <2>2. /\ s \in Seq(Range(s)) /\ DOMAIN s = 1..Len(u) + Len(r) /\ Len(s) = Len(u) + Len(r)
        /\ \A i \in 1..Len(u) : s[i] = u[i]
        /\ \A j \in 1..Len(r) : s[Len(u) + j] = r[j]
    <3>1. u \in Seq(Range(u)) /\ r \in Seq(Range(r))
      BY <1>3, <1>4
    <3> QED
      BY ONLY <2>1, <3>1, ConcatList
  <2> QED
    BY <1>3, <2>2
<1> HIDE DEF n
<1>6. \A i \in 1..n : s[i] = a[i] /\ i \in 1..n + 2
  <2>1. \A i \in 1..n : i \in 1..n + 2
    BY <1>1
  <2> QED
    BY <1>3, <1>5, <2>1
<1>7. s[n + 1] = J /\ s[n + 2] = G
  <2>1. 1 \in 1..2 /\ 2 \in 1..2 /\ n + 1 \in 1..n + 2 /\ n + 2 \in 1..n + 2
    BY <1>1
  <2> QED
    BY <1>2, <1>3, <1>5, <2>1
<1>8. \/ DOMAIN s = 1..n + 2 /\ Len(s) = n + 2 /\ ~WithRelocs(J)
      \/ DOMAIN s = 1..n + 3 /\ Len(s) = n + 3 /\ WithRelocs(J) /\ s[n + 3] = R
  <2>1. CASE r = <<>> /\ ~WithRelocs(J)
    <3>1. Len(r) = 0 /\ n + 2 + 0 = n + 2
      BY <1>1, <2>1
    <3> QED
      BY <1>5, <2>1, <3>1
  <2>2. CASE r = <<R>> /\ WithRelocs(J)
    <3>1. Len(r) = 1 /\ r[1] = R /\ 1 \in 1..1 /\ n + 2 + 1 = n + 3
      BY <1>1, <2>2
    <3> QED
      BY <1>5, <2>2, <3>1
  <2> QED
    BY <2>1, <2>2
<1>9. Complete(s)
  <2>1. s[n + 1].act = "JOB_SUBMIT" /\ s[n + 2].act = "gathers"
    BY <1>7
  <2>2. \/ DOMAIN s = 1..n + 2 /\ Len(s) = n + 2 /\ ~WithRelocs(s[n + 1])
        \/ /\ DOMAIN s = 1..n + 3 /\ Len(s) = n + 3 /\ WithRelocs(s[n + 1])
           /\ s[n + 3].act = "relocs"
           /\ s[n + 3].gather_id = s[n + 2].id /\ s[n + 3].ctx_id = s[n + 2].ctx_id
    BY <1>7, <1>8
  <2>3. \A i \in 1..n : s[i] = a[i]
    BY <1>6
  <2> QED
    BY ONLY LoadSeq(a, S, z), <2>1, <2>2, <2>3, CompleteJob DEF n
<1>10. ASSUME NEW k \in DOMAIN s
       PROVE  s[k] \in Range(a) \/ s[k] = J \/ s[k] = G \/ (s[k] = R /\ WithRelocs(J))
  <2>1. k \in 1..n \/ k = n + 1 \/ k = n + 2 \/ (k = n + 3 /\ WithRelocs(J) /\ s[n + 3] = R)
    BY <1>1, <1>8
  <2>2. CASE k \in 1..n
    BY <1>1, <1>6, <2>2 DEF Range
  <2> QED
    BY <1>7, <2>1, <2>2
<1> QED
  BY <1>5, <1>9, <1>10 DEF Range

\* The loads of some of the buffers of a file
LEMMA CapturesAre ==
  ASSUME NEW t, ReplayInv(t), NEW f \in Files, NEW named,
         \A i \in DOMAIN bos[f] : IsFiniteSet(DOMAIN bos[f][i].chksum)
  PROVE  LoadSeq(FlattenSeq([i \in DOMAIN bos[f] |->
                               IF i \in named THEN Loads(f, bos[f][i]) ELSE <<>>]),
                 LiveIds(bos), program.compression)
<1> DEFINE ss == [i \in DOMAIN bos[f] |-> IF i \in named THEN Loads(f, bos[f][i]) ELSE <<>>]
<1>1. DOMAIN bos[f] = 1..Len(bos[f]) /\ Len(bos[f]) \in Nat
  <2>1. bos[f] \in Seq(Range(bos[f]))
    BY TablesAre DEF IsTable
  <2> QED
    BY <2>1, ListIs
<1>2. ss = [i \in 1..Len(bos[f]) |-> ss[i]] /\ DOMAIN ss = DOMAIN bos[f]
  BY <1>1
<1>3. \A i \in DOMAIN bos[f] : LoadSeq(ss[i], LiveIds(bos), program.compression)
  <2>1. ASSUME NEW i \in DOMAIN bos[f]
        PROVE  LoadSeq(ss[i], LiveIds(bos), program.compression)
    <3>1. LoadSeq(Loads(f, bos[f][i]), LiveIds(bos), program.compression)
      BY InLiveIds, LoadsAre
    <3> QED
      BY <3>1, NoLoads
  <2> QED
    BY <2>1
<1> HIDE DEF ss
<1>4. ss \in Seq(Range(ss))
  BY <1>1, <1>2, IsList
<1> QED
  BY <1>2, <1>3, <1>4, FlattenLoads DEF ss

\* The captures of a job change no id and no framebuffer.
LEMMA CapturesKeep ==
  ASSUME NEW t, ReplayInv(t), UNCHANGED <<repVars, rec_ctx, contexts>>, NEW f \in Files, NEW named,
         NEW r, r = [j \in DOMAIN bos[f] |-> IF j \in named THEN Captured(bos[f][j]) ELSE bos[f][j]],
         bos' = WithList(bos, f, r)
  PROVE  /\ ListsInv' /\ LiveIds(bos') = LiveIds(bos) /\ LiveCtxs' = LiveCtxs
         /\ LiveIds(contexts') = LiveIds(contexts)
         /\ \A e \in Files :
              /\ DOMAIN bos'[e] = DOMAIN bos[e]
              /\ \A k \in DOMAIN bos[e] : /\ bos'[e][k].id = bos[e][k].id
                                          /\ bos'[e][k].fb_id = bos[e][k].fb_id
                                          /\ DOMAIN bos'[e][k].chksum = DOMAIN bos[e][k].chksum
<1>1. /\ IsTable(bos) /\ UniqueIds(bos)
      /\ \A e \in Files : \A k \in DOMAIN bos[e] : bos[e][k] = [x \in BoFields |-> bos[e][k][x]]
  BY TablesAre
<1>2. DOMAIN bos' = Files /\ bos'[f] = r /\ \A e \in Files : e # f => bos'[e] = bos[e]
  BY <1>1 DEF WithList, IsTable
<1>3. ASSUME NEW k \in DOMAIN bos[f]
      PROVE  /\ r[k] = [x \in BoFields |-> r[k][x]] /\ r[k].id = bos[f][k].id
             /\ r[k].fb_id = bos[f][k].fb_id /\ DOMAIN r[k].chksum = DOMAIN bos[f][k].chksum
  <2>1. PICK e : e = bos[f][k]
    OBVIOUS
  <2>2. e = [x \in BoFields |-> e[x]]
    BY <1>1, <2>1
  <2>3. PICK u : u = Captured(e)
    OBVIOUS
  <2>4. u = [x \in BoFields |-> u[x]] /\ u.id = e.id /\ u.fb_id = e.fb_id /\ DOMAIN u.chksum = DOMAIN e.chksum
    BY <2>2, <2>3, CapturedIs
  <2>5. r[k] = u \/ r[k] = e
    BY <2>1, <2>3
  <2>6. CASE r[k] = u
    BY ONLY <2>1, <2>4, <2>6
  <2>7. CASE r[k] = e
    BY ONLY <2>1, <2>2, <2>7
  <2> QED
    BY <2>5, <2>6, <2>7
<1>4. DOMAIN r = DOMAIN bos[f] /\ r \in Seq(Range(r))
  <2>1. DOMAIN bos[f] = 1..Len(bos[f]) /\ Len(bos[f]) \in Nat
    BY <1>1, ListIs DEF IsTable
  <2>2. r = [j \in 1..Len(bos[f]) |-> r[j]] /\ DOMAIN r = DOMAIN bos[f]
    BY <2>1
  <2> QED
    BY ONLY <2>1, <2>2, IsList
<1>5. \A e \in Files :
        /\ DOMAIN bos'[e] = DOMAIN bos[e]
        /\ \A k \in DOMAIN bos[e] : /\ bos'[e][k].id = bos[e][k].id
                                    /\ bos'[e][k].fb_id = bos[e][k].fb_id
                                    /\ DOMAIN bos'[e][k].chksum = DOMAIN bos[e][k].chksum
  BY ONLY <1>2, <1>3, <1>4
<1>6. \A e \in Files : \A k \in DOMAIN bos'[e] : bos'[e][k] = [x \in BoFields |-> bos'[e][k][x]]
  <2>1. ASSUME NEW e \in Files, NEW k \in DOMAIN bos'[e]
        PROVE  bos'[e][k] = [x \in BoFields |-> bos'[e][k][x]]
    <3>1. CASE e = f
      <4>1. k \in DOMAIN bos[f] /\ bos'[e][k] = r[k]
        BY <1>2, <1>4, <3>1
      <4>2. r[k] = [x \in BoFields |-> r[k][x]]
        BY ONLY <1>3, <4>1
      <4> QED
        BY ONLY <4>1, <4>2
    <3>2. CASE e # f
      BY <1>1, <1>2, <3>2
    <3> QED
      BY <3>1, <3>2
  <2> QED
    BY <2>1
<1>7. IsTable(bos')
  BY <1>1, <1>2, <1>4 DEF IsTable
<1>8. UniqueIds(bos') /\ LiveIds(bos') = LiveIds(bos)
  <2>1. \A e \in Files : /\ DOMAIN bos'[e] = DOMAIN bos[e]
                        /\ \A k \in DOMAIN bos[e] : bos'[e][k].id = bos[e][k].id
    BY <1>5
  <2> QED
    BY ONLY <1>1, <2>1, SameIds
<1>9. \A e \in Files : rec_ctx[e] = None => bos'[e] = <<>> /\ contexts'[e] = <<>>
  <2>1. \A e \in Files : rec_ctx[e] = None => bos[e] = <<>> /\ contexts[e] = <<>>
    BY TablesAre
  <2>2. ASSUME NEW e \in Files, rec_ctx[e] = None
        PROVE  bos'[e] = <<>>
    <3>1. bos[e] = <<>> /\ DOMAIN bos'[e] = DOMAIN bos[e] /\ bos'[e] \in Seq(Range(bos'[e]))
      <4>1. DOMAIN bos'[e] = DOMAIN bos[e]
        BY ONLY <1>5, e \in Files
      <4> QED
        BY <1>7, <2>1, <2>2, <4>1 DEF IsTable
    <3>2. DOMAIN bos'[e] = {}
      BY <3>1
    <3> QED
      BY ONLY <3>1, <3>2, EmptyList
  <2> QED
    BY <2>1, <2>2
<1>10. ListsInv'
  BY <1>6, <1>7, <1>8, <1>9, TablesAre, ListsKept
<1>11. LiveCtxs' = LiveCtxs /\ LiveIds(contexts') = LiveIds(contexts)
  BY DEF LiveCtxs, Recorded
<1> QED
  BY <1>5, <1>8, <1>10, <1>11

\* The handles that the hook of SUBMIT has found
LEMMA Found ==
  ASSUME NEW f, NEW h, file_lookup_bo(f, h) # {}
  PROVE  (CHOOSE i \in DOMAIN bos[f] : i \in file_lookup_bo(f, h)) \in DOMAIN bos[f]
<1>1. \E i \in DOMAIN bos[f] : i \in file_lookup_bo(f, h)
  BY DEF file_lookup_bo, IndexOf
<1> QED
  BY <1>1

\* A job is written, and the shadow keeps its ids.
LEMMA WritesJob ==
  ASSUME NEW t, Threads = {t}, ReplayInv(t), UNCHANGED <<program, repVars, rec_ctx, ctx_cnt, inited, enabled>>,
         out[t] = <<>>, call[t].op = "none", NEW f \in Files, bos[f] # <<>>,
         NEW s, out' = [out EXCEPT ![t] = s], s \in Seq(Range(s)), Complete(s),
         \A c \in Range(s) : /\ c.act \in {"BO_LOAD_DATA", "page", "JOB_SUBMIT", "gathers", "relocs"}
                             /\ RecordInv(c)',
         ListsInv', LiveIds(bos') = LiveIds(bos), LiveCtxs' = LiveCtxs,
         LiveIds(contexts') = LiveIds(contexts),
         \A e \in Files :
           /\ DOMAIN bos'[e] = DOMAIN bos[e]
           /\ \A k \in DOMAIN bos[e] : /\ bos'[e][k].id = bos[e][k].id
                                       /\ bos'[e][k].fb_id = bos[e][k].fb_id
                                       /\ DOMAIN bos'[e][k].chksum = DOMAIN bos[e][k].chksum,
         DOMAIN call' = Threads, call'[t].op = "submit", call'[t].file = f
  PROVE  ReplayInv(t)'
<1>1. enabled
  BY RecordedEnabled
<1>2. \A x \in {"BO_CREATE", "BO_DESTROY", "CTX_CREATE", "CTX_DESTROY", "JOB_CTX_CREATE", "JOB_CTX_DESTROY"} :
        RecordsOf(s, x) = {} /\ IdsIn(s, x) = {}
  <2>1. \A k \in DOMAIN s : s[k].act \in {"BO_LOAD_DATA", "page", "JOB_SUBMIT", "gathers", "relocs"}
    BY DEF Range
  <2>2. \A x \in {"BO_CREATE", "BO_DESTROY", "CTX_CREATE", "CTX_DESTROY", "JOB_CTX_CREATE", "JOB_CTX_DESTROY"} :
          RecordsOf(s, x) = {}
    BY ONLY <2>1 DEF RecordsOf
  <2> QED
    BY <2>2 DEF IdsIn
<1>3. /\ Mirror(IdList(bo_list), <<>>, LiveIds(bos), "BO_CREATE", "BO_DESTROY")
      /\ Mirror(ctx_list, <<>>, LiveCtxs, "CTX_CREATE", "CTX_DESTROY")
      /\ Mirror(job_ctx_list, <<>>, LiveIds(contexts), "JOB_CTX_CREATE", "JOB_CTX_DESTROY")
  BY AllRead
<1>4. /\ Mirror(IdList(bo_list), s, LiveIds(bos'), "BO_CREATE", "BO_DESTROY")
      /\ Mirror(ctx_list, s, LiveCtxs', "CTX_CREATE", "CTX_DESTROY")
      /\ Mirror(job_ctx_list, s, LiveIds(contexts'), "JOB_CTX_CREATE", "JOB_CTX_DESTROY")
  <2>1. Mirror(IdList(bo_list), s, LiveIds(bos) \ IdsIn(s, "BO_DESTROY"), "BO_CREATE", "BO_DESTROY")
    BY <1>2, <1>3, MirrorWrite
  <2>2. Mirror(ctx_list, s, LiveCtxs \ IdsIn(s, "CTX_DESTROY"), "CTX_CREATE", "CTX_DESTROY")
    BY <1>2, <1>3, MirrorWrite
  <2>3. Mirror(job_ctx_list, s, LiveIds(contexts) \ IdsIn(s, "JOB_CTX_DESTROY"),
               "JOB_CTX_CREATE", "JOB_CTX_DESTROY")
    BY <1>2, <1>3, MirrorWrite
  <2> QED
    BY <1>2, <2>1, <2>2, <2>3
<1>5. \A e \in Files : \A k \in DOMAIN bos'[e] :
        bos'[e][k].fb_id # None =>
          \/ /\ rec_ctx'[e] = rec_ctx[e]
             /\ \E j \in DOMAIN bos[e] : bos[e][j].id = bos'[e][k].id /\ bos[e][j].fb_id # None
          \/ \E c \in Range(s) : /\ c.act = "ADD_FRAMEBUFFER"
                                 /\ c.bo_id = bos'[e][k].id /\ c.ctx_id = rec_ctx'[e]
  <2>1. rec_ctx' = rec_ctx
    OBVIOUS
  <2>2. ASSUME NEW e \in Files, NEW k \in DOMAIN bos'[e], bos'[e][k].fb_id # None
        PROVE  \E j \in DOMAIN bos[e] : bos[e][j].id = bos'[e][k].id /\ bos[e][j].fb_id # None
    BY <2>2
  <2> QED
    BY ONLY <2>1, <2>2
<1>6. OpenInv(t)'
  BY TablesAre, OpenStays
<1>7. StartInv(t)'
  BY <1>1, StartStays
<1>8. \A c \in Range(s) : RecordInv(c)'
  OBVIOUS
<1>9. UNCHANGED repVars
  OBVIOUS
<1> QED
  BY ONLY Threads = {t}, ReplayInv(t), out[t] = <<>>, out' = [out EXCEPT ![t] = s], s \in Seq(Range(s)),
          Complete(s), ListsInv', <1>4, <1>5, <1>6, <1>7, <1>8, <1>9, ProgramStep

\* The hook of SUBMIT: what it writes, and when it kills the program
LEMMA Submits ==
  ASSUME NEW t, Threads = {t}, ReplayInv(t), SizesInv(t), UNCHANGED <<program, repVars>>,
         NEW f \in Files, NEW c, NEW g, NEW T, NEW w, Submit(t, f, c, g, T, w)
  PROVE  ReplayInv(t)'
<1>1. out[t] = <<>> /\ call[t].op = "none" /\ DOMAIN call = Threads
  <2>1. Idle(t)
    BY Zenon DEF Submit
  <2> QED
    BY <2>1, IdleIs
<1> DEFINE hs == SetToSeq(T)
           At(h) == CHOOSE i \in DOMAIN bos[f] : i \in file_lookup_bo(f, h)
           named == {At(h) : h \in T \cup {g}}
           ids == [i \in DOMAIN hs |-> bos[f][At(hs[i])].id]
           a == FlattenSeq([i \in DOMAIN bos[f] |->
                              IF i \in named THEN Loads(f, bos[f][i]) ELSE <<>>])
           job(i) == [act |-> "JOB_SUBMIT", code |-> 13,
                      job_ctx_id |-> contexts[f][i].id, num_relocs |-> Len(hs)]
           gather == [act |-> "gathers", id |-> bos[f][At(g)].id, ctx_id |-> rec_ctx[f],
                      code |-> bos[f][At(g)].id]
           relocs == [act |-> "relocs", ids |-> ids, ctx_id |-> rec_ctx[f], write |-> w,
                      gather_id |-> bos[f][At(g)].id, code |-> 0]
           r == [j \in DOMAIN bos[f] |-> IF j \in named THEN Captured(bos[f][j]) ELSE bos[f][j]]
<1>2. T \cup {g} \subseteq program.handles
  BY Zenon DEF Submit
<1>3. \/ Abort("invalid handle") \/ Abort("cmdbuf not mapped") \/ Abort("deflate failed")
      \/ \E i \in file_lookup_context(f, c) :
           /\ \A h \in T \cup {g} : file_lookup_bo(f, h) # {}
           /\ bos' = [bos EXCEPT ![f] =
                [j \in DOMAIN @ |-> IF j \in named THEN Captured(@[j]) ELSE @[j]]]
           /\ call' = [call EXCEPT ![t] = Submitting(f, c, T \cup {g}, w, hs)]
           /\ Write(t, a \o <<job(i), gather>> \o IF T = {} THEN <<>> ELSE <<relocs>>)
           /\ UNCHANGED <<kernel, rec_ctx, contexts, ctx_cnt, bos_cnt, job_ctx_cnt>>
  BY Zenon DEF Submit
<1>4. ASSUME NEW why, Abort(why)
      PROVE  ReplayInv(t)'
  BY <1>4, Aborts
<1>5. ASSUME NEW i \in file_lookup_context(f, c),
             \A h \in T \cup {g} : file_lookup_bo(f, h) # {},
             bos' = [bos EXCEPT ![f] =
                [j \in DOMAIN @ |-> IF j \in named THEN Captured(@[j]) ELSE @[j]]],
             call' = [call EXCEPT ![t] = Submitting(f, c, T \cup {g}, w, hs)],
             Write(t, a \o <<job(i), gather>> \o IF T = {} THEN <<>> ELSE <<relocs>>),
             UNCHANGED <<rec_ctx, contexts, ctx_cnt>>
      PROVE  ReplayInv(t)'
  <2>1. i \in DOMAIN contexts[f]
    BY <1>5 DEF file_lookup_context, IndexOf
  <2>2. \A h \in T \cup {g} : At(h) \in DOMAIN bos[f]
    BY <1>5, Found
  <2>3. bos[f][At(g)].id \in LiveIds(bos) /\ bos[f] # <<>>
    <3>1. At(g) \in DOMAIN bos[f]
      BY <2>2
    <3> HIDE DEF At
    <3>2. bos[f][At(g)].id \in LiveIds(bos)
      BY <3>1, InLiveIds
    <3> QED
      BY <3>1, <3>2
  <2>4. /\ Len(hs) \in Nat /\ (Len(hs) = 0 <=> T = {})
        /\ \A k \in DOMAIN hs : hs[k] \in T
    <3>1. program \in Programs /\ IsFiniteSet(program.handles)
      BY ProgramsAssumption DEF SizesInv
    <3>2. IsFiniteSet(T)
      BY <1>2, <3>1, FS_Subset
    <3> QED
      BY <3>2, SetToSeqIs
  <2> HIDE DEF hs, At
  <2>5. Range(ids) \subseteq LiveIds(bos)
    <3>1. ASSUME NEW k \in DOMAIN hs
          PROVE  bos[f][At(hs[k])].id \in LiveIds(bos)
      <4>1. At(hs[k]) \in DOMAIN bos[f]
        BY <2>2, <2>4
      <4> QED
        BY <4>1, InLiveIds
    <3> QED
      BY <3>1 DEF Range
  <2>6. LoadSeq(a, LiveIds(bos), program.compression)
    <3>1. \A k \in DOMAIN bos[f] : IsFiniteSet(DOMAIN bos[f][k].chksum)
      BY DEF SizesInv
    <3> HIDE DEF named
    <3> QED
      BY ONLY ReplayInv(t), f \in Files, <3>1, CapturesAre
  <2>7. bos' = WithList(bos, f, r)
    BY <1>5, TablesAre DEF WithList, IsTable
  <2> HIDE DEF a, ids, named
  <2>8. PICK J, G, R, q :
          /\ J = job(i) /\ G = gather /\ R = relocs
          /\ q = IF T = {} THEN <<>> ELSE <<R>>
    OBVIOUS
  <2>9. /\ J.act = "JOB_SUBMIT" /\ J.job_ctx_id = contexts[f][i].id /\ J.num_relocs = Len(hs)
        /\ G.act = "gathers" /\ G.id = bos[f][At(g)].id /\ G.ctx_id = rec_ctx[f]
        /\ R.act = "relocs" /\ R.ids = ids /\ R.ctx_id = rec_ctx[f] /\ R.gather_id = G.id
    BY <2>8
  <2>10. out' = [out EXCEPT ![t] = a \o <<J, G>> \o q] /\ UNCHANGED <<inited, enabled>>
    BY <1>5, <2>8 DEF Write
  <2>11. WithRelocs(J) <=> T # {}
    BY <2>4, <2>9 DEF WithRelocs
  <2>12. (q = <<>> /\ ~WithRelocs(J)) \/ (q = <<R>> /\ WithRelocs(J))
    BY <2>8, <2>11
  <2>13. /\ DOMAIN call' = Threads /\ call'[t].op = "submit" /\ call'[t].file = f
    BY <1>1, <1>5 DEF Submitting
  <2>14. UNCHANGED <<program, repVars, rec_ctx, contexts, ctx_cnt>>
    BY <1>5
  <2>15. PICK n, s, l : n = named /\ s = a \o <<J, G>> \o q /\ l = r
    OBVIOUS
  <2>16. /\ l = [j \in DOMAIN bos[f] |-> IF j \in n THEN Captured(bos[f][j]) ELSE bos[f][j]]
         /\ bos' = WithList(bos, f, l) /\ out' = [out EXCEPT ![t] = s]
    BY <2>7, <2>10, <2>15
  <2> HIDE DEF gather, relocs, job, r
  <2>17. /\ ListsInv' /\ LiveIds(bos') = LiveIds(bos) /\ LiveCtxs' = LiveCtxs
         /\ LiveIds(contexts') = LiveIds(contexts)
         /\ \A e \in Files :
              /\ DOMAIN bos'[e] = DOMAIN bos[e]
              /\ \A k \in DOMAIN bos[e] : /\ bos'[e][k].id = bos[e][k].id
                                          /\ bos'[e][k].fb_id = bos[e][k].fb_id
                                          /\ DOMAIN bos'[e][k].chksum = DOMAIN bos[e][k].chksum
    <3>1. UNCHANGED <<repVars, rec_ctx, contexts>>
      BY <2>14
    <3> QED
      BY ONLY ReplayInv(t), f \in Files, <2>16, <3>1, CapturesKeep
  <2>18. /\ s \in Seq(Range(s)) /\ Complete(s)
         /\ \A d \in Range(s) : d \in Range(a) \/ d = J \/ d = G \/ (d = R /\ WithRelocs(J))
    <3>1. R.ctx_id = G.ctx_id
      BY <2>9
    <3>2. LET u == a \o <<J, G>> \o q IN
          /\ u \in Seq(Range(u)) /\ Complete(u)
          /\ \A d \in Range(u) : d \in Range(a) \/ d = J \/ d = G \/ (d = R /\ WithRelocs(J))
      BY ONLY <2>6, <2>9, <2>12, <3>1, JobIs
    <3> QED
      BY <2>15, <3>2
  <2>19. ASSUME NEW d \in Range(s)
         PROVE  /\ d.act \in {"BO_LOAD_DATA", "page", "JOB_SUBMIT", "gathers", "relocs"}
                /\ RecordInv(d)'
    <3>1. CASE d \in Range(a)
      <4>1. /\ d.act \in {"BO_LOAD_DATA", "page"}
            /\ d.act = "BO_LOAD_DATA" => d.id \in LiveIds(bos)
            /\ d.act = "page" => d.packed \in {"none", program.compression}
        BY <2>6, <3>1 DEF LoadSeq, Range
      <4> QED
        BY <2>17, <4>1 DEF RecordInv, Code, Payloads
    <3>2. CASE d = J
      <4>1. contexts[f][i].id \in LiveIds(contexts) /\ d.num_relocs \in Nat
        BY <2>1, <2>4, <2>9, <3>2, InLiveIds
      <4> QED
        BY <2>9, <2>17, <3>2, <4>1 DEF RecordInv, Code, Payloads
    <3>3. CASE d = G
      BY <2>3, <2>9, <2>17, <3>3 DEF RecordInv, Code, Payloads
    <3>4. CASE d = R
      <4>1. rec_ctx[f] \in LiveCtxs
        BY <2>3, RecordedEnabled DEF LiveCtxs
      <4> QED
        BY <2>5, <2>9, <2>17, <3>4, <4>1 DEF RecordInv, Code, Payloads
    <3> QED
      BY <2>18, <3>1, <3>2, <3>3, <3>4
  <2>20. UNCHANGED <<program, repVars, rec_ctx, ctx_cnt, inited, enabled>>
    BY <2>10, <2>14
  <2> QED
    BY ONLY Threads = {t}, ReplayInv(t), f \in Files, <1>1, <2>3, <2>13, <2>16, <2>17, <2>18, <2>19, <2>20,
            WritesJob
<1> QED
  <2> HIDE DEF hs, named, a, job, gather, relocs
  <2> QED
    BY <1>3, <1>4, <1>5, Zenon

-----------------------------------------------------------------------------
(* Finitely many pages *)

\* A call other than the creation of a buffer begins or ends; the buffers stay.
LEMMA SizesStay ==
  ASSUME NEW t, SizesInv(t), UNCHANGED <<program, mem, bos>>, call' = call \/ call'[t].op # "create"
  PROVE  SizesInv(t)'
<1>1. call'[t].op = "create" => call'[t].obj \in Objs
  BY DEF SizesInv
<1> QED
  BY <1>1 DEF SizesInv

\* The checksums that are left are those of buffers that were there.
LEMMA SizesLeft ==
  ASSUME NEW t, SizesInv(t), UNCHANGED <<program, mem>>, call'[t].op # "create",
         \A f \in Files : \A k \in DOMAIN bos'[f] :
           \E j \in DOMAIN bos[f] : DOMAIN bos'[f][k].chksum = DOMAIN bos[f][j].chksum
  PROVE  SizesInv(t)'
<1>1. \A f \in Files : \A k \in DOMAIN bos'[f] : IsFiniteSet(DOMAIN bos'[f][k].chksum)
  BY DEF SizesInv
<1> QED
  BY <1>1 DEF SizesInv

\* An abort changes no size.
LEMMA SizesAbort ==
  ASSUME NEW t \in Threads, ReplayInv(t), SizesInv(t), UNCHANGED program, NEW why, Abort(why)
  PROVE  SizesInv(t)'
<1>1. UNCHANGED <<program, mem, bos, call>>
  BY DEF Abort, kernel, shadow
<1> QED
  BY <1>1 DEF SizesInv

\* One entry is edited, and keeps its checksums.
LEMMA SizesEdit ==
  ASSUME NEW t, ReplayInv(t), SizesInv(t), UNCHANGED <<program, mem>>, call'[t].op # "create",
         NEW f \in Files, NEW i \in DOMAIN bos[f],
         NEW b, b.id = bos[f][i].id, b.chksum = bos[f][i].chksum, bos' = WithEntry(bos, f, i, b)
  PROVE  SizesInv(t)'
<1>1. IsTable(bos) /\ UniqueIds(bos)
  BY TablesAre
<1>2. /\ bos'[f][i] = b
      /\ \A e \in Files : DOMAIN bos'[e] = DOMAIN bos[e]
      /\ \A e \in Files : \A k \in DOMAIN bos[e] : e # f \/ k # i => bos'[e][k] = bos[e][k]
  BY ONLY <1>1, f \in Files, i \in DOMAIN bos[f], b.id = bos[f][i].id,
          bos' = WithEntry(bos, f, i, b), EditedEntries
<1>3. ASSUME NEW e \in Files, NEW k \in DOMAIN bos'[e]
      PROVE  k \in DOMAIN bos[e] /\ DOMAIN bos'[e][k].chksum = DOMAIN bos[e][k].chksum
  <2>1. CASE e = f /\ k = i
    BY <1>2, <2>1
  <2>2. CASE e # f \/ k # i
    BY <1>2, <2>2
  <2> QED
    BY <2>1, <2>2
<1>4. \A e \in Files : \A k \in DOMAIN bos'[e] :
        \E j \in DOMAIN bos[e] : DOMAIN bos'[e][k].chksum = DOMAIN bos[e][j].chksum
  BY <1>3
<1> QED
  BY <1>4, SizesLeft

\* The calls that leave the buffers and their shadow alone
LEMMA SizesOther ==
  ASSUME NEW t \in Threads, ReplayInv(t), SizesInv(t), UNCHANGED program,
         NEW f, NEW h, NEW b,
         \/ OpenFile(t, f) \/ CloseFd(t, f) \/ Started(t) \/ Counted(t)
         \/ GemMmap(t, f, h) \/ GemClose(t, f, h) \/ BadHandle(t, f, h) \/ AddFb(t, f, h, b)
         \/ SetFlags(t, f, h) \/ Display(t, f, b) \/ FbKernel(t)
         \/ OpenChannel(t, f, h) \/ CloseChannel(t, f, h)
         \/ OpenChannelLeave(t) \/ CloseChannelLeave(t)
  PROVE  SizesInv(t)'
<1>1. DOMAIN call = Threads
  BY TablesAre
<1>2. ASSUME UNCHANGED <<mem, bos>>, call' = call \/ call'[t].op # "create"
      PROVE  SizesInv(t)'
  BY <1>2, SizesStay
<1>3. ASSUME UNCHANGED <<mem, bos>>, NEW g, NEW u, NEW s, Return(t, g, u, s)
      PROVE  SizesInv(t)'
  <2>1. call' = [call EXCEPT ![t] = NoCall] \/ call' = [call EXCEPT ![t] = Call("return", g, None, None, u)]
    BY <1>3 DEF Return
  <2>2. call'[t].op # "create"
    BY <1>1, <2>1, CallFields
  <2> QED
    BY <1>2, <1>3, <2>2
<1>4. CASE OpenFile(t, f)
  <2>1. UNCHANGED <<mem, bos>>
    BY <1>4 DEF OpenFile, kernel
  <2>2. \/ call' = call \/ call' = [call EXCEPT ![t] = Counting(f, ctx_cnt)]
        \/ call' = [call EXCEPT ![t] = Call("start", f, None, None, {})]
    BY <1>4 DEF OpenFile, NewContext, record_start
  <2>3. call' = call \/ call'[t].op # "create"
    BY <1>1, <2>2, CallFields
  <2> QED
    BY <1>2, <2>1, <2>3
<1>5. CASE Started(t)
  <2>1. UNCHANGED <<mem, bos>> /\ call' = [call EXCEPT ![t] = Counting(call[t].file, ctx_cnt)]
    BY <1>5 DEF Started, NewContext, kernel, shadow
  <2>2. call'[t].op # "create"
    BY <1>1, <2>1, CallFields
  <2> QED
    BY <1>2, <2>1, <2>2
<1>6. CASE Counted(t)
  <2>1. UNCHANGED <<mem, bos>> /\ call' = [call EXCEPT ![t] = Call("opening", call[t].file, None, None, {})]
    BY <1>6 DEF Counted, kernel
  <2>2. call'[t].op # "create"
    BY <1>1, <2>1, CallFields
  <2> QED
    BY <1>2, <2>1, <2>2
<1>7. CASE GemMmap(t, f, h)
  <2>1. UNCHANGED <<mem, bos>> /\ call' = [call EXCEPT ![t] = Call("mmap", f, h, gem[f][h], {h})]
    BY <1>7 DEF GemMmap, Entered, kernel, shadow
  <2>2. call'[t].op # "create"
    BY <1>1, <2>1, CallFields
  <2> QED
    BY <1>2, <2>1, <2>2
<1>8. CASE GemClose(t, f, h)
  <2>1. UNCHANGED <<mem, bos>> /\ call' = [call EXCEPT ![t] = Call("close", f, h, None, {})]
    BY <1>8 DEF GemClose, Entered, shadow
  <2>2. call'[t].op # "create"
    BY <1>1, <2>1, CallFields
  <2> QED
    BY <1>2, <2>1, <2>2
<1>9. CASE BadHandle(t, f, h)
  <2>1. PICK op \in {"mmap", "close", "addfb"} : Entered(t, Call(op, f, h, None, {}))
    BY <1>9, Zenon DEF BadHandle
  <2>2. UNCHANGED <<mem, bos>> /\ call' = [call EXCEPT ![t] = Call(op, f, h, None, {})]
    BY <1>9, <2>1 DEF BadHandle, Entered, kernel, shadow
  <2>3. call'[t].op # "create"
    BY <1>1, <2>2, CallFields
  <2> QED
    BY <1>2, <2>2, <2>3
<1>10. CASE AddFb(t, f, h, b)
  <2>1. UNCHANGED <<mem, bos>> /\ call' = [call EXCEPT ![t] = Call("addfb", f, h, b, {h})]
    BY <1>10 DEF AddFb, Entered, shadow
  <2>2. call'[t].op # "create"
    BY <1>1, <2>1, CallFields
  <2> QED
    BY <1>2, <2>1, <2>2
<1>11. CASE SetFlags(t, f, h)
  <2>1. Abort("invalid handle") \/ (Return(t, f, {h}, <<h>>) /\ UNCHANGED <<kernel, shadow>>)
    BY <1>11, Zenon DEF SetFlags
  <2>2. CASE Abort("invalid handle")
    BY <2>2, SizesAbort, Zenon
  <2>3. CASE Return(t, f, {h}, <<h>>) /\ UNCHANGED <<kernel, shadow>>
    <3>1. UNCHANGED <<mem, bos>>
      BY <2>3 DEF kernel, shadow
    <3> QED
      BY <1>3, <2>3, <3>1
  <2> QED
    BY <2>1, <2>2, <2>3, Zenon
<1>12. CASE Display(t, f, b)
  <2>1. UNCHANGED <<mem, bos>> /\ call' = [call EXCEPT ![t] = Call("display", f, None, b, {})]
    BY <1>12 DEF Display, kernel, shadow
  <2>2. call'[t].op # "create"
    BY <1>1, <2>1, CallFields
  <2> QED
    BY <1>2, <2>1, <2>2
<1>13. CASE FbKernel(t)
  <2>1. UNCHANGED <<mem, bos>> /\ call' = [call EXCEPT ![t] = NoCall]
    BY <1>13 DEF FbKernel, shadow
  <2>2. call'[t].op # "create"
    BY <1>1, <2>1, CallFields
  <2> QED
    BY <1>2, <2>1, <2>2
<1>14. CASE OpenChannel(t, f, h)
  <2>1. UNCHANGED <<mem, bos>> /\ call' = [call EXCEPT ![t] = Call("open_channel", f, h, None, {})]
    BY <1>14 DEF OpenChannel, Entered, kernel, shadow
  <2>2. call'[t].op # "create"
    BY <1>1, <2>1, CallFields
  <2> QED
    BY <1>2, <2>1, <2>2
<1>15. CASE CloseChannel(t, f, h)
  <2>1. UNCHANGED <<mem, bos>> /\ call' = [call EXCEPT ![t] = Call("close_channel", f, h, None, {})]
    BY <1>15 DEF CloseChannel, Entered, kernel, shadow
  <2>2. call'[t].op # "create"
    BY <1>1, <2>1, CallFields
  <2> QED
    BY <1>2, <2>1, <2>2
<1>16. CASE OpenChannelLeave(t) \/ CloseChannelLeave(t)
  <2>1. UNCHANGED <<mem, bos>>
    BY <1>16 DEF OpenChannelLeave, CloseChannelLeave, kernel
  <2>2. \E s : Finish(t, s)
    BY <1>16, Zenon DEF OpenChannelLeave, CloseChannelLeave
  <2>3. \E s : Return(t, call[t].file, call[t].uses, s)
    BY <2>2 DEF Finish
  <2> QED
    BY <1>3, <2>1, <2>3
<1>17. CASE CloseFd(t, f)
  BY <1>17, SizesStay DEF CloseFd, shadow
<1> QED
  BY <1>4, <1>5, <1>6, <1>7, <1>8, <1>9, <1>10, <1>11, <1>12, <1>13, <1>14, <1>15, <1>16, <1>17

\* The calls that change the contents of buffers
LEMMA SizesWritten ==
  ASSUME NEW t, Threads = {t}, ReplayInv(t), SizesInv(t), UNCHANGED program,
         NEW f, NEW h, NEW o, NEW p, NEW v,
         (o \in Objs /\ GemCreate(t, f, h, o)) \/ CpuWrite(t, f, h, p, v) \/ SubmitKernel(t)
  PROVE  SizesInv(t)'
<1>1. DOMAIN mem = Objs /\ (\A x \in Objs : IsFiniteSet(DOMAIN mem[x])) /\ program \in Programs
  BY DEF SizesInv
<1>2. DOMAIN call = Threads
  BY TablesAre
<1>3. ASSUME UNCHANGED bos, DOMAIN mem' = Objs, \A x \in Objs : IsFiniteSet(DOMAIN mem'[x]),
             call'[t].op = "create" => call'[t].obj \in Objs
      PROVE  SizesInv(t)'
  BY <1>1, <1>3 DEF SizesInv
<1>4. ASSUME NEW x, NEW y, NEW z, mem' = [mem EXCEPT ![x][y] = z]
      PROVE  DOMAIN mem' = Objs /\ \A u \in Objs : IsFiniteSet(DOMAIN mem'[u])
  <2>1. DOMAIN mem' = Objs
    BY <1>1, <1>4
  <2>2. \A u \in Objs : DOMAIN mem'[u] = DOMAIN mem[u]
    BY <1>1, <1>4
  <2> QED
    BY <1>1, <2>1, <2>2
<1>5. CASE o \in Objs /\ GemCreate(t, f, h, o)
  <2>1. UNCHANGED bos /\ call' = [call EXCEPT ![t] = Call("create", f, h, o, {h})]
    BY <1>5 DEF GemCreate, Entered, shadow
  <2>2. call'[t].op = "create" => call'[t].obj \in Objs
    BY <1>2, <1>5, <2>1, CallFields
  <2>3. \/ \E n \in program.sizes : mem' = [mem EXCEPT ![o] = [q \in 1..n |-> Zero]]
        \/ mem' = mem
    BY <1>5, Zenon DEF GemCreate
  <2>4. ASSUME NEW n \in program.sizes, mem' = [mem EXCEPT ![o] = [q \in 1..n |-> Zero]]
        PROVE  DOMAIN mem' = Objs /\ \A u \in Objs : IsFiniteSet(DOMAIN mem'[u])
    <3>1. n \in Nat
      BY <1>1, ProgramsAssumption
    <3>2. IsFiniteSet(1..n)
      BY <3>1, FS_Interval
    <3>3. DOMAIN mem' = Objs /\ \A u \in Objs : DOMAIN mem'[u] = DOMAIN mem[u] \/ DOMAIN mem'[u] = 1..n
      BY <1>1, <1>5, <2>4
    <3> QED
      BY <1>1, <3>2, <3>3
  <2>5. DOMAIN mem' = Objs /\ \A u \in Objs : IsFiniteSet(DOMAIN mem'[u])
    BY <1>1, <2>3, <2>4
  <2> QED
    BY <1>3, <2>1, <2>2, <2>5
<1>6. CASE CpuWrite(t, f, h, p, v)
  <2>1. UNCHANGED <<bos, call>> /\ mem' = [mem EXCEPT ![gem[f][h]][p] = v]
    BY <1>6 DEF CpuWrite, shadow
  <2>2. call'[t].op = "create" => call'[t].obj \in Objs
    BY <2>1 DEF SizesInv
  <2> QED
    BY <1>3, <1>4, <2>1, <2>2
<1>7. CASE SubmitKernel(t)
  <2>1. UNCHANGED bos /\ call' = [call EXCEPT ![t] = NoCall]
    BY <1>7, Zenon DEF SubmitKernel, shadow
  <2>2. call'[t].op # "create"
    BY <1>2, <2>1, CallFields
  <2>3. \/ UNCHANGED <<mem, rendered>>
        \/ mem' = [mem EXCEPT ![gem[call[t].file][call[t].order[call[t].write.target]]][call[t].write.page]
                                = call[t].write.data]
    BY <1>7, Zenon DEF SubmitKernel
  <2>4. CASE UNCHANGED <<mem, rendered>>
    BY <1>1, <1>3, <2>1, <2>2, <2>4
  <2>5. ASSUME NEW x, NEW y, NEW z, mem' = [mem EXCEPT ![x][y] = z]
        PROVE  SizesInv(t)'
    <3>1. DOMAIN mem' = Objs /\ \A u \in Objs : IsFiniteSet(DOMAIN mem'[u])
      BY <1>4, <2>5
    <3> QED
      BY <1>3, <2>1, <2>2, <3>1
  <2> QED
    BY <2>3, <2>4, <2>5, Zenon
<1> QED
  BY <1>5, <1>6, <1>7

\* host1x_bo_new takes the pages of the buffer.
LEMMA SizesListed ==
  ASSUME NEW t, Threads = {t}, ReplayInv(t), SizesInv(t), UNCHANGED program, GemCreateLeave(t)
  PROVE  SizesInv(t)'
<1> DEFINE f == call[t].file
           e == [handle |-> call[t].handle, id |-> bos_cnt % IdMod, data |-> None,
                 captured |-> FALSE, is_framebuffer |-> FALSE, fb_id |-> None,
                 chksum |-> [p \in DOMAIN mem[call[t].obj] |-> Zero]]
<1>1. call[t].op = "create" /\ f \in Files /\ DOMAIN call = Threads
  <2>1. Hook(t, "create")
    BY Zenon DEF GemCreateLeave
  <2> QED
    BY <2>1, FileOfCall
<1>2. CASE Abort("bo->ctx is NULL")
  BY <1>2, SizesAbort, Zenon
<1>3. ASSUME NEW s, bos' = [bos EXCEPT ![f] = Append(bos[f], e)], Finish(t, s), UNCHANGED mem
      PROVE  SizesInv(t)'
  <2>1. IsTable(bos)
    BY TablesAre
  <2>2. PICK x : x = e
    OBVIOUS
  <2>3. IsFiniteSet(DOMAIN x.chksum)
    <3>1. DOMAIN x.chksum = DOMAIN mem[call[t].obj]
      BY <2>2
    <3> QED
      BY <1>1, <3>1 DEF SizesInv
  <2>4. call'[t].op \in {"none", "return"}
    BY <1>1, <1>3, FinishIs
  <2> HIDE DEF f, e
  <2>5. bos' = [bos EXCEPT ![f] = Append(bos[f], x)]
    BY <1>3, <2>2
  <2>6. \A g \in Files : \A k \in DOMAIN bos'[g] :
          (g = f /\ bos'[g][k] = x) \/ \E j \in DOMAIN bos[g] : bos'[g][k] = bos[g][j]
    BY ONLY <1>1, <2>1, <2>5, AddedEntries
  <2>7. \A g \in Files : \A k \in DOMAIN bos'[g] : IsFiniteSet(DOMAIN bos'[g][k].chksum)
    BY <2>3, <2>6 DEF SizesInv
  <2> QED
    BY <1>3, <2>4, <2>7 DEF SizesInv
<1>4. Abort("bo->ctx is NULL") \/ \E s : /\ bos' = [bos EXCEPT ![f] = Append(bos[f], e)]
                                        /\ Finish(t, s) /\ UNCHANGED mem
  BY Zenon DEF GemCreateLeave, Listed, kernel
<1> QED
  <2> HIDE DEF f, e
  <2> QED
    BY <1>2, <1>3, <1>4, Zenon

\* Buffers that go
LEMMA SizesUnlisted ==
  ASSUME NEW t, Threads = {t}, ReplayInv(t), SizesInv(t), UNCHANGED program,
         NEW f, GemCloseLeave(t) \/ (f \in Files /\ CloseFile(t, f))
  PROVE  SizesInv(t)'
<1>1. IsTable(bos) /\ DOMAIN call = Threads
  BY TablesAre
<1>2. CASE GemCloseLeave(t)
  <2> DEFINE g == call[t].file
  <2>1. call[t].op = "close" /\ g \in Files
    <3>1. Hook(t, "close")
      BY <1>2, Zenon DEF GemCloseLeave
    <3> QED
      BY <3>1, FileOfCall
  <2>2. CASE Abort("invalid handle")
    BY <2>2, SizesAbort, Zenon
  <2>3. ASSUME NEW i \in file_lookup_bo(g, call[t].handle), bos' = [bos EXCEPT ![g] = Unlisted(g, i)],
               NEW s, Finish(t, s), UNCHANGED kernel
        PROVE  SizesInv(t)'
    <3>1. i \in DOMAIN bos[g]
      BY <2>3 DEF file_lookup_bo, IndexOf
    <3>2. bos' = [bos EXCEPT ![g] = RemoveAt(bos[g], i)]
      BY <2>3 DEF Unlisted
    <3>3. call'[t].op \in {"none", "return"} /\ mem' = mem
      BY <1>1, <2>1, <2>3, FinishIs DEF kernel
    <3> HIDE DEF g
    <3>4. \A e \in Files : \A k \in DOMAIN bos'[e] : \E j \in DOMAIN bos[e] : bos'[e][k] = bos[e][j]
      BY ONLY <1>1, <2>1, <3>1, <3>2, RemovedEntries
    <3>5. \A e \in Files : \A k \in DOMAIN bos'[e] :
            \E j \in DOMAIN bos[e] : DOMAIN bos'[e][k].chksum = DOMAIN bos[e][j].chksum
      BY <3>4
    <3> QED
      BY <3>3, <3>5, SizesLeft
  <2>4. \/ Abort("invalid handle")
        \/ \E i \in file_lookup_bo(g, call[t].handle) :
             /\ bos' = [bos EXCEPT ![g] = Unlisted(g, i)]
             /\ \E s : Finish(t, s)
             /\ UNCHANGED kernel
    BY <1>2, Zenon DEF GemCloseLeave
  <2> QED
    <3> HIDE DEF g
    <3> QED
      BY <2>2, <2>3, <2>4, Zenon
<1>3. CASE f \in Files /\ CloseFile(t, f)
  <2>1. rec_ctx[f] # NullCtx
    BY <1>3 DEF ReplayInv, ListsInv
  <2>2. /\ bos' = [bos EXCEPT ![f] = <<>>] /\ UNCHANGED mem
        /\ \E s : Return(t, f, {}, s)
    BY <1>3, <2>1, Zenon DEF CloseFile
  <2>3. call'[t].op # "create"
    BY <1>1, <1>3, <2>2, Returned
  <2>4. DOMAIN <<>> = {}
    OBVIOUS
  <2>5. \A e \in Files : \A k \in DOMAIN bos'[e] : e # f /\ bos'[e] = bos[e]
    BY <1>1, <2>2, <2>4 DEF IsTable
  <2>6. \A e \in Files : \A k \in DOMAIN bos'[e] :
          \E j \in DOMAIN bos[e] : DOMAIN bos'[e][k].chksum = DOMAIN bos[e][j].chksum
    BY <2>5
  <2> QED
    BY <2>2, <2>3, <2>6, SizesLeft
<1> QED
  BY <1>2, <1>3

\* What the hooks assign to an entry leaves its checksums.
LEMMA KeepsChksum ==
  ASSUME NEW a, a = [x \in BoFields |-> a[x]]
  PROVE  /\ \A o : SetBoData(a, o).id = a.id /\ SetBoData(a, o).chksum = a.chksum
         /\ NoFramebuffer(a).id = a.id /\ NoFramebuffer(a).chksum = a.chksum
         /\ \A b : LET r == [[a EXCEPT !.fb_id = b] EXCEPT !.is_framebuffer = TRUE] IN
                   r.id = a.id /\ r.chksum = a.chksum
<1>1. ASSUME NEW o
      PROVE  SetBoData(a, o).id = a.id /\ SetBoData(a, o).chksum = a.chksum
  BY DEF SetBoData, BoFields
<1>2. NoFramebuffer(a).id = a.id /\ NoFramebuffer(a).chksum = a.chksum
  BY DEF NoFramebuffer, BoFields
<1>3. ASSUME NEW b
      PROVE  LET r == [[a EXCEPT !.fb_id = b] EXCEPT !.is_framebuffer = TRUE] IN
             r.id = a.id /\ r.chksum = a.chksum
  BY DEF BoFields
<1> QED
  BY <1>1, <1>2, <1>3

\* Entries that are edited
LEMMA SizesEdited ==
  ASSUME NEW t, Threads = {t}, ReplayInv(t), SizesInv(t), UNCHANGED program,
         NEW f, NEW b, GemMmapLeave(t) \/ AddFbLeave(t) \/ (f \in Files /\ RmFb(t, f, b))
  PROVE  SizesInv(t)'
<1>1. /\ DOMAIN call = Threads /\ IsTable(bos)
      /\ \A e \in Files : \A k \in DOMAIN bos[e] : bos[e][k] = [x \in BoFields |-> bos[e][k][x]]
  BY TablesAre
<1>2. ASSUME UNCHANGED mem, call'[t].op # "create", NEW g \in Files, NEW i \in DOMAIN bos[g],
             NEW a, a = bos[g][i], NEW r, r.id = a.id, r.chksum = a.chksum, bos' = WithEntry(bos, g, i, r)
      PROVE  SizesInv(t)'
  <2>1. r.id = bos[g][i].id /\ r.chksum = bos[g][i].chksum /\ UNCHANGED <<program, mem>>
    BY <1>2
  <2> QED
    BY ONLY ReplayInv(t), SizesInv(t), <1>2, <2>1, SizesEdit
<1>3. CASE GemMmapLeave(t)
  <2> DEFINE g == call[t].file
  <2>1. call[t].op = "mmap" /\ g \in Files
    <3>1. Hook(t, "mmap")
      BY <1>3, Zenon DEF GemMmapLeave
    <3> QED
      BY <3>1, FileOfCall
  <2>2. CASE Abort("invalid handle") \/ Abort("mmap failed")
    BY <2>2, SizesAbort, Zenon
  <2>3. ASSUME NEW i \in file_lookup_bo(g, call[t].handle),
               bos' = [bos EXCEPT ![g][i] = SetBoData(@, call[t].obj)], Finish(t, <<>>), UNCHANGED mem
        PROVE  SizesInv(t)'
    <3>1. i \in DOMAIN bos[g]
      BY <2>3 DEF file_lookup_bo, IndexOf
    <3>2. PICK a, r : a = bos[g][i] /\ r = SetBoData(a, call[t].obj)
      OBVIOUS
    <3>3. bos' = WithEntry(bos, g, i, r)
      BY <1>1, <2>1, <2>3, <3>1, <3>2 DEF WithEntry, IsTable
    <3>4. r.id = a.id /\ r.chksum = a.chksum
      <4>1. a = [x \in BoFields |-> a[x]]
        BY <1>1, <2>1, <3>1, <3>2
      <4> QED
        BY <3>2, <4>1, KeepsChksum
    <3>5. call'[t].op \in {"none", "return"}
      BY <1>1, <2>1, <2>3, FinishIs
    <3>6. mem' = mem /\ a = bos[g][i]
      BY <2>3, <3>2, <3>5
    <3> HIDE DEF g
    <3> QED
      BY ONLY <1>2, <2>1, <3>1, <3>3, <3>4, <3>5, <3>6
  <2>4. \/ Abort("invalid handle") \/ Abort("mmap failed")
        \/ \E i \in file_lookup_bo(g, call[t].handle) :
             /\ bos' = [bos EXCEPT ![g][i] = SetBoData(@, call[t].obj)]
             /\ Finish(t, <<>>)
             /\ UNCHANGED <<gem, mem, kfb, crtc, rendered, no_fd, rec_ctx, contexts, ctx_cnt, bos_cnt, job_ctx_cnt>>
    BY <1>3, Zenon DEF GemMmapLeave
  <2> QED
    <3> HIDE DEF g
    <3> QED
      BY <2>2, <2>3, <2>4, Zenon
<1>4. CASE AddFbLeave(t)
  <2> DEFINE g == call[t].file
             x == call[t].obj
  <2>1. call[t].op = "addfb" /\ g \in Files
    <3>1. Hook(t, "addfb")
      BY <1>4, Zenon DEF AddFbLeave
    <3> QED
      BY <3>1, FileOfCall
  <2>2. CASE Abort("invalid handle")
    BY <2>2, SizesAbort, Zenon
  <2>3. ASSUME NEW i \in file_lookup_bo(g, call[t].handle), NEW s, Finish(t, s),
               bos' = [bos EXCEPT ![g][i].fb_id = x, ![g][i].is_framebuffer = TRUE], UNCHANGED kernel
        PROVE  SizesInv(t)'
    <3>1. i \in DOMAIN bos[g]
      BY <2>3 DEF file_lookup_bo, IndexOf
    <3>2. PICK a, r : a = bos[g][i] /\ r = [[a EXCEPT !.fb_id = x] EXCEPT !.is_framebuffer = TRUE]
      BY Zenon
    <3>3. bos' = WithEntry(bos, g, i, r)
      BY <1>1, <2>1, <2>3, <3>1, <3>2 DEF WithEntry, IsTable
    <3>4. r.id = a.id /\ r.chksum = a.chksum
      <4>1. a = [y \in BoFields |-> a[y]]
        BY <1>1, <2>1, <3>1, <3>2
      <4> QED
        BY <3>2, <4>1, KeepsChksum
    <3>5. call'[t].op \in {"none", "return"} /\ mem' = mem
      BY <1>1, <2>1, <2>3, FinishIs DEF kernel
    <3>6. mem' = mem /\ a = bos[g][i]
      BY <2>3, <3>2, <3>5
    <3> HIDE DEF g
    <3> QED
      BY ONLY <1>2, <2>1, <3>1, <3>3, <3>4, <3>5, <3>6
  <2>5. CASE Finish(t, <<>>) /\ UNCHANGED <<kernel, shadow>>
    <3>1. call'[t].op \in {"none", "return"}
      BY <1>1, <2>1, <2>5, FinishIs
    <3>2. UNCHANGED <<mem, bos>> /\ call'[t].op # "create"
      BY <2>5, <3>1 DEF kernel, shadow
    <3> QED
      BY <3>2, SizesStay
  <2>4. \/ Abort("invalid handle")
        \/ Finish(t, <<>>) /\ UNCHANGED <<kernel, shadow>>
        \/ \E i \in file_lookup_bo(g, call[t].handle) :
             /\ bos' = [bos EXCEPT ![g][i].fb_id = x, ![g][i].is_framebuffer = TRUE]
             /\ \E s : Finish(t, s)
             /\ UNCHANGED <<kernel, rec_ctx, contexts, ctx_cnt, bos_cnt, job_ctx_cnt>>
    BY <1>4, Zenon DEF AddFbLeave
  <2> QED
    <3> HIDE DEF g, x
    <3> QED
      BY <2>2, <2>3, <2>4, <2>5, Zenon
<1>5. CASE f \in Files /\ RmFb(t, f, b)
  <2>1. UNCHANGED kernel /\ call' = [call EXCEPT ![t] = Call("rmfb", f, None, b, {})]
    BY <1>5, Zenon DEF RmFb
  <2>2. UNCHANGED mem /\ call'[t].op # "create"
    BY <1>1, <2>1, CallFields DEF kernel
  <2>3. \/ UNCHANGED bos
        \/ \E i \in file_lookup_fb(f, b) : bos' = [bos EXCEPT ![f][i] = NoFramebuffer(@)]
    BY <1>5, Zenon DEF RmFb
  <2>4. CASE UNCHANGED bos
    BY <2>2, <2>4, SizesStay
  <2>5. ASSUME NEW i \in file_lookup_fb(f, b), bos' = [bos EXCEPT ![f][i] = NoFramebuffer(@)]
        PROVE  SizesInv(t)'
    <3>1. i \in DOMAIN bos[f]
      BY <2>5 DEF file_lookup_fb, IndexOf
    <3>2. PICK a, r : a = bos[f][i] /\ r = NoFramebuffer(a)
      OBVIOUS
    <3>3. bos' = WithEntry(bos, f, i, r)
      BY <1>1, <1>5, <2>5, <3>1, <3>2 DEF WithEntry, IsTable
    <3>4. r.id = a.id /\ r.chksum = a.chksum
      <4>1. a = [y \in BoFields |-> a[y]]
        BY <1>1, <1>5, <3>1, <3>2
      <4> QED
        BY <3>2, <4>1, KeepsChksum
    <3> QED
      BY <1>2, <1>5, <2>2, <3>1, <3>2, <3>3, <3>4
  <2> QED
    BY <2>3, <2>4, <2>5
<1> QED
  BY <1>3, <1>4, <1>5

\* The captures of a job
LEMMA SizesCaptured ==
  ASSUME NEW t, Threads = {t}, ReplayInv(t), SizesInv(t), UNCHANGED <<program, repVars>>,
         NEW f \in Files, NEW c, NEW g, NEW T, NEW w, Submit(t, f, c, g, T, w)
  PROVE  SizesInv(t)'
<1> DEFINE At(h) == CHOOSE i \in DOMAIN bos[f] : i \in file_lookup_bo(f, h)
           named == {At(h) : h \in T \cup {g}}
<1>1. DOMAIN call = Threads /\ IsTable(bos)
  BY TablesAre
<1>2. \/ \E why : Abort(why)
      \/ /\ bos' = [bos EXCEPT ![f] =
               [j \in DOMAIN @ |-> IF j \in named THEN Captured(@[j]) ELSE @[j]]]
         /\ \E x, u, hs : call' = [call EXCEPT ![t] = Submitting(f, x, u, w, hs)]
         /\ UNCHANGED <<kernel, rec_ctx, contexts, ctx_cnt, bos_cnt, job_ctx_cnt>>
  BY Zenon DEF Submit
<1>3. ASSUME NEW why, Abort(why)
      PROVE  SizesInv(t)'
  BY <1>3, SizesAbort
<1> HIDE DEF named
<1>4. ASSUME bos' = [bos EXCEPT ![f] =
                [j \in DOMAIN @ |-> IF j \in named THEN Captured(@[j]) ELSE @[j]]],
             NEW x, NEW u, NEW hs, call' = [call EXCEPT ![t] = Submitting(f, x, u, w, hs)],
             UNCHANGED <<kernel, rec_ctx, contexts>>
      PROVE  SizesInv(t)'
  <2>1. call'[t].op # "create" /\ mem' = mem
    BY <1>1, <1>4, CallFields DEF kernel
  <2>2. PICK n, r : /\ n = named
                    /\ r = [j \in DOMAIN bos[f] |-> IF j \in n THEN Captured(bos[f][j]) ELSE bos[f][j]]
    OBVIOUS
  <2>3. bos' = WithList(bos, f, r)
    BY <1>1, <1>4, <2>2 DEF WithList, IsTable
  <2>4. UNCHANGED <<repVars, rec_ctx, contexts>>
    BY <1>4
  <2>5. \A e \in Files :
          /\ DOMAIN bos'[e] = DOMAIN bos[e]
          /\ \A k \in DOMAIN bos[e] : DOMAIN bos'[e][k].chksum = DOMAIN bos[e][k].chksum
    BY ONLY ReplayInv(t), f \in Files, <2>2, <2>3, <2>4, CapturesKeep
  <2>6. \A e \in Files : \A k \in DOMAIN bos'[e] :
          \E j \in DOMAIN bos[e] : DOMAIN bos'[e][k].chksum = DOMAIN bos[e][j].chksum
    BY <2>5
  <2> QED
    BY <2>1, <2>6, SizesLeft
<1> QED
  BY <1>2, <1>3, <1>4, Zenon

-----------------------------------------------------------------------------
(* The invariant *)

\* Every step of libwrap keeps the page sets and checksums finite.
LEMMA SizesStep ==
  ASSUME NEW t, Threads = {t}, ReplayInv(t), SizesInv(t), UNCHANGED <<program, repVars>>, RecorderNext
  PROVE  SizesInv(t)'
<1>1. ASSUME NEW s \in Threads, NEW f \in Files,
             \/ OpenFile(s, f) \/ CloseFile(s, f) \/ CloseFd(s, f)
             \/ \E h \in Handles :
                 \/ GemMmap(s, f, h) \/ GemClose(s, f, h) \/ SetFlags(s, f, h)
                 \/ BadHandle(s, f, h)
                 \/ \E o \in Objs : GemCreate(s, f, h, o)
                 \/ \E b \in FbIds : AddFb(s, f, h, b)
             \/ \E b \in FbIds : RmFb(s, f, b) \/ Display(s, f, b)
             \/ \E c \in Chans :
                 \/ OpenChannel(s, f, c) \/ CloseChannel(s, f, c)
                 \/ \E g \in Handles, T \in SUBSET Handles :
                     \E w \in Jobs(T) : Submit(s, f, c, g, T, w)
      PROVE  SizesInv(t)'
  <2>0. s = t
    OBVIOUS
  <2>1. CASE OpenFile(s, f) \/ CloseFd(s, f)
    BY <2>0, <2>1, SizesOther
  <2>2. CASE CloseFile(s, f)
    BY <2>0, <2>2, SizesUnlisted
  <2>3. ASSUME NEW h \in Handles,
               GemMmap(s, f, h) \/ GemClose(s, f, h) \/ SetFlags(s, f, h) \/ BadHandle(s, f, h)
        PROVE  SizesInv(t)'
    BY <2>0, <2>3, SizesOther
  <2>4. ASSUME NEW h \in Handles, NEW o \in Objs, GemCreate(s, f, h, o)
        PROVE  SizesInv(t)'
    BY <2>0, <2>4, SizesWritten
  <2>5. ASSUME NEW h \in Handles, NEW b \in FbIds, AddFb(s, f, h, b)
        PROVE  SizesInv(t)'
    BY <2>0, <2>5, SizesOther
  <2>6. ASSUME NEW b \in FbIds, RmFb(s, f, b) \/ Display(s, f, b)
        PROVE  SizesInv(t)'
    BY <2>0, <2>6, SizesEdited, SizesOther
  <2>7. ASSUME NEW c \in Chans, OpenChannel(s, f, c) \/ CloseChannel(s, f, c)
        PROVE  SizesInv(t)'
    BY <2>0, <2>7, SizesOther
  <2>8. ASSUME NEW c \in Chans, NEW g \in Handles, NEW T \in SUBSET Handles, NEW w \in Jobs(T),
               Submit(s, f, c, g, T, w)
        PROVE  SizesInv(t)'
    BY <2>0, <2>8, SizesCaptured
  <2> QED
    BY <1>1, <2>1, <2>2, <2>3, <2>4, <2>5, <2>6, <2>7, <2>8, Zenon
<1>2. ASSUME NEW s \in Threads,
             \/ Started(s) \/ Counted(s) \/ GemCreateLeave(s) \/ GemMmapLeave(s) \/ GemCloseLeave(s)
             \/ AddFbLeave(s) \/ FbKernel(s) \/ OpenChannelLeave(s) \/ CloseChannelLeave(s)
             \/ SubmitKernel(s) \/ DiskFull(s)
      PROVE  SizesInv(t)'
  <2>0. s = t
    OBVIOUS
  <2>1. CASE Started(s) \/ Counted(s) \/ FbKernel(s) \/ OpenChannelLeave(s) \/ CloseChannelLeave(s)
    BY <2>0, <2>1, SizesOther, Zenon
  <2>2. CASE GemCreateLeave(s)
    BY <2>0, <2>2, SizesListed
  <2>3. CASE GemMmapLeave(s) \/ AddFbLeave(s)
    BY <2>0, <2>3, SizesEdited, Zenon
  <2>4. CASE GemCloseLeave(s)
    BY <2>0, <2>4, SizesUnlisted, Zenon
  <2>5. CASE SubmitKernel(s)
    BY <2>0, <2>5, SizesWritten, Zenon
  <2>6. CASE DiskFull(s)
    BY <2>0, <2>6, SizesAbort, Zenon DEF DiskFull
  <2> QED
    BY <1>2, <2>1, <2>2, <2>3, <2>4, <2>5, <2>6
<1>3. ASSUME NEW s \in Threads, NEW f \in Files, NEW h \in Handles, NEW p \in PageNos, NEW v \in Values,
             CpuWrite(s, f, h, p, v)
      PROVE  SizesInv(t)'
  BY <1>3, SizesWritten, Zenon
<1> QED
  BY <1>1, <1>2, <1>3, Zenon DEF RecorderNext

\* Every step of libwrap keeps the replay's invariant.
LEMMA NextReplay ==
  ASSUME NEW t, Threads = {t}, ReplayInv(t), SizesInv(t), UNCHANGED <<program, repVars>>, RecorderNext
  PROVE  ReplayInv(t)'
<1>1. ASSUME NEW s \in Threads, NEW f \in Files,
             \/ OpenFile(s, f) \/ CloseFile(s, f) \/ CloseFd(s, f)
             \/ \E h \in Handles :
                 \/ GemMmap(s, f, h) \/ GemClose(s, f, h) \/ SetFlags(s, f, h)
                 \/ BadHandle(s, f, h)
                 \/ \E o \in Objs : GemCreate(s, f, h, o)
                 \/ \E b \in FbIds : AddFb(s, f, h, b)
             \/ \E b \in FbIds : RmFb(s, f, b) \/ Display(s, f, b)
             \/ \E c \in Chans :
                 \/ OpenChannel(s, f, c) \/ CloseChannel(s, f, c)
                 \/ \E g \in Handles, T \in SUBSET Handles :
                     \E w \in Jobs(T) : Submit(s, f, c, g, T, w)
      PROVE  ReplayInv(t)'
  <2>0. s = t
    OBVIOUS
  <2>1. CASE OpenFile(s, f)
    BY <2>0, <2>1, OpensFile
  <2>2. CASE CloseFile(s, f)
    BY <2>0, <2>2, ClosesFile
  <2>3. ASSUME NEW h \in Handles, GemMmap(s, f, h) \/ GemClose(s, f, h) \/ BadHandle(s, f, h)
        PROVE  ReplayInv(t)'
    BY <2>0, <2>3, QuietCalls, Zenon
  <2>4. ASSUME NEW h \in Handles, SetFlags(s, f, h)
        PROVE  ReplayInv(t)'
    BY <2>0, <2>4, SetsFlags
  <2>5. ASSUME NEW h \in Handles, NEW o \in Objs, GemCreate(s, f, h, o)
        PROVE  ReplayInv(t)'
    BY <2>0, <2>5, CreatesHandle
  <2>6. ASSUME NEW h \in Handles, NEW b \in FbIds, AddFb(s, f, h, b)
        PROVE  ReplayInv(t)'
    BY <2>0, <2>6, QuietCalls, Zenon
  <2>7. ASSUME NEW b \in FbIds, RmFb(s, f, b) \/ Display(s, f, b)
        PROVE  ReplayInv(t)'
    BY <2>0, <2>7, RemovesFb, Displayed
  <2>8. ASSUME NEW c \in Chans, OpenChannel(s, f, c)
        PROVE  ReplayInv(t)'
    BY <2>0, <2>8, OpensChannel
  <2>9. ASSUME NEW c \in Chans, CloseChannel(s, f, c)
        PROVE  ReplayInv(t)'
    BY <2>0, <2>9, QuietCalls, Zenon
  <2>10. ASSUME NEW c \in Chans, NEW g \in Handles, NEW T \in SUBSET Handles, NEW w \in Jobs(T),
                Submit(s, f, c, g, T, w)
         PROVE  ReplayInv(t)'
    BY <2>0, <2>10, Submits
  <2>11. CASE CloseFd(s, f)
    BY <2>0, <2>11, QuietCalls, Zenon
  <2> QED
    BY <1>1, <2>1, <2>2, <2>3, <2>4, <2>5, <2>6, <2>7, <2>8, <2>9, <2>10, <2>11, Zenon
<1>2. ASSUME NEW s \in Threads,
             \/ Started(s) \/ Counted(s) \/ GemCreateLeave(s) \/ GemMmapLeave(s) \/ GemCloseLeave(s)
             \/ AddFbLeave(s) \/ FbKernel(s) \/ OpenChannelLeave(s) \/ CloseChannelLeave(s)
             \/ SubmitKernel(s) \/ DiskFull(s)
      PROVE  ReplayInv(t)'
  <2>0. s = t
    OBVIOUS
  <2>1. CASE Started(s)
    BY <2>0, <2>1, Starts
  <2>2. CASE Counted(s)
    BY <2>0, <2>2, Counts
  <2>3. CASE GemCreateLeave(s)
    BY <2>0, <2>3, ListsBo
  <2>4. CASE GemMmapLeave(s)
    BY <2>0, <2>4, MapsBo
  <2>5. CASE GemCloseLeave(s)
    BY <2>0, <2>5, UnlistsBo
  <2>6. CASE AddFbLeave(s)
    BY <2>0, <2>6, AddsFb
  <2>7. CASE FbKernel(s) \/ SubmitKernel(s)
    <3>1. call[t].op \in {"rmfb", "display", "submit"}
      <4>1. CASE FbKernel(s)
        BY <2>0, <4>1, Zenon DEF FbKernel
      <4>2. CASE SubmitKernel(s)
        BY <2>0, <4>2, Zenon DEF SubmitKernel
      <4> QED
        BY <2>7, <4>1, <4>2
    <3>2. call[t].file \in Files
      BY <3>1 DEF ReplayInv, OpenInv
    <3> QED
      BY <2>0, <2>7, <3>2, QuietCalls, Zenon
  <2>8. CASE OpenChannelLeave(s)
    BY <2>0, <2>8, ListsContext
  <2>9. CASE CloseChannelLeave(s)
    BY <2>0, <2>9, UnlistsContext
  <2>10. CASE DiskFull(s)
    BY <2>0, <2>10, Aborts, Zenon DEF DiskFull
  <2> QED
    BY <1>2, <2>1, <2>2, <2>3, <2>4, <2>5, <2>6, <2>7, <2>8, <2>9, <2>10
<1>3. ASSUME NEW s \in Threads, NEW f \in Files, NEW h \in Handles, NEW p \in PageNos, NEW v \in Values,
             CpuWrite(s, f, h, p, v)
      PROVE  ReplayInv(t)'
  BY <1>3, QuietCalls, Zenon
<1> QED
  BY <1>1, <1>2, <1>3, Zenon DEF RecorderNext

\* The reading of a record leaves the recorder's buffers alone.
LEMMA SizesRead ==
  ASSUME NEW t, Threads = {t}, ReplayInv(t), SizesInv(t), record_write_data(t)
  PROVE  SizesInv(t)'
<1>1. UNCHANGED <<program, mem, bos>> /\ (call' = call \/ call' = [call EXCEPT ![t] = NoCall])
  BY DEF record_write_data, kernel, shadow
<1>2. call' = call \/ call'[t].op # "create"
  BY <1>1, TablesAre, CallFields
<1> QED
  BY <1>1, <1>2, SizesStay

\* At the start nothing is recorded.
LEMMA InitSizes ==
  ASSUME NEW t, Threads = {t}, Init
  PROVE  SizesInv(t)
<1>1. program \in Programs /\ bos = [f \in Files |-> <<>>] /\ call[t].op = "none"
  BY CallFields DEF Init, RecorderInit
<1>2. PICK n \in program.sizes : mem = [o \in Objs |-> [p \in 1..n |-> Zero]]
  BY DEF Init, RecorderInit
<1>3. n \in Nat
  BY <1>1, ProgramsAssumption
<1>4. IsFiniteSet(1..n)
  BY <1>3, FS_Interval
<1>5. DOMAIN mem = Objs /\ \A o \in Objs : DOMAIN mem[o] = 1..n
  BY <1>2
<1>6. \A f \in Files : DOMAIN bos[f] = {}
  BY <1>1
<1> QED
  BY <1>1, <1>4, <1>5, <1>6 DEF SizesInv

\* At the start neither side has an object.
LEMMA InitReplay ==
  ASSUME NEW t, Threads = {t}, Init
  PROVE  ReplayInv(t)
<1>1. /\ bos = [f \in Files |-> <<>>] /\ contexts = [f \in Files |-> <<>>]
      /\ rec_ctx = [f \in Files |-> None] /\ call[t].op = "none" /\ DOMAIN call = Threads
      /\ DOMAIN out = Threads /\ out[t] = <<>> /\ ~inited /\ ~enabled /\ ctx_cnt = 0
  BY CallFields DEF Init, RecorderInit
<1>2. /\ ctx_list = <<>> /\ bo_list = <<>> /\ fb_list = <<>> /\ job_ctx_list = <<>>
      /\ pending = <<>> /\ status = "running" /\ act_cnt = 0
  BY DEF Init, ReplayInit
<1>3. <<>> \in Seq(Range(<<>>)) /\ Complete(<<>>) /\ DOMAIN <<>> = {} /\ Len(<<>>) = 0
  BY NoRecord
<1>4. Recorded = {} /\ \A f \in Files : DOMAIN bos[f] = {} /\ DOMAIN contexts[f] = {}
  BY <1>1 DEF Recorded
<1>5. Unread(t) = <<>> /\ \A c : c \notin Range(Unread(t))
  BY <1>1, <1>2 DEF Unread, Range
<1>6. LiveIds(bos) = {} /\ LiveIds(contexts) = {} /\ LiveCtxs = {}
  BY <1>4 DEF LiveIds, IdsOf, LiveCtxs
<1>7. ListsInv
  <2>1. UniqueIds(bos) /\ UniqueIds(contexts)
    BY <1>4 DEF UniqueIds
  <2> QED
    BY <1>1, <1>2, <1>3, <1>4, <2>1, NoneAssumption DEF ListsInv
<1>8. RecordsInv(t)
  BY <1>1, <1>2, <1>3, <1>5 DEF RecordsInv, PendingInv
<1>9. MirrorInv(t)
  <2>1. IdList(<<>>) = <<>>
    BY DEF IdList
  <2>2. ASSUME NEW C, NEW D
        PROVE  Mirror(<<>>, <<>>, {}, C, D)
    BY <1>3 DEF Mirror, RecordsOf, IdsIn, Range
  <2> QED
    BY <1>2, <1>5, <1>6, <2>1, <2>2 DEF MirrorInv
<1>10. FbInv(t)
  BY <1>4 DEF FbInv
<1>11. OpenInv(t)
  BY <1>1 DEF OpenInv
<1>12. StartInv(t)
  BY <1>1, <1>2, <1>3 DEF StartInv
<1> QED
  BY <1>2, <1>7, <1>8, <1>9, <1>10, <1>11, <1>12 DEF ReplayInv

\* In every state that a program of one thread reaches, the records that are still to be
\* carried out name only what the program has, and carrying them out gives the replay the
\* program's contexts, buffers, job contexts and framebuffers.
THEOREM ReplayInvariant ==
  ASSUME NEW t, Threads = {t}
  PROVE  Spec => []RInv
<1> DEFINE J == ReplayInv(t) /\ SizesInv(t)
<1>1. Init => J
  BY InitReplay, InitSizes
<1>2. J /\ [Next]_vars => J'
  <2> SUFFICES ASSUME J, [Next]_vars
               PROVE  J'
    OBVIOUS
  <2>1. CASE RecorderNext /\ UNCHANGED <<program, repVars>>
    BY <2>1, NextReplay, SizesStep
  <2>2. ASSUME NEW s \in Threads, NEW f \in Files, StartOver(s, f)
        PROVE  J'
    <3>1. s = t /\ Idle(s) /\ \E r \in Threads : call[r].op = "start"
      BY <2>2 DEF StartOver, StartAgain
    <3> QED
      BY <3>1, IdleIs
  <2>3. ASSUME NEW s \in Threads, record_write_data(s)
        PROVE  J'
    <3>1. s = t
      OBVIOUS
    <3> QED
      BY <2>3, <3>1, ReadStep, SizesRead
  <2>4. CASE UNCHANGED vars
    <3>1. UNCHANGED <<program, repVars, kernel, shadow, recorder, call, out>>
      BY <2>4 DEF vars, recVars
    <3>2. Abort(aborted)
      BY <2>4 DEF Abort, vars, recVars
    <3>3. ReplayInv(t)'
      BY <3>1, <3>2, Aborts
    <3>4. SizesInv(t)'
      BY <3>1, <3>2, SizesAbort
    <3> QED
      BY <3>3, <3>4
  <2> QED
    BY <2>1, <2>2, <2>3, <2>4 DEF Next
<1>3. J => RInv
  BY DEF RInv
<1> HIDE DEF J
<1> QED
  BY <1>1, <1>2, <1>3, PTL DEF Spec

\* tools/replay.c refuses no record of such a program, and none of its assert()s fails:
\* every id it looks up is in its lists (lookup_bo, lookup_framebuffer, destroy_context),
\* every payload follows its header.
THEOREM ReplayCorrect ==
  ASSUME NEW t, Threads = {t}
  PROVE  Spec => []ReplayAccepts
<1>1. RInv => ReplayAccepts
  BY DEF RInv, ReplayInv, ReplayAccepts
<1>2. Spec => []RInv
  BY ReplayInvariant
<1> QED
  BY <1>1, <1>2, PTL

-----------------------------------------------------------------------------
(* What the replay has between calls *)

\* A list of distinct things has as many as its range.
LEMMA DistinctList ==
  ASSUME NEW s, s \in Seq(Range(s)), \A i, j \in DOMAIN s : s[i] = s[j] => i = j
  PROVE  IsFiniteSet(Range(s)) /\ Cardinality(Range(s)) = Len(s)
<1> DEFINE n == Len(s)
           R == Range(s)
<1>1. n \in Nat /\ DOMAIN s = 1..n
  BY ListIs
<1>2. s \in Bijection(1..n, R)
  <2>1. s \in [1..n -> R]
    BY <1>1
  <2>2. \A i, j \in 1..n : s[i] = s[j] => i = j
    BY <1>1
  <2>3. \A x \in R : \E i \in 1..n : s[i] = x
    BY <1>1 DEF Range
  <2> HIDE DEF n, R
  <2> QED
    BY <2>1, <2>2, <2>3 DEF Bijection, Injection, Surjection, IsInjective
<1> HIDE DEF n, R
<1>3. ExistsBijection(1..n, R)
  BY <1>2 DEF ExistsBijection
<1> QED
  BY <1>1, <1>3, FS_CountingElements, FS_NatBijection DEF n, R

\* With nothing unread, the replay's list holds exactly the live identities, each once.
LEMMA NothingLeft ==
  ASSUME NEW L, NEW S, NEW C, NEW D, Mirror(L, <<>>, S, C, D)
  PROVE  Range(L) = S /\ \A i, j \in DOMAIN L : L[i] = L[j] => i = j
<1>1. IdsIn(<<>>, C) = {} /\ IdsIn(<<>>, D) = {}
  BY DEF IdsIn, RecordsOf
<1> QED
  BY <1>1 DEF Mirror

\* A table has as many entries as ids.
LEMMA EntriesCount ==
  ASSUME NEW T, UniqueIds(T), IsFiniteSet(LiveIds(T))
  PROVE  Cardinality(EntriesIn(T)) = Cardinality(LiveIds(T))
<1> DEFINE E == EntriesIn(T)
           S == LiveIds(T)
           g == [e \in E |-> T[e[1]][e[2]].id]
<1>1. E = UNION {{<<f, i>> : i \in DOMAIN T[f]} : f \in Files}
  BY DEF EntriesIn
<1>2. ASSUME NEW e \in E
      PROVE  \E f \in Files : \E i \in DOMAIN T[f] : e = <<f, i>>
  BY <1>1
<1>3. ASSUME NEW e \in E
      PROVE  e[1] \in Files /\ e[2] \in DOMAIN T[e[1]] /\ e = <<e[1], e[2]>>
  BY <1>2
<1>4. \A f \in Files : \A i \in DOMAIN T[f] : <<f, i>> \in E
  BY <1>1
<1>5. \A e \in E : g[e] \in S
  BY <1>3, InLiveIds
<1>6. \A x \in S : \E f \in Files : \E i \in DOMAIN T[f] : x = T[f][i].id
  BY DEF LiveIds, IdsOf
<1> HIDE DEF E, S
<1>7. g \in [E -> S]
  BY <1>5
<1>8. ASSUME NEW a \in E, NEW b \in E, g[a] = g[b]
      PROVE  a = b
  <2>1. T[a[1]][a[2]].id = T[b[1]][b[2]].id
    BY <1>8
  <2>2. a[1] = b[1] /\ a[2] = b[2]
    BY <1>3, <2>1 DEF UniqueIds
  <2> QED
    BY <1>3, <2>2
<1>9. ASSUME NEW x \in S
       PROVE  \E e \in E : g[e] = x
  <2>1. PICK f \in Files : \E i \in DOMAIN T[f] : x = T[f][i].id
    BY <1>6
  <2>2. PICK i \in DOMAIN T[f] : x = T[f][i].id
    BY <2>1
  <2>3. <<f, i>> \in E /\ <<f, i>>[1] = f /\ <<f, i>>[2] = i
    BY <1>4
  <2> QED
    BY <2>2, <2>3
<1> HIDE DEF g
<1>10. g \in Bijection(E, S)
  BY <1>7, <1>8, <1>9 DEF Bijection, Injection, Surjection, IsInjective
<1>11. ExistsBijection(S, E)
  BY <1>10, Fun_ExistsBijSymmetric DEF ExistsBijection
<1> QED
  BY <1>11, FS_Bijection DEF E, S

\* Every recorded file has a record context of its own.
LEMMA ContextsCount ==
  ASSUME NEW t, ReplayInv(t), IsFiniteSet(LiveCtxs)
  PROVE  Cardinality(Recorded) = Cardinality(LiveCtxs)
<1> DEFINE E == Recorded
           S == LiveCtxs
           g == [f \in E |-> rec_ctx[f]]
<1>1. \A e, f \in E : rec_ctx[e] = rec_ctx[f] => e = f
  BY DEF ReplayInv, ListsInv
<1>2. S = {rec_ctx[f] : f \in E}
  BY DEF LiveCtxs
<1> HIDE DEF E, S
<1>3. g \in Bijection(E, S)
  <2>1. g \in [E -> S]
    BY <1>2
  <2>2. \A a, b \in E : g[a] = g[b] => a = b
    BY <1>1
  <2>3. \A x \in S : \E a \in E : g[a] = x
    BY <1>2
  <2> HIDE DEF g
  <2> QED
    BY <2>1, <2>2, <2>3 DEF Bijection, Injection, Surjection, IsInjective
<1>4. ExistsBijection(S, E)
  BY <1>3, Fun_ExistsBijSymmetric DEF ExistsBijection
<1> QED
  BY <1>4, FS_Bijection DEF E, S

\* Between calls the replay has exactly the contexts, buffers and job contexts of the
\* program, each once: nothing is leaked, lost or made twice (create_bo, destroy_bo,
\* create_context, destroy_context, create_job_context, destroy_job_context).
THEOREM MirrorCorrect ==
  ASSUME NEW t, Threads = {t}
  PROVE  Spec => []ObjectsMirrored
<1>1. ASSUME RInv, Quiescent
      PROVE  /\ Len(bo_list) = Cardinality(EntriesIn(bos))
             /\ IdsOf(bo_list) = UNION {IdsOf(bos[f]) : f \in Files}
             /\ {ctx_list[i] : i \in DOMAIN ctx_list} = {rec_ctx[f] : f \in Recorded}
             /\ Len(ctx_list) = Cardinality(Recorded)
             /\ Len(job_ctx_list) = Cardinality(EntriesIn(contexts))
             /\ {job_ctx_list[i] : i \in DOMAIN job_ctx_list} = UNION {IdsOf(contexts[f]) : f \in Files}
  <2>1. ReplayInv(t) /\ out[t] = <<>>
    BY <1>1 DEF RInv, Quiescent
  <2>2. /\ Mirror(IdList(bo_list), <<>>, LiveIds(bos), "BO_CREATE", "BO_DESTROY")
        /\ Mirror(ctx_list, <<>>, LiveCtxs, "CTX_CREATE", "CTX_DESTROY")
        /\ Mirror(job_ctx_list, <<>>, LiveIds(contexts), "JOB_CTX_CREATE", "JOB_CTX_DESTROY")
    BY <2>1, AllRead
  <2>3. /\ bo_list \in Seq(Range(bo_list)) /\ ctx_list \in Seq(Range(ctx_list))
        /\ job_ctx_list \in Seq(Range(job_ctx_list))
    BY <2>1 DEF ReplayInv, ListsInv
  <2>4. /\ IdList(bo_list) \in Seq(Range(IdList(bo_list))) /\ Len(IdList(bo_list)) = Len(bo_list)
        /\ Range(IdList(bo_list)) = IdsOf(bo_list)
    BY <2>3, IdListIs
  <2>5. UniqueIds(bos) /\ UniqueIds(contexts)
    BY <2>1, TablesAre
  <2>6. Len(bo_list) = Cardinality(EntriesIn(bos)) /\ IdsOf(bo_list) = LiveIds(bos)
    <3>1. /\ Range(IdList(bo_list)) = LiveIds(bos)
          /\ \A i, j \in DOMAIN IdList(bo_list) : IdList(bo_list)[i] = IdList(bo_list)[j] => i = j
      BY <2>2, NothingLeft
    <3>2. IsFiniteSet(LiveIds(bos)) /\ Cardinality(LiveIds(bos)) = Len(bo_list)
      BY <2>4, <3>1, DistinctList
    <3> QED
      BY <2>4, <2>5, <3>1, <3>2, EntriesCount
  <2>7. Len(ctx_list) = Cardinality(Recorded) /\ Range(ctx_list) = LiveCtxs
    <3>1. Range(ctx_list) = LiveCtxs /\ \A i, j \in DOMAIN ctx_list : ctx_list[i] = ctx_list[j] => i = j
      BY <2>2, NothingLeft
    <3>2. IsFiniteSet(LiveCtxs) /\ Cardinality(LiveCtxs) = Len(ctx_list)
      BY <2>3, <3>1, DistinctList
    <3> QED
      BY <2>1, <3>1, <3>2, ContextsCount
  <2>8. Len(job_ctx_list) = Cardinality(EntriesIn(contexts)) /\ Range(job_ctx_list) = LiveIds(contexts)
    <3>1. /\ Range(job_ctx_list) = LiveIds(contexts)
          /\ \A i, j \in DOMAIN job_ctx_list : job_ctx_list[i] = job_ctx_list[j] => i = j
      BY <2>2, NothingLeft
    <3>2. IsFiniteSet(LiveIds(contexts)) /\ Cardinality(LiveIds(contexts)) = Len(job_ctx_list)
      BY <2>3, <3>1, DistinctList
    <3> QED
      BY <2>5, <3>1, <3>2, EntriesCount
  <2> QED
    BY <2>6, <2>7, <2>8 DEF Range, LiveIds, LiveCtxs
<1>2. RInv => ObjectsMirrored
  BY <1>1 DEF ObjectsMirrored
<1>3. Spec => []RInv
  BY ReplayInvariant
<1> QED
  BY <1>2, <1>3, PTL
=============================================================================
