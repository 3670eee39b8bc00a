--------------------------- MODULE RecorderProofs ---------------------------
(***************************************************************************)
(* Proof that libwrap's list of buffers follows the kernel's handle table, *)
(* for any number of threads, files, handles and buffers, and that libwrap *)
(* never kills a program of one thread that names only the handles it has: *)
(* no lookup of a hook fails, no context is missing, and no job comes      *)
(* before the mapping of its commands.                                     *)
(***************************************************************************)
EXTENDS RecordReplay, SequenceTheorems, FiniteSetTheorems, WellFoundedInduction, TLAPS

\* The operation of a call.
LEMMA CallFields ==
  /\ \A op, f, h, o, u : /\ Call(op, f, h, o, u).op = op /\ Call(op, f, h, o, u).file = f
                         /\ Call(op, f, h, o, u).handle = h /\ Call(op, f, h, o, u).obj = o
                         /\ Call(op, f, h, o, u).uses = u
  /\ \A f, n : Counting(f, n).op = "counting"
  /\ \A f, c, u, w, s : Submitting(f, c, u, w, s).op = "submit"
  /\ NoCall.op = "none"
BY DEF Call, Counting, Submitting, NoCall

-----------------------------------------------------------------------------
(* Lists *)

\* A function on 1..n is a sequence of what it holds.
LEMMA IsList ==
  ASSUME NEW n \in Nat, NEW s, s = [i \in 1..n |-> s[i]]
  PROVE  s \in Seq(Range(s)) /\ DOMAIN s = 1..n /\ Len(s) = n
<1>1. DOMAIN s = 1..n
  OBVIOUS
<1>2. \A i \in 1..n : s[i] \in Range(s)
  BY <1>1 DEF Range
<1>3. s \in [1..n -> Range(s)]
  BY <1>2
<1> QED
  BY <1>1, <1>3

LEMMA ListIs ==
  ASSUME NEW s, s \in Seq(Range(s))
  PROVE  Len(s) \in Nat /\ DOMAIN s = 1..Len(s) /\ s = [i \in 1..Len(s) |-> s[i]]
OBVIOUS

\* list_add_tail
LEMMA AppendList ==
  ASSUME NEW s, s \in Seq(Range(s)), NEW x
  PROVE  LET r == Append(s, x) IN
         /\ r \in Seq(Range(r)) /\ DOMAIN r = 1..Len(s) + 1 /\ Len(s) \in Nat
         /\ \A i \in 1..Len(s) : r[i] = s[i]
         /\ r[Len(s) + 1] = x
<1> DEFINE r == Append(s, x)
           S == Range(s) \cup {x}
<1>1. s \in Seq(S) /\ x \in S
  OBVIOUS
<1> HIDE DEF S
<1>2. /\ r \in Seq(S) /\ Len(r) = Len(s) + 1 /\ Len(s) \in Nat
      /\ \A i \in 1..Len(s) : r[i] = s[i]
      /\ r[Len(s) + 1] = x
  BY <1>1, AppendProperties
<1> HIDE DEF r
<1>3. Len(r) \in Nat /\ r = [i \in 1..Len(r) |-> r[i]]
  BY <1>2
<1>4. r \in Seq(Range(r)) /\ DOMAIN r = 1..Len(r)
  BY <1>3, IsList
<1> QED
  BY <1>2, <1>4 DEF r

\* list_del
LEMMA RemoveAtList ==
  ASSUME NEW s, s \in Seq(Range(s)), NEW i \in DOMAIN s
  PROVE  LET r == RemoveAt(s, i) IN
         /\ r \in Seq(Range(r)) /\ Len(s) \in Nat \ {0} /\ DOMAIN r = 1..Len(s) - 1
         /\ \A k \in 1..Len(s) - 1 : r[k] = IF k < i THEN s[k] ELSE s[k + 1]
<1> DEFINE S == Range(s)
           a == SubSeq(s, 1, i - 1)
           b == SubSeq(s, i + 1, Len(s))
           r == RemoveAt(s, i)
           n == Len(s)
<1> HIDE DEF S
<1>1. n \in Nat \ {0} /\ i \in 1..n /\ s \in Seq(S)
  BY DEF S
<1>2. a \in Seq(S) /\ Len(a) = i - 1 /\ \A k \in 1..i - 1 : a[k] = s[k]
  BY <1>1
<1>3. b \in Seq(S) /\ Len(b) = n - i /\ \A k \in 1..n - i : b[k] = s[i + k]
  BY <1>1
<1> HIDE DEF a, b
<1>4. r = a \o b
  BY DEF RemoveAt, a, b
<1> HIDE DEF r, n
<1>5. r \in Seq(S) /\ Len(r) = Len(a) + Len(b)
      /\ \A k \in 1..Len(a) + Len(b) : r[k] = IF k <= Len(a) THEN a[k] ELSE b[k - Len(a)]
  BY <1>2, <1>3, <1>4, ConcatProperties
<1>6. Len(r) = n - 1
  BY <1>1, <1>2, <1>3, <1>5
<1>7. ASSUME NEW k \in 1..n - 1
      PROVE  r[k] = IF k < i THEN s[k] ELSE s[k + 1]
  <2>1. k \in 1..Len(a) + Len(b)
    BY <1>1, <1>2, <1>3
  <2>2. CASE k < i
    BY <1>1, <1>2, <1>5, <2>1, <2>2
  <2>3. CASE ~(k < i)
    <3>1. k - Len(a) \in 1..n - i /\ i + (k - Len(a)) = k + 1 /\ ~(k <= Len(a))
      BY <1>1, <1>2, <2>3
    <3> QED
      BY <1>3, <1>5, <2>1, <2>3, <3>1
  <2> QED
    BY <2>2, <2>3
<1>8. n - 1 \in Nat /\ r = [k \in 1..n - 1 |-> r[k]]
  BY <1>1, <1>5, <1>6
<1>9. r \in Seq(Range(r)) /\ DOMAIN r = 1..n - 1
  BY <1>8, IsList
<1> QED
  BY <1>1, <1>7, <1>9 DEF r, n

\* Where a list names a handle.
Entries(s, h) == {k \in DOMAIN s : s[k].handle = h}
LastOf(s, h) == {k \in Entries(s, h) : \A l \in Entries(s, h) : l <= k}

LEMMA FiniteEntries ==
  ASSUME NEW s, s \in Seq(Range(s)), NEW h
  PROVE  /\ IsFiniteSet(Entries(s, h)) /\ Cardinality(Entries(s, h)) \in Nat
         /\ \A k \in Entries(s, h) : k \in Nat
<1>1. Len(s) \in Nat /\ DOMAIN s = 1..Len(s)
  BY ListIs
<1>2. IsFiniteSet(1..Len(s))
  BY <1>1, FS_Interval
<1>3. IsFiniteSet(Entries(s, h))
  BY <1>1, <1>2, FS_Subset DEF Entries
<1> QED
  BY <1>1, <1>3, FS_CardinalityType DEF Entries

\* The newest entry of a handle is the one added last.
LEMMA EntriesAdded ==
  ASSUME NEW s, s \in Seq(Range(s)), NEW h,
         NEW r, DOMAIN r = 1..Len(s) + 1, \A i \in 1..Len(s) : r[i] = s[i]
  PROVE  /\ r[Len(s) + 1].handle # h => Entries(r, h) = Entries(s, h)
         /\ r[Len(s) + 1].handle = h =>
              /\ Entries(r, h) = Entries(s, h) \cup {Len(s) + 1}
              /\ Cardinality(Entries(r, h)) = Cardinality(Entries(s, h)) + 1
<1> DEFINE n == Len(s)
           x == r[n + 1]
<1>1. /\ DOMAIN r = 1..n + 1 /\ n \in Nat
      /\ \A i \in 1..n : r[i] = s[i]
  BY ListIs
<1>2. DOMAIN s = 1..n
  BY ListIs
<1> HIDE DEF n
<1>3. ASSUME x.handle # h
      PROVE  Entries(r, h) = Entries(s, h)
  BY <1>1, <1>2, <1>3 DEF Entries
<1>4. ASSUME x.handle = h
      PROVE  Entries(r, h) = Entries(s, h) \cup {n + 1}
  BY <1>1, <1>2, <1>4 DEF Entries
<1>5. n + 1 \notin Entries(s, h)
  BY <1>1, <1>2 DEF Entries
<1>6. Cardinality(Entries(s, h) \cup {n + 1}) = Cardinality(Entries(s, h)) + 1
  BY <1>5, FiniteEntries, FS_AddElement
<1> QED
  BY <1>3, <1>4, <1>6 DEF n

\* The first entry of a handle is taken out: the other entries stay in their order.
LEMMA EntriesRemoved ==
  ASSUME NEW s, s \in Seq(Range(s)), NEW g, NEW i \in Entries(s, g),
         \A k \in 1..i - 1 : s[k].handle # g, NEW h
  PROVE  LET r == RemoveAt(s, i) IN
         /\ Cardinality(Entries(r, h)) = Cardinality(Entries(s, h)) - IF h = g THEN 1 ELSE 0
         /\ \A k \in LastOf(r, h) : \E m \in LastOf(s, h) : r[k] = s[m]
<1> DEFINE r == RemoveAt(s, i)
           n == Len(s)
           up == [k \in Entries(r, h) |-> IF k < i THEN k ELSE k + 1]
<1>1. i \in DOMAIN s /\ s[i].handle = g
  BY DEF Entries
<1>2. /\ r \in Seq(Range(r)) /\ n \in Nat \ {0} /\ DOMAIN r = 1..n - 1
      /\ \A k \in 1..n - 1 : r[k] = IF k < i THEN s[k] ELSE s[k + 1]
  BY <1>1, RemoveAtList
<1>3. DOMAIN s = 1..n
  BY ListIs
<1> HIDE DEF r, n
<1>4. i \in 1..n
  BY <1>1, <1>3
<1>5. ASSUME NEW k \in Entries(r, h)
      PROVE  /\ k \in Nat /\ up[k] \in Entries(s, h) \ {i} /\ r[k] = s[up[k]]
             /\ up[k] \in Nat /\ up[k] = IF k < i THEN k ELSE k + 1
  <2>1. k \in 1..n - 1 /\ r[k].handle = h
    BY <1>2 DEF Entries
  <2>2. CASE k < i
    BY <1>2, <1>3, <1>4, <2>1, <2>2 DEF Entries
  <2>3. CASE ~(k < i)
    <3>1. up[k] = k + 1 /\ k + 1 \in 1..n /\ k + 1 # i
      BY <1>2, <1>4, <2>1, <2>3
    <3> QED
      BY <1>2, <1>3, <2>1, <2>3, <3>1 DEF Entries
  <2> QED
    BY <2>2, <2>3
<1>6. ASSUME NEW m \in Entries(s, h) \ {i}
      PROVE  \E k \in Entries(r, h) : up[k] = m
  <2> DEFINE k == IF m < i THEN m ELSE m - 1
  <2>1. m \in 1..n /\ s[m].handle = h /\ m # i
    BY <1>3 DEF Entries
  <2>2. k \in 1..n - 1 /\ (IF k < i THEN k ELSE k + 1) = m
    BY <1>2, <1>4, <2>1
  <2>3. r[k] = s[m]
    BY <1>2, <2>2
  <2> HIDE DEF k
  <2>4. k \in Entries(r, h)
    BY <1>2, <2>1, <2>2, <2>3 DEF Entries
  <2> QED
    BY <2>2, <2>4
<1>7. \A k, l \in Entries(r, h) : up[k] = up[l] => k = l
  <2> SUFFICES ASSUME NEW k \in Entries(r, h), NEW l \in Entries(r, h), up[k] = up[l]
               PROVE  k = l
    OBVIOUS
  <2>1. /\ k \in Nat /\ up[k] = IF k < i THEN k ELSE k + 1
        /\ l \in Nat /\ up[l] = IF l < i THEN l ELSE l + 1
    BY <1>5
  <2>2. i \in Nat
    BY <1>4
  <2>3. \A a, b \in Nat : (IF a < i THEN a ELSE a + 1) = (IF b < i THEN b ELSE b + 1) => a = b
    BY <2>2
  <2> HIDE DEF up
  <2> QED
    BY <2>1, <2>3
<1>8. DOMAIN up = Entries(r, h)
  OBVIOUS
<1> HIDE DEF up
<1>9. Cardinality(Entries(s, h) \ {i}) = Cardinality(Entries(r, h))
  <2>1. up \in [Entries(r, h) -> Entries(s, h) \ {i}]
    <3>1. up = [k \in Entries(r, h) |-> up[k]]
      BY DEF up
    <3> QED
      BY <1>5, <3>1
  <2>2. ExistsBijection(Entries(r, h), Entries(s, h) \ {i})
    BY <1>6, <1>7, <2>1 DEF ExistsBijection, Bijection, Injection, Surjection, IsInjective
  <2> QED
    BY <1>2, <2>2, FiniteEntries, FS_Bijection
<1>10. Cardinality(Entries(s, h) \ {i}) = Cardinality(Entries(s, h)) - IF h = g THEN 1 ELSE 0
  <2>1. i \in Entries(s, h) <=> h = g
    BY <1>1 DEF Entries
  <2>2. IsFiniteSet(Entries(s, h)) /\ Cardinality(Entries(s, h)) \in Nat
    BY FiniteEntries
  <2>3. Cardinality(Entries(s, h) \ {i}) = IF i \in Entries(s, h) THEN Cardinality(Entries(s, h)) - 1
                                          ELSE Cardinality(Entries(s, h))
    BY <2>2, FS_RemoveElement
  <2> QED
    BY <2>1, <2>2, <2>3
<1>11. ASSUME NEW k \in Entries(r, h), \A l \in Entries(r, h) : l <= k
       PROVE  \E m \in Entries(s, h) : r[k] = s[m] /\ \A l \in Entries(s, h) : l <= m
  <2>1. /\ k \in Nat /\ up[k] \in Entries(s, h) /\ r[k] = s[up[k]]
        /\ up[k] \in Nat /\ up[k] = IF k < i THEN k ELSE k + 1
    BY <1>5
  <2>2. ASSUME NEW m \in Entries(s, h) \ {i}
        PROVE  m <= up[k]
    <3>1. PICK l \in Entries(r, h) : up[l] = m
      BY <1>6
    <3>2. l \in Nat /\ up[l] = (IF l < i THEN l ELSE l + 1) /\ l <= k
      BY <1>5, <1>11
    <3> QED
      BY <1>4, <2>1, <3>1, <3>2
  <2>3. i \in Entries(s, h) => i <= up[k]
    <3> SUFFICES ASSUME i \in Entries(s, h), ~(i <= up[k])
                 PROVE  FALSE
      BY <1>4, <2>1
    <3>1. s[up[k]].handle = g /\ up[k] \in 1..i - 1
      <4>1. h = g /\ up[k] \in 1..n /\ s[up[k]].handle = h
        BY <1>1, <1>3, <2>1 DEF Entries
      <4> QED
        BY <1>4, <2>1, <4>1
    <3> QED
      BY <3>1
  <2> QED
    BY <2>1, <2>2, <2>3
<1> QED
  <2>1. \A k \in LastOf(r, h) : \E m \in LastOf(s, h) : r[k] = s[m]
    BY <1>11, Zenon DEF LastOf
  <2> QED
    BY <1>9, <1>10, <2>1 DEF r

-----------------------------------------------------------------------------
(* The parts of the invariant *)

LEMMA ListedAsEntries ==
  ASSUME NEW f, NEW h
  PROVE  /\ ListedAs(f, h) = Entries(bos[f], h) /\ (ListedAs(f, h))' = Entries(bos'[f], h)
         /\ Newest(f, h) = LastOf(bos[f], h) /\ (Newest(f, h))' = LastOf(bos'[f], h)
<1>1. ListedAs(f, h) = Entries(bos[f], h) /\ (ListedAs(f, h))' = Entries(bos'[f], h)
  BY DEF ListedAs, Entries
<1> QED
  BY <1>1 DEF Newest, LastOf

\* Neither the handle nor its entries nor the calls that change it.
LEMMA HandleSame ==
  ASSUME NEW f, NEW h, HandleInv(f, h), gem'[f][h] = gem[f][h],
         (Calls("create", f, h))' = Calls("create", f, h),
         (Calls("close", f, h))' = Calls("close", f, h),
         (ListedAs(f, h))' = ListedAs(f, h),
         \A i \in ListedAs(f, h) : bos'[f][i].data = bos[f][i].data
  PROVE  HandleInv(f, h)'
<1>1. (Newest(f, h))' = Newest(f, h) /\ \A i \in Newest(f, h) : i \in ListedAs(f, h)
  BY DEF Newest
<1> QED
  BY <1>1 DEF HandleInv, Given

\* The calls of other threads.
LEMMA CallsSame ==
  ASSUME NEW t \in Threads, \A s \in Threads \ {t} : call'[s] = call[s],
         NEW op, NEW f, NEW h,
         t \in Calls(op, f, h) <=> t \in (Calls(op, f, h))'
  PROVE  (Calls(op, f, h))' = Calls(op, f, h)
BY DEF Calls

\* A call that is none of create, mmap and close, while the kernel's tables stay and
\* the entries keep their handle and their mapping.
LEMMA OtherStep ==
  ASSUME ShadowInv, gem' = gem,
         NEW t \in Threads, DOMAIN call' = Threads, \A s \in Threads \ {t} : call'[s] = call[s],
         \/ call'[t] = call[t]
         \/ /\ call[t].op \notin {"create", "mmap", "close"}
            /\ call'[t].op \notin {"create", "mmap", "close"},
         DOMAIN bos' = Files,
         \A f \in Files :
           /\ bos'[f] \in Seq(Range(bos'[f])) /\ DOMAIN bos'[f] = DOMAIN bos[f]
           /\ \A i \in DOMAIN bos[f] :
                /\ bos'[f][i] = [x \in BoFields |-> bos'[f][i][x]]
                /\ bos'[f][i].handle = bos[f][i].handle /\ bos'[f][i].data = bos[f][i].data
  PROVE  ShadowInv'
<1>1. TablesInv'
  BY DEF ShadowInv, TablesInv
<1>2. ASSUME NEW s \in Threads
      PROVE  CallInv(s)'
  <2>1. CallInv(s)
    BY DEF ShadowInv
  <2>2. call'[s] = call[s] \/ call'[s].op \notin {"create", "mmap", "close"}
    OBVIOUS
  <2> QED
    BY <2>1, <2>2 DEF CallInv
<1>3. ASSUME NEW f \in Files, NEW h \in Handles
      PROVE  HandleInv(f, h)'
  <2>1. (ListedAs(f, h))' = ListedAs(f, h) /\ \A i \in ListedAs(f, h) : bos'[f][i].data = bos[f][i].data
    BY DEF ListedAs
  <2>2. (Calls("create", f, h))' = Calls("create", f, h) /\ (Calls("close", f, h))' = Calls("close", f, h)
    <3>1. ASSUME NEW op \in {"create", "close"}
          PROVE  t \in Calls(op, f, h) <=> t \in (Calls(op, f, h))'
      BY DEF Calls
    <3> QED
      BY <3>1, CallsSame
  <2> QED
    BY <2>1, <2>2, HandleSame DEF ShadowInv
<1> QED
  BY <1>1, <1>2, <1>3 DEF ShadowInv

\* ... and the list stays as well.
LEMMA CallStep ==
  ASSUME ShadowInv, gem' = gem, bos' = bos, NEW t \in Threads, NEW c, call' = [call EXCEPT ![t] = c],
         call[t].op \notin {"create", "mmap", "close"}, c.op \notin {"create", "mmap", "close"}
  PROVE  ShadowInv'
<1>1. DOMAIN call' = Threads /\ call'[t] = c /\ \A s \in Threads \ {t} : call'[s] = call[s]
  BY DEF ShadowInv, TablesInv
<1>2. \A f \in Files :
        /\ bos'[f] \in Seq(Range(bos'[f])) /\ DOMAIN bos'[f] = DOMAIN bos[f]
        /\ \A i \in DOMAIN bos[f] :
              /\ bos'[f][i] = [x \in BoFields |-> bos'[f][i][x]]
              /\ bos'[f][i].handle = bos[f][i].handle /\ bos'[f][i].data = bos[f][i].data
  BY DEF ShadowInv, TablesInv
<1>3. DOMAIN bos' = Files
  BY DEF ShadowInv, TablesInv
<1> QED
  BY <1>1, <1>2, <1>3, OtherStep

\* ... in a call of the program
LEMMA CallToStep ==
  ASSUME ShadowInv, gem' = gem, bos' = bos, NEW t \in Threads,
         NEW op, op \notin {"create", "mmap", "close"}, NEW f, NEW h, NEW o, NEW u,
         call' = [call EXCEPT ![t] = Call(op, f, h, o, u)],
         call[t].op \notin {"create", "mmap", "close"}
  PROVE  ShadowInv'
<1> DEFINE c == Call(op, f, h, o, u)
<1>1. c.op = op
  BY DEF Call
<1>2. call' = [call EXCEPT ![t] = c]
  OBVIOUS
<1> HIDE DEF c
<1> QED
  BY <1>1, <1>2, CallStep

\* ... in open()
LEMMA CountingStep ==
  ASSUME ShadowInv, gem' = gem, bos' = bos, NEW t \in Threads, NEW f, NEW n,
         call' = [call EXCEPT ![t] = Counting(f, n)],
         call[t].op \notin {"create", "mmap", "close"}
  PROVE  ShadowInv'
<1> DEFINE c == Counting(f, n)
<1>1. c.op = "counting"
  BY DEF Counting
<1>2. call' = [call EXCEPT ![t] = c]
  OBVIOUS
<1> HIDE DEF c
<1> QED
  BY <1>1, <1>2, CallStep

\* ... and in none any more
LEMMA NoCallStep ==
  ASSUME ShadowInv, gem' = gem, bos' = bos, NEW t \in Threads, call' = [call EXCEPT ![t] = NoCall],
         call[t].op \notin {"create", "mmap", "close"}
  PROVE  ShadowInv'
BY CallToStep DEF NoCall

LEMMA SameStep ==
  ASSUME ShadowInv, UNCHANGED <<gem, bos, call>>
  PROVE  ShadowInv'
<1>1. TablesInv'
  BY DEF ShadowInv, TablesInv
<1>2. ASSUME NEW s \in Threads
      PROVE  CallInv(s)'
  BY DEF ShadowInv, CallInv
<1>3. ASSUME NEW f \in Files, NEW h \in Handles
      PROVE  HandleInv(f, h)'
  <2>1. (ListedAs(f, h))' = ListedAs(f, h) /\ (Calls("create", f, h))' = Calls("create", f, h)
        /\ (Calls("close", f, h))' = Calls("close", f, h)
    BY DEF ListedAs, Calls
  <2> QED
    BY <2>1, HandleSame DEF ShadowInv
<1> QED
  BY <1>1, <1>2, <1>3 DEF ShadowInv

LEMMA AbortStep ==
  ASSUME ShadowInv, NEW why, Abort(why)
  PROVE  ShadowInv'
<1>1. UNCHANGED <<gem, bos, call>>
  BY DEF Abort, kernel, shadow
<1> QED
  BY <1>1, SameStep

\* One entry of a list changes, but neither its handle nor its mapping.
LEMMA EntryStep ==
  ASSUME ShadowInv, gem' = gem, NEW t \in Threads, NEW c, call' = [call EXCEPT ![t] = c],
         call[t].op \notin {"create", "mmap", "close"}, c.op \notin {"create", "mmap", "close"},
         NEW f, NEW i \in DOMAIN bos[f], NEW b, bos' = [bos EXCEPT ![f][i] = b],
         f \in Files => /\ b = [x \in BoFields |-> b[x]]
                        /\ b.handle = bos[f][i].handle /\ b.data = bos[f][i].data
  PROVE  ShadowInv'
<1>1. DOMAIN call' = Threads /\ call'[t] = c /\ \A s \in Threads \ {t} : call'[s] = call[s]
  BY DEF ShadowInv, TablesInv
<1>2. DOMAIN bos = Files
  BY DEF ShadowInv, TablesInv
<1>3. DOMAIN bos' = Files /\ \A g \in Files \ {f} : bos'[g] = bos[g]
  BY <1>2
<1>4. ASSUME NEW g \in Files
      PROVE  /\ bos'[g] \in Seq(Range(bos'[g])) /\ DOMAIN bos'[g] = DOMAIN bos[g]
             /\ \A k \in DOMAIN bos[g] :
                  /\ bos'[g][k] = [x \in BoFields |-> bos'[g][k][x]]
                  /\ bos'[g][k].handle = bos[g][k].handle /\ bos'[g][k].data = bos[g][k].data
  <2>1. /\ bos[g] \in Seq(Range(bos[g]))
        /\ \A k \in DOMAIN bos[g] : bos[g][k] = [x \in BoFields |-> bos[g][k][x]]
    BY DEF ShadowInv, TablesInv
  <2>2. CASE g # f
    BY <1>3, <2>1, <2>2
  <2>3. CASE g = f
    <3> DEFINE s == bos[g]
    <3>1. bos'[g] = [s EXCEPT ![i] = b]
      BY <1>2, <2>3
    <3>2. Len(s) \in Nat /\ DOMAIN s = 1..Len(s)
      BY <2>1, ListIs
    <3>3. DOMAIN bos'[g] = 1..Len(s) /\ bos'[g] = [k \in 1..Len(s) |-> bos'[g][k]]
      BY <3>1, <3>2
    <3>4. bos'[g] \in Seq(Range(bos'[g]))
      BY <3>2, <3>3, IsList
    <3>5. ASSUME NEW k \in DOMAIN bos[g]
          PROVE  /\ bos'[g][k] = [x \in BoFields |-> bos'[g][k][x]]
                 /\ bos'[g][k].handle = bos[g][k].handle /\ bos'[g][k].data = bos[g][k].data
      <4>1. bos[g][k] = [x \in BoFields |-> bos[g][k][x]]
        BY <2>1
      <4>2. CASE k = i
        <5>1. bos'[g][k] = b
          BY <3>1, <4>2
        <5>2. b = [x \in BoFields |-> b[x]] /\ b.handle = bos[g][k].handle /\ b.data = bos[g][k].data
          BY <2>3, <4>2
        <5> HIDE DEF s
        <5> QED
          BY <5>1, <5>2
      <4>3. CASE k # i
        <5>1. bos'[g][k] = bos[g][k]
          BY <3>1, <4>3
        <5> QED
          BY <4>1, <5>1
      <4> QED
        BY <4>2, <4>3
    <3> QED
      BY <3>2, <3>3, <3>4, <3>5
  <2> QED
    BY <2>2, <2>3
<1> QED
  BY <1>1, <1>3, <1>4, OtherStep

\* A leave hook's call returns.
LEMMA FinishCall ==
  ASSUME NEW t \in Threads, NEW s, Finish(t, s)
  PROVE  \E c : call' = [call EXCEPT ![t] = c] /\ c.op \in {"none", "return"}
<1> DEFINE c == Call("return", call[t].file, None, None, call[t].uses)
<1>1. call' = [call EXCEPT ![t] = NoCall] \/ call' = [call EXCEPT ![t] = c]
  BY DEF Finish, Return
<1>2. NoCall.op = "none" /\ c.op = "return"
  BY DEF NoCall, Call
<1> HIDE DEF c
<1> QED
  BY <1>1, <1>2

-----------------------------------------------------------------------------
(* Steps that leave the handles alone *)

LEMMA OpenSteps ==
  ASSUME ShadowInv, NEW t \in Threads, NEW f,
         OpenFile(t, f) \/ Started(t) \/ Counted(t) \/ StartOver(t, f)
  PROVE  ShadowInv'
<1>1. gem' = gem /\ bos' = bos
  BY DEF OpenFile, Started, Counted, StartOver, StartAgain, kernel, shadow
<1>2. CASE OpenFile(t, f)
  <2>1. call[t].op = "none"
    BY <1>2, CallFields DEF OpenFile, Idle
  <2>2. \/ call' = call
        \/ call' = [call EXCEPT ![t] = Counting(f, ctx_cnt)]
        \/ call' = [call EXCEPT ![t] = Call("start", f, None, None, {})]
    BY <1>2 DEF OpenFile, NewContext, record_start
  <2> QED
    BY <1>1, <2>1, <2>2, CallToStep, CountingStep, SameStep
<1>3. CASE Started(t)
  <2>1. call[t].op = "start" /\ call' = [call EXCEPT ![t] = Counting(call[t].file, ctx_cnt)]
    BY <1>3 DEF Started, NewContext
  <2> QED
    BY <1>1, <2>1, CountingStep
<1>4. CASE Counted(t)
  <2>1. call[t].op = "counting" /\ call' = [call EXCEPT ![t] = Call("opening", call[t].file, None, None, {})]
    BY <1>4 DEF Counted
  <2> QED
    BY <1>1, <2>1, CallToStep
<1>5. CASE StartOver(t, f)
  <2>1. call[t].op = "none" /\ call' = [call EXCEPT ![t] = Call("start", f, None, None, {})]
    BY <1>5, CallFields DEF StartOver, StartAgain, Idle, record_start
  <2> QED
    BY <1>1, <2>1, CallToStep
<1> QED
  BY <1>2, <1>3, <1>4, <1>5

LEMMA WriteStep ==
  ASSUME ShadowInv, NEW t \in Threads, record_write_data(t)
  PROVE  ShadowInv'
<1>1. gem' = gem /\ bos' = bos
  BY DEF record_write_data, kernel, shadow
<1>2. \/ call' = call
      \/ call[t].op \in {"opening", "return"} /\ call' = [call EXCEPT ![t] = NoCall]
  BY DEF record_write_data
<1> QED
  BY <1>1, <1>2, NoCallStep, SameStep

LEMMA ChannelSteps ==
  ASSUME ShadowInv, NEW t \in Threads, NEW f, NEW c,
         OpenChannel(t, f, c) \/ CloseChannel(t, f, c) \/ OpenChannelLeave(t) \/ CloseChannelLeave(t)
  PROVE  ShadowInv'
<1>1. gem' = gem /\ bos' = bos
  BY DEF OpenChannel, CloseChannel, OpenChannelLeave, CloseChannelLeave, Entered, kernel, shadow
<1>2. CASE OpenChannel(t, f, c) \/ CloseChannel(t, f, c)
  <2>1. /\ call[t].op = "none"
        /\ \/ call' = [call EXCEPT ![t] = Call("open_channel", f, c, None, {})]
           \/ call' = [call EXCEPT ![t] = Call("close_channel", f, c, None, {})]
    BY <1>2, CallFields DEF OpenChannel, CloseChannel, Entered, Idle
  <2> QED
    BY <1>1, <2>1, CallToStep
<1>3. CASE OpenChannelLeave(t) \/ CloseChannelLeave(t)
  <2>1. call[t].op \in {"open_channel", "close_channel"} /\ \E s : Finish(t, s)
    BY <1>3 DEF OpenChannelLeave, CloseChannelLeave, Hook
  <2>2. PICK d : call' = [call EXCEPT ![t] = d] /\ d.op \in {"none", "return"}
    BY <2>1, FinishCall
  <2> QED
    BY <1>1, <2>1, <2>2, CallStep
<1> QED
  BY <1>2, <1>3

LEMMA DisplaySteps ==
  ASSUME ShadowInv, NEW t \in Threads, NEW f, NEW b,
         Display(t, f, b) \/ FbKernel(t) \/ SubmitKernel(t)
  PROVE  ShadowInv'
<1>1. gem' = gem /\ bos' = bos
  BY DEF Display, FbKernel, SubmitKernel, kernel, shadow
<1>2. CASE Display(t, f, b)
  <2>1. call[t].op = "none" /\ call' = [call EXCEPT ![t] = Call("display", f, None, b, {})]
    BY <1>2, CallFields DEF Display, Idle
  <2> QED
    BY <1>1, <2>1, CallToStep
<1>3. CASE FbKernel(t) \/ SubmitKernel(t)
  <2>1. call[t].op \in {"rmfb", "display", "submit"} /\ call' = [call EXCEPT ![t] = NoCall]
    BY <1>3 DEF FbKernel, SubmitKernel
  <2> QED
    BY <1>1, <2>1, NoCallStep
<1> QED
  BY <1>2, <1>3

LEMMA HandleUses ==
  ASSUME ShadowInv, NEW t \in Threads, NEW f, NEW h, NEW b, NEW p, NEW v,
         SetFlags(t, f, h) \/ AddFb(t, f, h, b) \/ CpuWrite(t, f, h, p, v)
  PROVE  ShadowInv'
<1>1. CASE SetFlags(t, f, h)
  <2>1. call[t].op = "none"
    BY <1>1, CallFields DEF SetFlags, Idle
  <2>2. CASE Abort("invalid handle")
    BY <2>2, AbortStep
  <2>3. CASE Return(t, f, {h}, <<h>>) /\ UNCHANGED <<kernel, shadow>>
    <3>1. \/ call' = [call EXCEPT ![t] = NoCall]
          \/ call' = [call EXCEPT ![t] = Call("return", f, None, None, {h})]
      BY <2>3 DEF Return
    <3>2. gem' = gem /\ bos' = bos
      BY <2>3 DEF kernel, shadow
    <3> QED
      BY <2>1, <3>1, <3>2, NoCallStep, CallToStep
  <2> QED
    BY <1>1, <2>2, <2>3 DEF SetFlags
<1>2. CASE AddFb(t, f, h, b)
  <2>1. /\ call[t].op = "none" /\ call' = [call EXCEPT ![t] = Call("addfb", f, h, b, {h})]
        /\ gem' = gem /\ bos' = bos
    BY <1>2, CallFields DEF AddFb, Entered, Idle, shadow
  <2> QED
    BY <2>1, CallToStep
<1>3. CASE CpuWrite(t, f, h, p, v)
  BY <1>3, SameStep DEF CpuWrite, shadow
<1> QED
  BY <1>1, <1>2, <1>3

\* Framebuffers: the entry of the buffer keeps its handle and its mapping.
LEMMA FbSteps ==
  ASSUME ShadowInv, NEW t \in Threads, NEW f, NEW b,
         AddFbLeave(t) \/ (f \in Files /\ RmFb(t, f, b))
  PROVE  ShadowInv'
<1>1. CASE AddFbLeave(t)
  <2> DEFINE g == call[t].file
  <2>1. CASE Abort("invalid handle")
    BY <2>1, AbortStep
  <2>2. ASSUME NEW i \in file_lookup_bo(g, call[t].handle), NEW fb, NEW s,
               bos' = [bos EXCEPT ![g][i].fb_id = fb, ![g][i].is_framebuffer = TRUE],
               Finish(t, s), UNCHANGED kernel, call[t].op = "addfb"
        PROVE  ShadowInv'
    <3> DEFINE e == bos[g][i]
               r == [[e EXCEPT !.fb_id = fb] EXCEPT !.is_framebuffer = TRUE]
    <3>1. i \in DOMAIN bos[g]
      BY <2>2 DEF file_lookup_bo, IndexOf
    <3>2. DOMAIN bos = Files /\ (g \in Files => e = [x \in BoFields |-> e[x]])
      BY <3>1 DEF ShadowInv, TablesInv
    <3>3. bos' = [bos EXCEPT ![g][i] = r]
      BY <2>2, <3>1
    <3>4. g \in Files => r = [x \in BoFields |-> r[x]] /\ r.handle = e.handle /\ r.data = e.data
      BY <3>2 DEF BoFields
    <3>5. PICK c : call' = [call EXCEPT ![t] = c] /\ c.op \in {"none", "return"}
      BY <2>2, FinishCall
    <3>6. gem' = gem
      BY <2>2 DEF kernel
    <3>7. call[t].op \notin {"create", "mmap", "close"} /\ c.op \notin {"create", "mmap", "close"}
      BY <2>2, <3>5
    <3>8. g \in Files => r = [x \in BoFields |-> r[x]] /\ r.handle = bos[g][i].handle /\ r.data = bos[g][i].data
      BY <3>4
    <3> HIDE DEF r, g
    <3> HIDE <2>2, <3>2, <3>4
    <3> QED
      BY <3>1, <3>3, <3>5, <3>6, <3>7, <3>8, EntryStep
  <2>3. ASSUME Finish(t, <<>>), UNCHANGED <<kernel, shadow>>, call[t].op = "addfb"
        PROVE  ShadowInv'
    <3>1. call' = [call EXCEPT ![t] = NoCall]
      BY <2>3 DEF Finish, Return
    <3>2. gem' = gem /\ bos' = bos
      BY <2>3 DEF kernel, shadow
    <3> QED
      BY <2>3, <3>1, <3>2, NoCallStep
  <2>4. call[t].op = "addfb"
    BY <1>1 DEF AddFbLeave, Hook
  <2>5. \/ Abort("invalid handle")
        \/ Finish(t, <<>>) /\ UNCHANGED <<kernel, shadow>>
        \/ \E i \in file_lookup_bo(g, call[t].handle) : \E fb, s :
             /\ bos' = [bos EXCEPT ![g][i].fb_id = fb, ![g][i].is_framebuffer = TRUE]
             /\ Finish(t, s) /\ UNCHANGED kernel
    BY <1>1, Zenon DEF AddFbLeave
  <2> HIDE DEF g
  <2> QED
    BY <2>1, <2>2, <2>3, <2>4, <2>5
<1>2. CASE f \in Files /\ RmFb(t, f, b)
  <2>1. /\ call[t].op = "none" /\ gem' = gem
        /\ call' = [call EXCEPT ![t] = Call("rmfb", f, None, b, {})]
    BY <1>2, CallFields DEF RmFb, Idle, kernel
  <2>2. CASE bos' = bos
    BY <2>1, <2>2, CallToStep
  <2>3. ASSUME NEW i \in file_lookup_fb(f, b), bos' = [bos EXCEPT ![f][i] = NoFramebuffer(@)]
        PROVE  ShadowInv'
    <3> DEFINE e == bos[f][i]
               r == NoFramebuffer(e)
               c == Call("rmfb", f, None, b, {})
    <3>1. i \in DOMAIN bos[f]
      BY <2>3 DEF file_lookup_fb, IndexOf
    <3>2. DOMAIN bos = Files /\ e = [x \in BoFields |-> e[x]]
      BY <1>2, <3>1 DEF ShadowInv, TablesInv
    <3>3. bos' = [bos EXCEPT ![f][i] = r]
      BY <2>3, <3>1
    <3>4. r = [x \in BoFields |-> r[x]] /\ r.handle = e.handle /\ r.data = e.data
      BY <3>2 DEF BoFields, NoFramebuffer
    <3>5. c.op = "rmfb" /\ call' = [call EXCEPT ![t] = c]
      BY <2>1, CallFields
    <3> HIDE DEF r, c
    <3> QED
      BY <2>1, <3>1, <3>3, <3>4, <3>5, EntryStep
  <2> QED
    BY <1>2, <2>2, <2>3 DEF RmFb
<1> QED
  BY <1>1, <1>2

\* Capturing changes the checksums only.
LEMMA CapturedKeeps ==
  ASSUME NEW e, e = [x \in BoFields |-> e[x]]
  PROVE  LET r == Captured(e) IN
         r = [x \in BoFields |-> r[x]] /\ r.handle = e.handle /\ r.data = e.data
<1> DEFINE ck == [p \in DOMAIN e.chksum |-> IF p \in PagesToLoad(e) THEN mem[e.data][p] ELSE e.chksum[p]]
           r == [[e EXCEPT !.captured = TRUE] EXCEPT !.chksum = ck]
<1>1. Captured(e) = e \/ Captured(e) = r
  BY DEF Captured, BoFields
<1> HIDE DEF ck
<1>2. r = [x \in BoFields |-> r[x]] /\ r.handle = e.handle /\ r.data = e.data
  BY DEF BoFields
<1> QED
  BY <1>1, <1>2

LEMMA SubmitStep ==
  ASSUME ShadowInv, NEW t \in Threads, NEW f \in Files, NEW c, NEW g, NEW T, NEW w,
         Submit(t, f, c, g, T, w)
  PROVE  ShadowInv'
<1>1. CASE \E why : Abort(why)
  BY <1>1, AbortStep
<1>2. ASSUME NEW named, NEW hs, UNCHANGED kernel, call[t].op = "none",
             bos' = [bos EXCEPT ![f] =
                       [j \in DOMAIN @ |-> IF j \in named THEN Captured(@[j]) ELSE @[j]]],
             call' = [call EXCEPT ![t] = Submitting(f, c, T \cup {g}, w, hs)]
      PROVE  ShadowInv'
  <2> DEFINE n == Submitting(f, c, T \cup {g}, w, hs)
             q == bos[f]
             r == [j \in DOMAIN q |-> IF j \in named THEN Captured(q[j]) ELSE q[j]]
  <2>1. gem' = gem /\ bos' = [bos EXCEPT ![f] = r]
    BY <1>2 DEF kernel
  <2>2. DOMAIN bos = Files /\ DOMAIN call = Threads
    BY DEF ShadowInv, TablesInv
  <2>3. n.op = "submit" /\ call' = [call EXCEPT ![t] = n]
    BY <1>2, CallFields
  <2> HIDE DEF n
  <2>4. DOMAIN call' = Threads /\ call'[t] = n /\ \A s \in Threads \ {t} : call'[s] = call[s]
    BY <2>2, <2>3
  <2>5. DOMAIN bos' = Files
    BY <2>1, <2>2
  <2>6. ASSUME NEW e \in Files
        PROVE  /\ bos'[e] \in Seq(Range(bos'[e])) /\ DOMAIN bos'[e] = DOMAIN bos[e]
               /\ \A i \in DOMAIN bos[e] :
                    /\ bos'[e][i] = [x \in BoFields |-> bos'[e][i][x]]
                    /\ bos'[e][i].handle = bos[e][i].handle /\ bos'[e][i].data = bos[e][i].data
    <3>1. /\ bos[e] \in Seq(Range(bos[e]))
          /\ \A i \in DOMAIN bos[e] : bos[e][i] = [x \in BoFields |-> bos[e][i][x]]
      BY DEF ShadowInv, TablesInv
    <3>2. CASE e # f
      <4>1. bos'[e] = bos[e]
        BY <2>1, <2>2, <3>2
      <4> QED
        BY <3>1, <4>1
    <3>3. CASE e = f
      <4>1. bos'[e] = r /\ bos[e] = q
        BY <2>1, <2>2, <3>3
      <4>2. Len(q) \in Nat /\ DOMAIN q = 1..Len(q)
        BY <3>1, <4>1, ListIs
      <4>3. r = [j \in 1..Len(q) |-> r[j]]
        BY <4>2
      <4>4. r \in Seq(Range(r)) /\ DOMAIN r = DOMAIN q
        BY <4>2, <4>3, IsList
      <4>5. ASSUME NEW i \in DOMAIN q
            PROVE  r[i] = [x \in BoFields |-> r[i][x]]
                   /\ r[i].handle = q[i].handle /\ r[i].data = q[i].data
        <5>1. q[i] = [x \in BoFields |-> q[i][x]]
          BY <3>1, <4>1
        <5>2. r[i] = q[i] \/ r[i] = Captured(q[i])
          OBVIOUS
        <5> HIDE DEF r, q
        <5> QED
          BY <5>1, <5>2, CapturedKeeps
      <4> HIDE DEF r, q
      <4> QED
        BY <4>1, <4>4, <4>5
    <3> QED
      BY <3>2, <3>3
  <2>7. call[t].op \notin {"create", "mmap", "close"} /\ call'[t].op \notin {"create", "mmap", "close"}
    BY <1>2, <2>3, <2>4
  <2> HIDE DEF r, q
  <2> HIDE <1>2
  <2> QED
    BY <2>1, <2>4, <2>5, <2>6, <2>7, OtherStep
<1>3. call[t].op = "none"
  <2>1. Idle(t)
    BY Zenon DEF Submit
  <2> QED
    BY <2>1, CallFields DEF Idle
<1> DEFINE At(h) == CHOOSE i \in DOMAIN bos[f] : i \in file_lookup_bo(f, h)
           nm == {At(h) : h \in T \cup {g}}
           order == SetToSeq(T)
           after == [j \in DOMAIN bos[f] |-> IF j \in nm THEN Captured(bos[f][j]) ELSE bos[f][j]]
<1>4. \/ Abort("invalid handle") \/ Abort("cmdbuf not mapped") \/ Abort("deflate failed")
      \/ /\ UNCHANGED <<kernel, rec_ctx, contexts, ctx_cnt, bos_cnt, job_ctx_cnt>>
         /\ bos' = [bos EXCEPT ![f] = after]
         /\ call' = [call EXCEPT ![t] = Submitting(f, c, T \cup {g}, w, order)]
  BY Zenon DEF Submit
<1>5. ASSUME /\ UNCHANGED <<kernel, rec_ctx, contexts, ctx_cnt, bos_cnt, job_ctx_cnt>>
             /\ bos' = [bos EXCEPT ![f] = after]
             /\ call' = [call EXCEPT ![t] = Submitting(f, c, T \cup {g}, w, order)]
      PROVE  ShadowInv'
  <2> HIDE DEF nm, order
  <2>1. UNCHANGED kernel
    BY <1>5
  <2>2. bos' = [bos EXCEPT ![f] = [j \in DOMAIN @ |-> IF j \in nm THEN Captured(@[j]) ELSE @[j]]]
    BY <1>5
  <2> QED
    BY <1>2, <1>3, <1>5, <2>1, <2>2
<1> QED
  BY <1>1, <1>4, <1>5

-----------------------------------------------------------------------------
(* Steps that change a handle *)

\* What the invariant says of the tables.
LEMMA Tables ==
  ASSUME ShadowInv
  PROVE  /\ gem \in [Files -> [Handles -> Objs \cup {None}]]
         /\ DOMAIN bos = Files /\ DOMAIN call = Threads
         /\ \A f \in Files : /\ bos[f] \in Seq(Range(bos[f]))
                             /\ \A i \in DOMAIN bos[f] : bos[f][i] = [x \in BoFields |-> bos[f][i][x]]
BY DEF ShadowInv, TablesInv

\* A handle in use by no call has no creation and no mapping under way.
LEMMA NotInUse ==
  ASSUME ShadowInv, NEW f \in Files, NEW h \in Handles, ~InUse(f, h)
  PROVE  /\ Calls("create", f, h) = {} /\ Calls("mmap", f, h) = {}
         /\ \A t \in Threads : call[t].op \in {"create", "mmap"} => call[t].file # f \/ call[t].handle # h
<1>1. ASSUME NEW t \in Threads, call[t].op \in {"create", "mmap"}
      PROVE  call[t].file # f \/ call[t].handle # h
  <2>1. CallInv(t)
    BY DEF ShadowInv
  <2> QED
    BY <1>1, <2>1 DEF CallInv, InUse
<1> QED
  BY <1>1 DEF Calls

\* The kernel creates a handle.
LEMMA GemCreateStep ==
  ASSUME ShadowInv, NEW t \in Threads, NEW f \in Files, NEW h \in Handles, NEW o \in Objs,
         GemCreate(t, f, h, o)
  PROVE  ShadowInv'
<1> DEFINE c == Call("create", f, h, o, {h})
<1>1. /\ gem[f][h] = None /\ gem' = [gem EXCEPT ![f][h] = o] /\ bos' = bos
      /\ call' = [call EXCEPT ![t] = c] /\ call[t].op = "none" /\ o # None
  BY CallFields, NoneAssumption DEF GemCreate, Entered, Idle, shadow
<1>2. c.op = "create" /\ c.file = f /\ c.handle = h /\ c.obj = o /\ c.uses = {h}
  BY CallFields
<1> HIDE DEF c
<1>3. DOMAIN call' = Threads /\ call'[t] = c /\ \A s \in Threads \ {t} : call'[s] = call[s]
  BY <1>1, Tables
<1>4. /\ gem' \in [Files -> [Handles -> Objs \cup {None}]]
      /\ gem'[f][h] = o
      /\ \A e \in Files, k \in Handles : e # f \/ k # h => gem'[e][k] = gem[e][k]
  BY <1>1, Tables
<1>5. TablesInv'
  BY <1>1, <1>3, <1>4 DEF ShadowInv, TablesInv
<1>6. ASSUME NEW s \in Threads, s # t, call[s].op \in {"create", "mmap"}
      PROVE  call[s].file # f \/ call[s].handle # h
  BY <1>1, <1>6 DEF ShadowInv, CallInv
<1>7. ASSUME NEW s \in Threads
      PROVE  CallInv(s)'
  <2>1. CASE s = t
    BY <1>1, <1>2, <1>3, <1>4, <2>1 DEF CallInv
  <2>2. CASE s # t
    <3>1. CallInv(s) /\ call'[s] = call[s]
      BY <1>3, <2>2 DEF ShadowInv
    <3> QED
      BY <1>4, <1>6, <2>2, <3>1 DEF CallInv
  <2> QED
    BY <2>1, <2>2
<1>8. ASSUME NEW e \in Files, NEW k \in Handles
      PROVE  HandleInv(e, k)'
  <2>1. HandleInv(e, k) /\ (ListedAs(e, k))' = ListedAs(e, k)
    BY <1>1 DEF ShadowInv, ListedAs
  <2>2. (Calls("close", e, k))' = Calls("close", e, k)
    BY <1>1, <1>2, <1>3 DEF Calls
  <2>3. CASE e # f \/ k # h
    <3>1. (Calls("create", e, k))' = Calls("create", e, k)
      BY <1>1, <1>2, <1>3, <2>3 DEF Calls
    <3>2. gem'[e][k] = gem[e][k]
      BY <1>4, <2>3
    <3> QED
      BY <1>1, <2>1, <2>2, <3>1, <3>2, HandleSame
  <2>4. CASE e = f /\ k = h
    <3>1. (Calls("create", e, k))' = {t}
      BY <1>1, <1>2, <1>3, <1>6, <2>4 DEF Calls
    <3>2. ~Given(e, k) /\ ~Given(e, k)'
      BY <1>1, <2>4, <3>1 DEF Given
    <3> QED
      BY <2>1, <2>2, <3>1, <3>2 DEF HandleInv
  <2> QED
    BY <2>3, <2>4
<1> QED
  BY <1>5, <1>7, <1>8 DEF ShadowInv

\* host1x_bo_new: the handle is listed, after all others.
LEMMA GemCreateLeaveStep ==
  ASSUME ShadowInv, NEW t \in Threads, GemCreateLeave(t)
  PROVE  ShadowInv'
<1> DEFINE f == call[t].file
           h == call[t].handle
           x == [handle |-> h, id |-> bos_cnt % IdMod, data |-> None,
                 captured |-> FALSE, is_framebuffer |-> FALSE, fb_id |-> None,
                 chksum |-> [p \in DOMAIN mem[call[t].obj] |-> Zero]]
           r == Append(bos[f], x)
<1>1. CASE Abort("bo->ctx is NULL")
  BY <1>1, AbortStep
<1>2. CASE UNCHANGED kernel /\ bos' = [bos EXCEPT ![f] = r] /\ \E s : Finish(t, s)
  <2>1. call[t].op = "create" /\ f \in Files /\ h \in Handles /\ gem[f][h] # None
    BY DEF GemCreateLeave, Hook, ShadowInv, CallInv
  <2>2. PICK c : call' = [call EXCEPT ![t] = c] /\ c.op \in {"none", "return"}
    BY <1>2, FinishCall
  <2>3. /\ DOMAIN call' = Threads /\ call'[t].op \in {"none", "return"}
        /\ \A s \in Threads \ {t} : call'[s] = call[s]
    BY <2>2, Tables
  <2>4. x.handle = h /\ x.data = None /\ x = [y \in BoFields |-> x[y]]
    BY DEF BoFields
  <2>5. gem' = gem /\ DOMAIN bos' = Files /\ bos'[f] = r /\ \A e \in Files \ {f} : bos'[e] = bos[e]
    BY <1>2, <2>1, Tables DEF kernel
  <2>6. f = call[t].file /\ h = call[t].handle
    OBVIOUS
  <2> HIDE DEF x, f, h
  <2>7. bos[f] \in Seq(Range(bos[f])) /\ \A i \in DOMAIN bos[f] : bos[f][i] = [y \in BoFields |-> bos[f][i][y]]
    BY <2>1, Tables
  <2>8. /\ r \in Seq(Range(r)) /\ DOMAIN r = 1..Len(bos[f]) + 1 /\ Len(bos[f]) \in Nat
        /\ \A i \in 1..Len(bos[f]) : r[i] = bos[f][i]
        /\ r[Len(bos[f]) + 1] = x
    BY <2>7, AppendList
  <2>9. DOMAIN bos[f] = 1..Len(bos[f])
    BY <2>7, ListIs
  <2>10. ASSUME NEW k
         PROVE  /\ x.handle # k => Entries(r, k) = Entries(bos[f], k)
                /\ x.handle = k =>
                     /\ Entries(r, k) = Entries(bos[f], k) \cup {Len(bos[f]) + 1}
                     /\ Cardinality(Entries(r, k)) = Cardinality(Entries(bos[f], k)) + 1
                /\ \A i \in Entries(bos[f], k) : r[i] = bos[f][i]
    <3> DEFINE q == bos[f]
    <3>1. q \in Seq(Range(q)) /\ DOMAIN q = 1..Len(q)
      BY <2>7, <2>9
    <3>2. DOMAIN r = 1..Len(q) + 1 /\ (\A i \in 1..Len(q) : r[i] = q[i]) /\ r[Len(q) + 1] = x
      BY <2>8
    <3> HIDE DEF q, r
    <3>3. r[Len(q) + 1].handle # k => Entries(r, k) = Entries(q, k)
      BY <3>1, <3>2, EntriesAdded
    <3>4. r[Len(q) + 1].handle = k => Entries(r, k) = Entries(q, k) \cup {Len(q) + 1}
      BY <3>1, <3>2, EntriesAdded
    <3>5. r[Len(q) + 1].handle = k => Cardinality(Entries(r, k)) = Cardinality(Entries(q, k)) + 1
      BY <3>1, <3>2, EntriesAdded
    <3>6. \A i \in Entries(q, k) : r[i] = q[i]
      BY <3>1, <3>2 DEF Entries
    <3> QED
      BY <3>2, <3>3, <3>4, <3>5, <3>6 DEF q
  <2> HIDE DEF r
  <2>11. TablesInv'
    <3>1. \A i \in DOMAIN r : r[i] = [y \in BoFields |-> r[i][y]]
      <4>1. ASSUME NEW i \in DOMAIN r
            PROVE  r[i] = [y \in BoFields |-> r[i][y]]
        <5>1. CASE i = Len(bos[f]) + 1
          BY <2>4, <2>8, <5>1
        <5>2. CASE i # Len(bos[f]) + 1
          <6>1. i \in DOMAIN bos[f] /\ r[i] = bos[f][i]
            BY <2>8, <2>9, <5>2
          <6> QED
            BY <2>7, <6>1
        <5> QED
          BY <5>1, <5>2
      <4> QED
        BY <4>1
    <3>2. ASSUME NEW e \in Files
          PROVE  /\ bos'[e] \in Seq(Range(bos'[e]))
                 /\ \A i \in DOMAIN bos'[e] : bos'[e][i] = [y \in BoFields |-> bos'[e][i][y]]
      <4>1. CASE e = f
        BY <2>5, <2>8, <3>1, <4>1
      <4>2. CASE e # f
        <5>1. bos'[e] = bos[e]
          BY <2>5, <4>2
        <5> QED
          BY <5>1, Tables
      <4> QED
        BY <4>1, <4>2
    <3> QED
      BY <2>3, <2>5, <3>2, Tables DEF TablesInv
  <2>12. ASSUME NEW s \in Threads
         PROVE  CallInv(s)'
    BY <2>3, <2>5 DEF ShadowInv, CallInv
  <2>13. ASSUME NEW e \in Files, NEW k \in Handles
         PROVE  HandleInv(e, k)'
    <3>1. HandleInv(e, k)
      BY DEF ShadowInv
    <3>2. (Calls("close", e, k))' = Calls("close", e, k)
      BY <2>1, <2>3 DEF Calls
    <3>3. CASE e # f
      <4>1. (Calls("create", e, k))' = Calls("create", e, k)
        BY <2>1, <2>3, <2>6, <3>3 DEF Calls
      <4>2. bos'[e] = bos[e]
        BY <2>5, <3>3
      <4>3. (ListedAs(e, k))' = ListedAs(e, k) /\ \A i \in ListedAs(e, k) : bos'[e][i].data = bos[e][i].data
        BY <4>2 DEF ListedAs
      <4> QED
        BY <2>5, <3>1, <3>2, <4>1, <4>3, HandleSame
    <3>4. CASE e = f /\ k # h
      <4>1. (Calls("create", e, k))' = Calls("create", e, k)
        BY <2>1, <2>3, <2>6, <3>4 DEF Calls
      <4>2. (ListedAs(e, k))' = ListedAs(e, k)
        BY <2>4, <2>5, <2>10, <3>4, ListedAsEntries
      <4>3. \A i \in ListedAs(e, k) : bos'[e][i].data = bos[e][i].data
        BY <2>5, <2>10, <3>4, ListedAsEntries
      <4> QED
        BY <2>5, <3>1, <3>2, <4>1, <4>2, <4>3, HandleSame
    <3>5. CASE e = f /\ k = h
      <4>1. t \in Calls("create", e, k)
        BY <2>1, <2>6, <3>5 DEF Calls
      <4>2. (Calls("create", e, k))' = {}
        BY <2>3, <3>1, <4>1 DEF HandleInv, Calls
      <4>3. ~Given(e, k) /\ Given(e, k)'
        BY <2>1, <2>5, <3>5, <4>1, <4>2 DEF Given
      <4>4. Cardinality((ListedAs(e, k))') = Cardinality(ListedAs(e, k)) + 1
        BY <2>4, <2>5, <2>10, <3>5, ListedAsEntries
      <4>5. ASSUME NEW i \in (Newest(e, k))'
            PROVE  bos'[e][i].data = None
        <5>1. (ListedAs(e, k))' = ListedAs(e, k) \cup {Len(bos[f]) + 1}
          BY <2>4, <2>5, <2>10, <3>5, ListedAsEntries
        <5>2. \A l \in ListedAs(e, k) : l \in 1..Len(bos[f])
          BY <2>9, <3>5 DEF ListedAs
        <5>3. i = Len(bos[f]) + 1
          <6>1. i \in (ListedAs(e, k))' /\ Len(bos[f]) + 1 <= i /\ Len(bos[f]) + 1 \in Nat
            BY <2>8, <4>5, <5>1 DEF Newest
          <6>2. i \notin ListedAs(e, k)
            BY <5>2, <6>1
          <6> QED
            BY <5>1, <6>1, <6>2
        <5> QED
          BY <2>4, <2>5, <2>8, <3>5, <5>3
      <4>6. Cardinality(Calls("close", e, k)) \in Nat
        BY <3>1, FS_CardinalityType DEF HandleInv
      <4>7. Cardinality(ListedAs(e, k)) = Cardinality(Calls("close", e, k)) + 0
        BY <3>1, <4>3 DEF HandleInv
      <4>8. Cardinality((ListedAs(e, k))') = Cardinality((Calls("close", e, k))') + 1
        BY <3>2, <4>4, <4>6, <4>7
      <4>9. IsFiniteSet((Calls("close", e, k))')
        BY <3>1, <3>2 DEF HandleInv
      <4> QED
        BY <4>2, <4>3, <4>5, <4>8, <4>9 DEF HandleInv
    <3> QED
      BY <3>3, <3>4, <3>5
  <2> QED
    BY <2>11, <2>12, <2>13 DEF ShadowInv
<1> QED
  BY <1>1, <1>2, Zenon DEF GemCreateLeave, Listed

\* The program maps a buffer.
LEMMA GemMmapStep ==
  ASSUME ShadowInv, NEW t \in Threads, NEW f \in Files, NEW h \in Handles, GemMmap(t, f, h)
  PROVE  ShadowInv'
<1> DEFINE c == Call("mmap", f, h, gem[f][h], {h})
<1>1. /\ gem[f][h] # None /\ gem' = gem /\ bos' = bos
      /\ call' = [call EXCEPT ![t] = c] /\ call[t].op = "none"
  BY CallFields DEF GemMmap, Entered, Idle, shadow, kernel
<1>2. c.op = "mmap" /\ c.file = f /\ c.handle = h /\ c.obj = gem[f][h] /\ c.uses = {h}
  BY CallFields
<1> HIDE DEF c
<1>3. DOMAIN call' = Threads /\ call'[t] = c /\ \A s \in Threads \ {t} : call'[s] = call[s]
  BY <1>1, Tables
<1>4. TablesInv'
  BY <1>1, <1>3 DEF ShadowInv, TablesInv
<1>5. ASSUME NEW s \in Threads
      PROVE  CallInv(s)'
  <2>1. CASE s = t
    BY <1>1, <1>2, <1>3, <2>1 DEF CallInv
  <2>2. CASE s # t
    <3>1. CallInv(s) /\ call'[s] = call[s]
      BY <1>3, <2>2 DEF ShadowInv
    <3> QED
      BY <1>1, <3>1 DEF CallInv
  <2> QED
    BY <2>1, <2>2
<1>6. ASSUME NEW e \in Files, NEW k \in Handles
      PROVE  HandleInv(e, k)'
  <2>1. HandleInv(e, k) /\ (ListedAs(e, k))' = ListedAs(e, k)
    BY <1>1 DEF ShadowInv, ListedAs
  <2>2. (Calls("close", e, k))' = Calls("close", e, k) /\ (Calls("create", e, k))' = Calls("create", e, k)
    BY <1>1, <1>2, <1>3 DEF Calls
  <2> QED
    BY <1>1, <2>1, <2>2, HandleSame
<1> QED
  BY <1>4, <1>5, <1>6 DEF ShadowInv

\* record_set_bo_data: the first entry of the handle learns where the buffer is mapped.
LEMMA GemMmapLeaveStep ==
  ASSUME ShadowInv, NEW t \in Threads, GemMmapLeave(t)
  PROVE  ShadowInv'
<1> DEFINE f == call[t].file
           h == call[t].handle
           o == call[t].obj
<1>1. CASE Abort("invalid handle")
  BY <1>1, AbortStep
<1>2. ASSUME NEW i \in file_lookup_bo(f, h), gem' = gem,
             bos' = [bos EXCEPT ![f][i] = SetBoData(@, o)], Finish(t, <<>>)
      PROVE  ShadowInv'
  <2>1. call[t].op = "mmap" /\ f \in Files /\ h \in Handles /\ gem[f][h] # None /\ o = gem[f][h]
    BY DEF GemMmapLeave, Hook, ShadowInv, CallInv
  <2>2. PICK c : call' = [call EXCEPT ![t] = c] /\ c.op \in {"none", "return"}
    BY <1>2, FinishCall
  <2>3. /\ DOMAIN call' = Threads /\ call'[t].op \in {"none", "return"}
        /\ \A s \in Threads \ {t} : call'[s] = call[s]
    BY <2>2, Tables
  <2> DEFINE q == bos[f]
             b == SetBoData(q[i], o)
             r == [q EXCEPT ![i] = b]
  <2>4. i \in DOMAIN q /\ q[i].handle = h
    BY <1>2 DEF file_lookup_bo, IndexOf
  <2>5. DOMAIN bos' = Files /\ bos'[f] = r /\ \A e \in Files \ {f} : bos'[e] = bos[e]
    BY <1>2, <2>1, Tables
  <2>6. q \in Seq(Range(q)) /\ \A k \in DOMAIN q : q[k] = [x \in BoFields |-> q[k][x]]
    BY <2>1, Tables
  <2>7. /\ b = [x \in BoFields |-> b[x]] /\ b.handle = h
        /\ b.data \in {q[i].data, o}
    <3> DEFINE e == q[i]
    <3>1. e = [x \in BoFields |-> e[x]] /\ e.handle = h
      BY <2>4, <2>6
    <3>2. b = e \/ b = [e EXCEPT !.data = o]
      BY DEF SetBoData
    <3> HIDE DEF b, e, o, h
    <3>3. b = [x \in BoFields |-> b[x]] /\ b.handle = h /\ b.data \in {e.data, o}
      BY <3>1, <3>2 DEF BoFields
    <3> QED
      BY <3>3 DEF e
  <2> HIDE DEF q, b, o
  <2>8. Len(q) \in Nat /\ DOMAIN q = 1..Len(q)
    BY <2>6, ListIs
  <2>9. DOMAIN r = 1..Len(q) /\ r = [k \in 1..Len(q) |-> r[k]]
    BY <2>8
  <2>10. r \in Seq(Range(r)) /\ DOMAIN r = DOMAIN q
    BY <2>8, <2>9, IsList
  <2>11. /\ r[i] = b
         /\ \A k \in DOMAIN q : k # i => r[k] = q[k]
    BY <2>4
  <2> HIDE DEF r
  <2>12. \A k \in DOMAIN q : r[k] = [x \in BoFields |-> r[k][x]] /\ r[k].handle = q[k].handle
    <3>1. ASSUME NEW k \in DOMAIN q
          PROVE  r[k] = [x \in BoFields |-> r[k][x]] /\ r[k].handle = q[k].handle
      <4>1. CASE k = i
        BY <2>4, <2>7, <2>11, <4>1
      <4>2. CASE k # i
        BY <2>6, <2>11, <4>2
      <4> QED
        BY <4>1, <4>2
    <3> QED
      BY <3>1
  <2>13. TablesInv'
    <3>1. ASSUME NEW e \in Files
          PROVE  /\ bos'[e] \in Seq(Range(bos'[e]))
                 /\ \A k \in DOMAIN bos'[e] : bos'[e][k] = [x \in BoFields |-> bos'[e][k][x]]
      <4>1. CASE e = f
        BY <2>5, <2>10, <2>12, <4>1
      <4>2. CASE e # f
        <5>1. bos'[e] = bos[e]
          BY <2>5, <4>2
        <5> QED
          BY <5>1, Tables
      <4> QED
        BY <4>1, <4>2
    <3> QED
      BY <1>2, <2>3, <2>5, <3>1, Tables DEF TablesInv
  <2>14. ASSUME NEW s \in Threads
         PROVE  CallInv(s)'
    BY <1>2, <2>3 DEF ShadowInv, CallInv
  <2>15. ASSUME NEW e \in Files, NEW k \in Handles
         PROVE  HandleInv(e, k)'
    <3>1. HandleInv(e, k)
      BY DEF ShadowInv
    <3>2. (Calls("close", e, k))' = Calls("close", e, k) /\ (Calls("create", e, k))' = Calls("create", e, k)
      BY <2>1, <2>3 DEF Calls
    <3>3. CASE e # f
      <4>1. bos'[e] = bos[e]
        BY <2>5, <3>3
      <4>2. (ListedAs(e, k))' = ListedAs(e, k) /\ \A j \in ListedAs(e, k) : bos'[e][j].data = bos[e][j].data
        BY <4>1 DEF ListedAs
      <4> QED
        BY <1>2, <3>1, <3>2, <4>2, HandleSame
    <3>4. CASE e = f
      <4>1. (ListedAs(e, k))' = ListedAs(e, k) /\ i \in ListedAs(e, h)
        BY <2>4, <2>5, <2>10, <2>12, <3>4 DEF ListedAs, q
      <4>2. CASE k # h
        <5>1. \A j \in ListedAs(e, k) : j # i
          BY <2>4, <3>4, <4>2 DEF ListedAs, q
        <5>2. \A j \in ListedAs(e, k) : bos'[e][j].data = bos[e][j].data
          BY <2>5, <2>11, <3>4, <5>1 DEF ListedAs, q
        <5> QED
          BY <1>2, <3>1, <3>2, <4>1, <5>2, HandleSame
      <4>3. CASE k = h
        <5>1. (Newest(e, k))' = Newest(e, k) /\ (Given(e, k) <=> Given(e, k)')
          BY <1>2, <3>2, <4>1 DEF Newest, Given
        <5>2. ASSUME Given(e, k), NEW j \in Newest(e, k)
              PROVE  bos'[e][j].data \in {None, gem[e][k]}
          <6>1. bos[e][j].data \in {None, gem[e][k]} /\ j \in DOMAIN q
            BY <3>1, <3>4, <5>2 DEF HandleInv, Newest, ListedAs, q
          <6>2. CASE j = i
            BY <2>1, <2>5, <2>7, <2>11, <3>4, <4>3, <6>1, <6>2 DEF q
          <6>3. CASE j # i
            BY <2>5, <2>11, <3>4, <6>1, <6>3 DEF q
          <6> QED
            BY <6>2, <6>3
        <5> QED
          BY <1>2, <3>1, <3>2, <4>1, <5>1, <5>2 DEF HandleInv
      <4> QED
        BY <4>2, <4>3
    <3> QED
      BY <3>3, <3>4
  <2> QED
    BY <2>13, <2>14, <2>15 DEF ShadowInv
<1>3. CASE Abort("mmap failed")
  BY <1>3, AbortStep
<1> QED
  BY <1>1, <1>2, <1>3, Zenon DEF GemMmapLeave

\* The kernel closes a handle.
LEMMA GemCloseStep ==
  ASSUME ShadowInv, NEW t \in Threads, NEW f \in Files, NEW h \in Handles, GemClose(t, f, h)
  PROVE  ShadowInv'
<1> DEFINE c == Call("close", f, h, None, {})
<1>1. /\ gem[f][h] # None /\ gem' = [gem EXCEPT ![f][h] = None] /\ bos' = bos
      /\ call' = [call EXCEPT ![t] = c] /\ call[t].op = "none" /\ ~InUse(f, h)
  BY CallFields DEF GemClose, Entered, Idle, shadow
<1>2. c.op = "close" /\ c.file = f /\ c.handle = h
  BY CallFields
<1> HIDE DEF c
<1>3. DOMAIN call' = Threads /\ call'[t] = c /\ \A s \in Threads \ {t} : call'[s] = call[s]
  BY <1>1, Tables
<1>4. /\ gem' \in [Files -> [Handles -> Objs \cup {None}]]
      /\ gem'[f][h] = None
      /\ \A e \in Files, k \in Handles : e # f \/ k # h => gem'[e][k] = gem[e][k]
  BY <1>1, Tables
<1>5. TablesInv'
  BY <1>1, <1>3, <1>4 DEF ShadowInv, TablesInv
<1>6. /\ Calls("create", f, h) = {}
      /\ \A s \in Threads : call[s].op \in {"create", "mmap"} => call[s].file # f \/ call[s].handle # h
  BY <1>1, NotInUse
<1>7. ASSUME NEW s \in Threads
      PROVE  CallInv(s)'
  <2>1. CASE s = t
    BY <1>2, <1>3, <2>1 DEF CallInv
  <2>2. CASE s # t
    <3>1. CallInv(s) /\ call'[s] = call[s]
      BY <1>3, <2>2 DEF ShadowInv
    <3> QED
      BY <1>4, <1>6, <3>1 DEF CallInv
  <2> QED
    BY <2>1, <2>2
<1>8. ASSUME NEW e \in Files, NEW k \in Handles
      PROVE  HandleInv(e, k)'
  <2>1. HandleInv(e, k) /\ (ListedAs(e, k))' = ListedAs(e, k)
    BY <1>1 DEF ShadowInv, ListedAs
  <2>2. (Calls("create", e, k))' = Calls("create", e, k)
    BY <1>1, <1>2, <1>3 DEF Calls
  <2>3. CASE e # f \/ k # h
    <3>1. (Calls("close", e, k))' = Calls("close", e, k)
      BY <1>1, <1>2, <1>3, <2>3 DEF Calls
    <3>2. gem'[e][k] = gem[e][k]
      BY <1>4, <2>3
    <3> QED
      BY <1>1, <2>1, <2>2, <3>1, <3>2, HandleSame
  <2>4. CASE e = f /\ k = h
    <3>1. (Calls("close", e, k))' = Calls("close", e, k) \cup {t} /\ t \notin Calls("close", e, k)
      BY <1>1, <1>2, <1>3, <2>4 DEF Calls
    <3>2. IsFiniteSet(Calls("close", e, k)) /\ Cardinality(Calls("close", e, k)) \in Nat
      BY <2>1, FS_CardinalityType DEF HandleInv
    <3>3. /\ IsFiniteSet((Calls("close", e, k))')
          /\ Cardinality((Calls("close", e, k))') = Cardinality(Calls("close", e, k)) + 1
      BY <3>1, <3>2, FS_AddElement
    <3>4. Given(e, k) /\ ~Given(e, k)'
      BY <1>1, <1>4, <1>6, <2>4 DEF Given
    <3>5. Cardinality(ListedAs(e, k)) = Cardinality(Calls("close", e, k)) + 1
      BY <2>1, <3>4 DEF HandleInv
    <3>6. Cardinality((ListedAs(e, k))') = Cardinality((Calls("close", e, k))') + 0
      BY <2>1, <3>2, <3>3, <3>5
    <3> QED
      BY <2>1, <2>2, <3>3, <3>4, <3>6 DEF HandleInv
  <2> QED
    BY <2>3, <2>4
<1> QED
  BY <1>5, <1>7, <1>8 DEF ShadowInv

\* host1x_bo_free: the first entry of the handle, the one that has been closed longest.
LEMMA GemCloseLeaveStep ==
  ASSUME ShadowInv, NEW t \in Threads, GemCloseLeave(t)
  PROVE  ShadowInv'
<1> DEFINE f == call[t].file
           h == call[t].handle
<1>1. CASE Abort("invalid handle")
  BY <1>1, AbortStep
<1>2. ASSUME NEW i \in file_lookup_bo(f, h), gem' = gem,
             bos' = [bos EXCEPT ![f] = Unlisted(f, i)], NEW out1, Finish(t, out1)
      PROVE  ShadowInv'
  <2>1. call[t].op = "close" /\ f \in Files /\ h \in Handles
    BY DEF GemCloseLeave, Hook, ShadowInv, CallInv
  <2>2. PICK c : call' = [call EXCEPT ![t] = c] /\ c.op \in {"none", "return"}
    BY <1>2, FinishCall
  <2>3. /\ DOMAIN call' = Threads /\ call'[t].op \in {"none", "return"}
        /\ \A s \in Threads \ {t} : call'[s] = call[s]
    BY <2>2, Tables
  <2> DEFINE q == bos[f]
             r == RemoveAt(q, i)
  <2>4. i \in DOMAIN q /\ q[i].handle = h /\ \A k \in 1..i - 1 : q[k].handle # h
    BY <1>2 DEF file_lookup_bo, IndexOf
  <2>5. DOMAIN bos' = Files /\ bos'[f] = r /\ \A e \in Files \ {f} : bos'[e] = bos[e]
    BY <1>2, <2>1, Tables DEF Unlisted
  <2>6. q \in Seq(Range(q)) /\ \A k \in DOMAIN q : q[k] = [x \in BoFields |-> q[k][x]]
    BY <2>1, Tables
  <2>7. f = call[t].file /\ h = call[t].handle
    OBVIOUS
  <2> HIDE DEF q, f, h
  <2>8. Len(q) \in Nat /\ DOMAIN q = 1..Len(q)
    BY <2>6, ListIs
  <2>9. /\ r \in Seq(Range(r)) /\ DOMAIN r = 1..Len(q) - 1
        /\ \A k \in 1..Len(q) - 1 : r[k] = IF k < i THEN q[k] ELSE q[k + 1]
    BY <2>4, <2>6, RemoveAtList
  <2>10. i \in Entries(q, h)
    BY <2>4 DEF Entries
  <2>11. ASSUME NEW k
         PROVE  /\ Cardinality(Entries(r, k)) = Cardinality(Entries(q, k)) - IF k = h THEN 1 ELSE 0
                /\ \A l \in LastOf(r, k) : \E m \in LastOf(q, k) : r[l] = q[m]
    BY <2>4, <2>6, <2>10, EntriesRemoved
  <2> HIDE DEF r
  <2>12. TablesInv'
    <3>1. \A k \in DOMAIN r : r[k] = [x \in BoFields |-> r[k][x]]
      <4>1. ASSUME NEW k \in DOMAIN r
            PROVE  r[k] = [x \in BoFields |-> r[k][x]]
        <5>1. k \in 1..Len(q) /\ k + 1 \in 1..Len(q) /\ (r[k] = q[k] \/ r[k] = q[k + 1])
          BY <2>8, <2>9
        <5> QED
          BY <2>6, <2>8, <5>1
      <4> QED
        BY <4>1
    <3>2. ASSUME NEW e \in Files
          PROVE  /\ bos'[e] \in Seq(Range(bos'[e]))
                 /\ \A k \in DOMAIN bos'[e] : bos'[e][k] = [x \in BoFields |-> bos'[e][k][x]]
      <4>1. CASE e = f
        BY <2>5, <2>9, <3>1, <4>1
      <4>2. CASE e # f
        <5>1. bos'[e] = bos[e]
          BY <2>5, <4>2
        <5> QED
          BY <5>1, Tables
      <4> QED
        BY <4>1, <4>2
    <3> QED
      BY <1>2, <2>3, <2>5, <3>2, Tables DEF TablesInv
  <2>13. ASSUME NEW s \in Threads
         PROVE  CallInv(s)'
    BY <1>2, <2>3 DEF ShadowInv, CallInv
  <2>14. ASSUME NEW e \in Files, NEW k \in Handles
         PROVE  HandleInv(e, k)'
    <3>1. HandleInv(e, k)
      BY DEF ShadowInv
    <3>2. (Calls("create", e, k))' = Calls("create", e, k)
      BY <2>1, <2>3 DEF Calls
    <3>3. CASE e # f
      <4>1. bos'[e] = bos[e]
        BY <2>5, <3>3
      <4>2. (ListedAs(e, k))' = ListedAs(e, k) /\ \A j \in ListedAs(e, k) : bos'[e][j].data = bos[e][j].data
        BY <4>1 DEF ListedAs
      <4>3. (Calls("close", e, k))' = Calls("close", e, k)
        BY <2>1, <2>3, <2>7, <3>3 DEF Calls
      <4> QED
        BY <1>2, <3>1, <3>2, <4>2, <4>3, HandleSame
    <3>4. CASE e = f
      <4>1. Given(e, k)' <=> Given(e, k)
        BY <1>2, <3>2 DEF Given
      <4>2. /\ Cardinality((ListedAs(e, k))') = Cardinality(ListedAs(e, k)) - IF k = h THEN 1 ELSE 0
            /\ \A l \in (Newest(e, k))' : \E m \in Newest(e, k) : bos'[e][l] = bos[e][m]
        <5>1. ListedAs(e, k) = Entries(q, k) /\ (ListedAs(e, k))' = Entries(r, k)
              /\ Newest(e, k) = LastOf(q, k) /\ (Newest(e, k))' = LastOf(r, k)
          BY <2>5, <3>4, ListedAsEntries DEF q
        <5>2. bos'[e] = r /\ bos[e] = q
          BY <2>5, <3>4 DEF q
        <5> QED
          BY <2>11, <5>1, <5>2
      <4>3. /\ IsFiniteSet((Calls("close", e, k))')
            /\ Cardinality((Calls("close", e, k))')
                 = Cardinality(Calls("close", e, k)) - IF k = h THEN 1 ELSE 0
        <5>1. IsFiniteSet(Calls("close", e, k))
          BY <3>1 DEF HandleInv
        <5>2. (Calls("close", e, k))' = Calls("close", e, k) \ {t}
          BY <2>1, <2>3 DEF Calls
        <5>3. t \in Calls("close", e, k) <=> k = h
          BY <2>1, <2>7, <3>4 DEF Calls
        <5>4. /\ IsFiniteSet(Calls("close", e, k) \ {t})
              /\ Cardinality(Calls("close", e, k) \ {t})
                   = IF t \in Calls("close", e, k) THEN Cardinality(Calls("close", e, k)) - 1
                     ELSE Cardinality(Calls("close", e, k))
          BY <5>1, FS_RemoveElement
        <5>5. Cardinality(Calls("close", e, k)) \in Nat
          BY <5>1, FS_CardinalityType
        <5> DEFINE C == Calls("close", e, k)
                   n == Cardinality(C)
                   m == Cardinality(C \ {t})
        <5>6. m = IF t \in C THEN n - 1 ELSE n
          BY <5>4
        <5>7. n \in Nat /\ (t \in C <=> k = h)
          BY <5>3, <5>5
        <5> HIDE DEF n, m, C
        <5>8. m = n - IF k = h THEN 1 ELSE 0
          BY <5>6, <5>7
        <5> QED
          BY <5>2, <5>4, <5>8 DEF n, m, C
      <4>4. Cardinality(Calls("close", e, k)) \in Nat
        BY <3>1, FS_CardinalityType DEF HandleInv
      <4>5. Cardinality(ListedAs(e, k)) = Cardinality(Calls("close", e, k)) + IF Given(e, k) THEN 1 ELSE 0
        BY <3>1 DEF HandleInv
      <4>6. Cardinality((ListedAs(e, k))') = Cardinality((Calls("close", e, k))') + IF Given(e, k)' THEN 1 ELSE 0
        <5> DEFINE a == Cardinality(ListedAs(e, k))
                   b == Cardinality(Calls("close", e, k))
                   d == IF k = h THEN 1 ELSE 0
                   g == IF Given(e, k) THEN 1 ELSE 0
        <5>1. a = b + g /\ b \in Nat /\ d \in Int /\ g \in Int
          BY <4>4, <4>5
        <5>2. Cardinality((ListedAs(e, k))') = a - d /\ Cardinality((Calls("close", e, k))') = b - d
          BY <4>2, <4>3
        <5> HIDE DEF a, b, d
        <5>3. Cardinality((ListedAs(e, k))') = Cardinality((Calls("close", e, k))') + g
          BY <5>1, <5>2
        <5> QED
          BY <4>1, <5>3
      <4>7. ASSUME Given(e, k)', NEW l \in (Newest(e, k))'
            PROVE  bos'[e][l].data \in {None, gem'[e][k]}
        <5>1. PICK m \in Newest(e, k) : bos'[e][l] = bos[e][m]
          BY <4>2
        <5> QED
          BY <1>2, <3>1, <4>1, <4>7, <5>1 DEF HandleInv
      <4> QED
        BY <3>1, <3>2, <4>3, <4>6, <4>7 DEF HandleInv
    <3> QED
      BY <3>3, <3>4
  <2> QED
    BY <2>12, <2>13, <2>14 DEF ShadowInv
<1>3. gem' = gem \/ Abort("invalid handle")
  BY DEF GemCloseLeave, kernel
<1> QED
  BY <1>1, <1>2, <1>3, Zenon DEF GemCloseLeave, kernel

\* host1x_file_release: no call is in the file.
LEMMA CloseFileStep ==
  ASSUME ShadowInv, NEW t \in Threads, NEW f \in Files, CloseFile(t, f)
  PROVE  ShadowInv'
<1> DEFINE c == Call("return", f, None, None, {})
<1>1. CASE Abort("ctx is NULL")
  BY <1>1, AbortStep
<1>2. CASE /\ gem' = [gem EXCEPT ![f] = [h \in Handles |-> None]]
           /\ bos' = [bos EXCEPT ![f] = <<>>]
           /\ call' = [call EXCEPT ![t] = NoCall] \/ call' = [call EXCEPT ![t] = c]
  <2>1. call[t].op = "none" /\ \A s \in Threads : call[s].file # f
    BY CallFields DEF CloseFile, Idle, Busy
  <2>2. c.op = "return" /\ NoCall.op = "none"
    BY CallFields
  <2> HIDE DEF c
  <2>3. /\ DOMAIN call' = Threads /\ call'[t].op \in {"none", "return"}
        /\ \A s \in Threads \ {t} : call'[s] = call[s]
    BY <1>2, <2>2, Tables
  <2>4. /\ gem' \in [Files -> [Handles -> Objs \cup {None}]]
        /\ \A h \in Handles : gem'[f][h] = None
        /\ \A e \in Files \ {f} : gem'[e] = gem[e]
    BY <1>2, Tables
  <2>5. DOMAIN bos' = Files /\ bos'[f] = <<>> /\ \A e \in Files \ {f} : bos'[e] = bos[e]
    BY <1>2, Tables
  <2>6. TablesInv'
    <3>1. <<>> \in Seq(Range(<<>>)) /\ DOMAIN <<>> = {}
      OBVIOUS
    <3>2. ASSUME NEW e \in Files
          PROVE  /\ bos'[e] \in Seq(Range(bos'[e]))
                 /\ \A k \in DOMAIN bos'[e] : bos'[e][k] = [x \in BoFields |-> bos'[e][k][x]]
      <4>1. CASE e = f
        BY <2>5, <3>1, <4>1
      <4>2. CASE e # f
        <5>1. bos'[e] = bos[e]
          BY <2>5, <4>2
        <5> QED
          BY <5>1, Tables
      <4> QED
        BY <4>1, <4>2
    <3> QED
      BY <2>3, <2>4, <2>5, <3>2 DEF TablesInv
  <2>7. ASSUME NEW s \in Threads
        PROVE  CallInv(s)'
    <3>1. CASE s = t
      BY <2>3, <3>1 DEF CallInv
    <3>2. CASE s # t
      <4>1. CallInv(s) /\ call'[s] = call[s] /\ call[s].file # f
        BY <2>1, <2>3, <3>2 DEF ShadowInv
      <4> QED
        BY <2>4, <4>1 DEF CallInv
    <3> QED
      BY <3>1, <3>2
  <2>8. ASSUME NEW e \in Files, NEW k \in Handles
        PROVE  HandleInv(e, k)'
    <3>1. CASE e = f
      <4>1. (Calls("create", e, k))' = {} /\ (Calls("close", e, k))' = {}
        BY <2>1, <2>3, <3>1 DEF Calls
      <4>2. (ListedAs(e, k))' = {} /\ (Newest(e, k))' = {}
        <5>1. DOMAIN bos'[e] = {}
          BY <2>5, <3>1
        <5> QED
          BY <5>1 DEF ListedAs, Newest
      <4>3. ~Given(e, k)'
        BY <2>4, <3>1 DEF Given
      <4>4. IsFiniteSet({}) /\ Cardinality({}) = 0 + 0
        BY FS_EmptySet
      <4> QED
        BY <4>1, <4>2, <4>3, <4>4 DEF HandleInv
    <3>2. CASE e # f
      <4>1. (Calls("create", e, k))' = Calls("create", e, k) /\ (Calls("close", e, k))' = Calls("close", e, k)
        BY <2>1, <2>3 DEF Calls
      <4>2. gem'[e] = gem[e] /\ bos'[e] = bos[e]
        BY <2>4, <2>5, <3>2
      <4>3. (ListedAs(e, k))' = ListedAs(e, k) /\ \A j \in ListedAs(e, k) : bos'[e][j].data = bos[e][j].data
        BY <4>2 DEF ListedAs
      <4> QED
        BY <4>1, <4>2, <4>3, HandleSame DEF ShadowInv
    <3> QED
      BY <3>1, <3>2
  <2> QED
    BY <2>6, <2>7, <2>8 DEF ShadowInv
<1> QED
  BY <1>1, <1>2 DEF CloseFile, Return

-----------------------------------------------------------------------------
(* The invariant *)

LEMMA InitShadow ==
  ASSUME Init
  PROVE  ShadowInv
<1>1. /\ gem = [f \in Files |-> [h \in Handles |-> None]]
      /\ bos = [f \in Files |-> <<>>]
      /\ call = [t \in Threads |-> NoCall]
  BY DEF Init, RecorderInit
<1>2. \A t \in Threads : call[t].op = "none"
  BY <1>1, CallFields
<1>3. TablesInv
  <2>1. <<>> \in Seq(Range(<<>>)) /\ DOMAIN <<>> = {}
    OBVIOUS
  <2> QED
    BY <1>1, <2>1 DEF TablesInv
<1>4. \A t \in Threads : CallInv(t)
  BY <1>2 DEF CallInv
<1>5. ASSUME NEW f \in Files, NEW h \in Handles
      PROVE  HandleInv(f, h)
  <2>1. Calls("create", f, h) = {} /\ Calls("close", f, h) = {} /\ ~Given(f, h)
    BY <1>1, <1>2 DEF Calls, Given
  <2>2. ListedAs(f, h) = {} /\ Newest(f, h) = {}
    <3>1. DOMAIN bos[f] = {}
      BY <1>1
    <3> QED
      BY <3>1 DEF ListedAs, Newest
  <2>3. IsFiniteSet({}) /\ Cardinality({}) = 0 + 0
    BY FS_EmptySet
  <2> QED
    BY <2>1, <2>2, <2>3 DEF HandleInv
<1> QED
  BY <1>3, <1>4, <1>5 DEF ShadowInv

LEMMA NextShadow ==
  ASSUME ShadowInv, Next, "bad" \notin program.ops
  PROVE  ShadowInv'
<1>1. CASE \E t \in Threads, f \in Files : StartOver(t, f)
  BY <1>1, OpenSteps
<1>2. CASE \E t \in Threads : record_write_data(t)
  BY <1>2, WriteStep
<1>3. CASE RecorderNext
  <2>1. ASSUME NEW t \in Threads, NEW f \in Files,
               \/ OpenFile(t, f) \/ CloseFile(t, f) \/ CloseFd(t, f)
               \/ \E h \in Handles :
                   \/ GemMmap(t, f, h) \/ GemClose(t, f, h) \/ SetFlags(t, f, h)
                   \/ BadHandle(t, f, h)
                   \/ \E o \in Objs : GemCreate(t, f, h, o)
                   \/ \E b \in FbIds : AddFb(t, f, h, b)
               \/ \E b \in FbIds : RmFb(t, f, b) \/ Display(t, f, b)
               \/ \E c \in Chans :
                   \/ OpenChannel(t, f, c) \/ CloseChannel(t, f, c)
                   \/ \E g \in Handles, T \in SUBSET Handles :
                       \E w \in Jobs(T) : Submit(t, f, c, g, T, w)
        PROVE  ShadowInv'
    <3>1. CASE OpenFile(t, f)
      BY <3>1, OpenSteps
    <3>2. CASE CloseFile(t, f)
      BY <3>2, CloseFileStep
    <3>3. ASSUME NEW h \in Handles, GemMmap(t, f, h) \/ GemClose(t, f, h) \/ SetFlags(t, f, h)
          PROVE  ShadowInv'
      BY <3>3, GemMmapStep, GemCloseStep, HandleUses
    <3>4. ASSUME NEW h \in Handles, BadHandle(t, f, h)
          PROVE  ShadowInv'
      BY <3>4 DEF BadHandle
    <3>5. ASSUME NEW h \in Handles, NEW o \in Objs, GemCreate(t, f, h, o)
          PROVE  ShadowInv'
      BY <3>5, GemCreateStep
    <3>6. ASSUME NEW h \in Handles, NEW b \in FbIds, AddFb(t, f, h, b)
          PROVE  ShadowInv'
      BY <3>6, HandleUses
    <3>7. ASSUME NEW b \in FbIds, RmFb(t, f, b) \/ Display(t, f, b)
          PROVE  ShadowInv'
      BY <3>7, FbSteps, DisplaySteps
    <3>8. ASSUME NEW c \in Chans, OpenChannel(t, f, c) \/ CloseChannel(t, f, c)
          PROVE  ShadowInv'
      BY <3>8, ChannelSteps
    <3>9. ASSUME NEW c \in Chans, NEW g \in Handles, NEW T \in SUBSET Handles, NEW w \in Jobs(T),
                 Submit(t, f, c, g, T, w)
          PROVE  ShadowInv'
      BY <3>9, SubmitStep
    <3>10. CASE CloseFd(t, f)
      BY <3>10, SameStep DEF CloseFd, shadow
    <3> QED
      BY <2>1, <3>1, <3>2, <3>3, <3>4, <3>5, <3>6, <3>7, <3>8, <3>9, <3>10, Zenon
  <2>2. ASSUME NEW t \in Threads,
               \/ Started(t) \/ Counted(t) \/ GemCreateLeave(t) \/ GemMmapLeave(t) \/ GemCloseLeave(t)
               \/ AddFbLeave(t) \/ FbKernel(t) \/ OpenChannelLeave(t) \/ CloseChannelLeave(t)
               \/ SubmitKernel(t) \/ DiskFull(t)
        PROVE  ShadowInv'
    <3>1. CASE Started(t) \/ Counted(t)
      BY <3>1, OpenSteps
    <3>2. CASE GemCreateLeave(t) \/ GemMmapLeave(t) \/ GemCloseLeave(t)
      BY <3>2, GemCreateLeaveStep, GemMmapLeaveStep, GemCloseLeaveStep
    <3>3. CASE AddFbLeave(t)
      BY <3>3, FbSteps
    <3>4. CASE FbKernel(t) \/ SubmitKernel(t)
      BY <3>4, DisplaySteps
    <3>5. CASE OpenChannelLeave(t) \/ CloseChannelLeave(t)
      BY <3>5, ChannelSteps
    <3>6. CASE DiskFull(t)
      BY <3>6, AbortStep DEF DiskFull
    <3> QED
      BY <2>2, <3>1, <3>2, <3>3, <3>4, <3>5, <3>6
  <2>3. ASSUME NEW t \in Threads, NEW f \in Files, NEW h \in Handles, NEW p \in PageNos, NEW v \in Values,
               CpuWrite(t, f, h, p, v)
        PROVE  ShadowInv'
    BY <2>3, HandleUses
  <2> QED
    BY <1>3, <2>1, <2>2, <2>3, Zenon DEF RecorderNext
<1> QED
  BY <1>1, <1>2, <1>3 DEF Next

\* In every state that a program with good handles reaches, libwrap lists every handle
\* once for its own buffer and once for every earlier one whose GEM_CLOSE has not come
\* back, and the newest of these entries is its own (host1x_bo_new, host1x_bo_free).
THEOREM InductiveInvariant == Spec => []IInv
<1>1. Init => IInv
  BY InitShadow DEF IInv
<1>2. IInv /\ [Next]_vars => IInv'
  <2> SUFFICES ASSUME IInv, [Next]_vars, "bad" \notin program'.ops
               PROVE  ShadowInv'
    BY DEF IInv
  <2>1. CASE Next
    <3>1. program' = program
      BY <2>1 DEF Next, StartOver, record_write_data
    <3> QED
      BY <2>1, <3>1, NextShadow DEF IInv
  <2>2. CASE UNCHANGED vars
    <3>1. UNCHANGED <<gem, bos, call, program>>
      BY <2>2 DEF vars, recVars, kernel, shadow
    <3> QED
      BY <3>1, SameStep DEF IInv
  <2> QED
    BY <2>1, <2>2
<1> QED
  BY <1>1, <1>2, PTL DEF Spec

\* Between calls the list holds exactly the handles the kernel has given out, each once,
\* and where it says a buffer is mapped, that is the buffer's own memory, however the
\* threads' calls interleave between kernel and hooks.
THEOREM ShadowCorrect == Spec => []("bad" \notin program.ops => ShadowFollowsKernel)
<1>1. ASSUME IInv, "bad" \notin program.ops
      PROVE  ShadowFollowsKernel
  <2> SUFFICES ASSUME Quiescent, NEW f \in Recorded, NEW h \in Handles
               PROVE  LET of == {i \in DOMAIN bos[f] : bos[f][i].handle = h} IN
                      /\ Cardinality(of) = IF gem[f][h] = None THEN 0 ELSE 1
                      /\ \A i \in of : bos[f][i].data \in {None, gem[f][h]}
    BY DEF ShadowFollowsKernel
  <2>1. ShadowInv /\ f \in Files
    BY <1>1 DEF IInv, Recorded
  <2>2. HandleInv(f, h) /\ bos[f] \in Seq(Range(bos[f]))
    BY <2>1, Tables DEF ShadowInv
  <2>3. \A t \in Threads : call[t].op = "none"
    BY CallFields DEF Quiescent
  <2>4. Calls("create", f, h) = {} /\ Calls("close", f, h) = {}
    BY <2>3 DEF Calls
  <2>5. Given(f, h) <=> gem[f][h] # None
    BY <2>4 DEF Given
  <2>6. Cardinality(ListedAs(f, h)) = IF gem[f][h] = None THEN 0 ELSE 1
    <3>1. Cardinality(Calls("close", f, h)) = 0
      BY <2>4, FS_EmptySet
    <3>2. Cardinality(ListedAs(f, h)) = 0 + IF Given(f, h) THEN 1 ELSE 0
      BY <2>2, <3>1 DEF HandleInv
    <3> QED
      BY <2>5, <3>2
  <2>7. IsFiniteSet(ListedAs(f, h)) /\ \A k \in ListedAs(f, h) : k \in Nat
    BY <2>2, FiniteEntries, ListedAsEntries
  <2>8. ASSUME NEW i \in ListedAs(f, h)
        PROVE  bos[f][i].data \in {None, gem[f][h]}
    <3>1. gem[f][h] # None
      BY <2>6, <2>7, FS_EmptySet
    <3>2. PICK x : ListedAs(f, h) = {x}
      BY <2>6, <2>7, <3>1, FS_Singleton
    <3>3. i \in Nat /\ \A k \in ListedAs(f, h) : k = i
      BY <2>7, <3>2
    <3>4. i \in Newest(f, h)
      BY <3>3 DEF Newest
    <3> QED
      BY <2>2, <2>5, <3>1, <3>4 DEF HandleInv
  <2> QED
    BY <2>6, <2>8 DEF ListedAs
<1> QED
  BY <1>1, InductiveInvariant, PTL

-----------------------------------------------------------------------------
(* A program of one thread survives *)

\* Every nonempty set of numbers has a least member.
LEMMA LeastNat ==
  ASSUME NEW T \in SUBSET Nat, T # {}
  PROVE  \E m \in T : \A k \in T : m <= k
<1>1. IsWellFoundedOn(OpToRel(<, Nat), Nat)
  BY NatLessThanWellFounded
<1>2. PICK m \in T : \A k \in T : ~(<<k, m>> \in OpToRel(<, Nat))
  BY <1>1, WFMin
<1>3. \A k \in T : ~(k < m)
  BY <1>2 DEF OpToRel
<1> QED
  BY <1>3

\* host1x_file_lookup_bo finds a handle that is listed.
LEMMA LookupFinds ==
  ASSUME ShadowInv, NEW f \in Files, NEW h, ListedAs(f, h) # {}
  PROVE  file_lookup_bo(f, h) # {}
<1>1. bos[f] \in Seq(Range(bos[f]))
  BY Tables
<1>2. Len(bos[f]) \in Nat /\ DOMAIN bos[f] = 1..Len(bos[f])
  BY <1>1, ListIs
<1>3. ListedAs(f, h) \in SUBSET Nat
  BY <1>2 DEF ListedAs
<1>4. PICK m \in ListedAs(f, h) : \A k \in ListedAs(f, h) : m <= k
  BY <1>3, LeastNat
<1>5. m \in 1..Len(bos[f]) /\ bos[f][m].handle = h
  BY <1>2 DEF ListedAs
<1>6. ASSUME NEW j \in 1..m - 1
      PROVE  ~(bos[f][j].handle = h)
  <2>1. j \in DOMAIN bos[f] /\ ~(m <= j)
    BY <1>2, <1>5
  <2> QED
    BY <1>4, <2>1 DEF ListedAs
<1>7. m \in file_lookup_bo(f, h)
  BY <1>2, <1>5, <1>6 DEF file_lookup_bo, IndexOf
<1> QED
  BY <1>7

\* What is found is listed.
LEMMA FoundListed ==
  ASSUME NEW f, NEW h, NEW i \in file_lookup_bo(f, h)
  PROVE  i \in ListedAs(f, h)
BY DEF file_lookup_bo, IndexOf, ListedAs

\* A handle whose creation has come back, or that is being closed, is found.
LEMMA GivenFound ==
  ASSUME ShadowInv, NEW f \in Files, NEW h \in Handles, Given(f, h) \/ Calls("close", f, h) # {}
  PROVE  file_lookup_bo(f, h) # {}
<1>1. HandleInv(f, h)
  BY DEF ShadowInv
<1>2. IsFiniteSet(Calls("close", f, h)) /\ Cardinality(Calls("close", f, h)) \in Nat
  BY <1>1, FS_CardinalityType DEF HandleInv
<1>3. Calls("close", f, h) # {} => Cardinality(Calls("close", f, h)) # 0
  BY <1>2, FS_EmptySet
<1>4. Cardinality(ListedAs(f, h)) # 0
  BY <1>1, <1>2, <1>3 DEF HandleInv
<1>5. ListedAs(f, h) # {}
  BY <1>4, FS_EmptySet
<1> QED
  BY <1>5, LookupFinds

LEMMA HandFound ==
  ASSUME ShadowInv, NEW f \in Files, NEW h \in Handles, gem[f][h] # None, ~InUse(f, h)
  PROVE  Given(f, h) /\ file_lookup_bo(f, h) # {}
<1>1. Given(f, h)
  BY NotInUse DEF Given
<1> QED
  BY <1>1, GivenFound

-----------------------------------------------------------------------------
(* The parts that a step leaves alone                                      *)

LEMMA ContextSame ==
  ASSUME ShadowInv, ContextInv, NEW t \in Threads, NEW c, call' = [call EXCEPT ![t] = c],
         call[t].op # "start", c.op # "counting",
         UNCHANGED <<rec_ctx, inited, enabled, ctx_cnt>>
  PROVE  ContextInv'
<1>1. DOMAIN call = Threads
  BY Tables
<1> QED
  BY <1>1 DEF ContextInv

\* Threads outside of a handle's creation and of GEM_CLOSE, before and after.
LEMMA UsesSame ==
  ASSUME SurvivalInv, gem' = gem, NEW t \in Threads,
         DOMAIN call' = Threads, \A s \in Threads \ {t} : call'[s] = call[s],
         call[t].op \notin {"create", "close"},
         call'[t].op \notin {"create", "close", "mmap", "addfb"}
  PROVE  \A s \in Threads : UsesInv(s)'
<1>1. \A f, h : (Calls("create", f, h))' = Calls("create", f, h)
  BY DEF Calls
<1>2. \A f, h : Given(f, h)' <=> Given(f, h)
  BY <1>1 DEF Given
<1> QED
  BY <1>2 DEF SurvivalInv, UsesInv

LEMMA MappedSame ==
  ASSUME SurvivalInv, gem' = gem, mapped' = mapped, NEW t \in Threads,
         DOMAIN call' = Threads, \A s \in Threads \ {t} : call'[s] = call[s],
         call[t].op \notin {"create", "close"}, call'[t].op \notin {"create", "close"},
         \A f \in Files : /\ DOMAIN bos'[f] = DOMAIN bos[f]
                          /\ \A i \in DOMAIN bos[f] : /\ bos'[f][i].handle = bos[f][i].handle
                                                      /\ bos'[f][i].data = bos[f][i].data
  PROVE  \A f \in Files, h \in Handles : MappedInv(f, h)'
<1> SUFFICES ASSUME NEW f \in Files, NEW h \in Handles
             PROVE  MappedInv(f, h)'
  OBVIOUS
<1>1. (Calls("create", f, h))' = Calls("create", f, h) /\ (Calls("close", f, h))' = Calls("close", f, h)
  BY DEF Calls
<1>2. (ListedAs(f, h))' = ListedAs(f, h) /\ \A i \in ListedAs(f, h) : bos'[f][i].data = bos[f][i].data
  BY DEF ListedAs
<1>3. MappedInv(f, h)
  BY DEF SurvivalInv
<1> QED
  BY <1>1, <1>2, <1>3 DEF MappedInv, Given

\* A step from a call outside of those to another one.
LEMMA QuietStep ==
  ASSUME ShadowInv, SurvivalInv, UNCHANGED <<gem, mapped, bos, aborted>>,
         NEW t \in Threads, NEW c, call' = [call EXCEPT ![t] = c],
         call[t].op \notin {"create", "close"}, c.op \notin {"create", "close", "mmap", "addfb"}
  PROVE  ContextInv' => SurvivalInv'
<1>1. DOMAIN call' = Threads /\ call'[t] = c /\ \A s \in Threads \ {t} : call'[s] = call[s]
  BY Tables
<1>2. \A s \in Threads : UsesInv(s)'
  BY <1>1, UsesSame
<1>3. \A f \in Files, h \in Handles : MappedInv(f, h)'
  BY <1>1, MappedSame
<1> QED
  BY <1>2, <1>3 DEF SurvivalInv, Alive

LEMMA StillStep ==
  ASSUME SurvivalInv, UNCHANGED <<gem, mapped, bos, aborted, call, rec_ctx, inited, enabled, ctx_cnt>>
  PROVE  SurvivalInv'
<1>1. \A f, h : /\ (Calls("create", f, h))' = Calls("create", f, h)
                /\ (Calls("close", f, h))' = Calls("close", f, h)
                /\ (ListedAs(f, h))' = ListedAs(f, h)
                /\ Given(f, h)' <=> Given(f, h)
  BY DEF Calls, ListedAs, Given
<1>2. \A s \in Threads : UsesInv(s)'
  BY <1>1 DEF SurvivalInv, UsesInv
<1>3. \A f \in Files, h \in Handles : MappedInv(f, h)'
  BY <1>1 DEF SurvivalInv, MappedInv
<1>4. ContextInv'
  BY DEF SurvivalInv, ContextInv
<1> QED
  BY <1>2, <1>3, <1>4 DEF SurvivalInv, Alive

LEMMA QuietTo ==
  ASSUME ShadowInv, SurvivalInv,
         UNCHANGED <<gem, mapped, bos, aborted, rec_ctx, inited, enabled, ctx_cnt>>,
         NEW t \in Threads, NEW c, call' = [call EXCEPT ![t] = c],
         call[t].op \notin {"create", "close", "start"},
         c.op \notin {"create", "close", "mmap", "addfb", "counting"}
  PROVE  SurvivalInv'
<1>1. ContextInv'
  BY ContextSame DEF SurvivalInv
<1> QED
  BY <1>1, QuietStep

LEMMA QuietCall ==
  ASSUME ShadowInv, SurvivalInv,
         UNCHANGED <<gem, mapped, bos, aborted, rec_ctx, inited, enabled, ctx_cnt>>,
         NEW t \in Threads, NEW op, NEW f, NEW h, NEW o, NEW u,
         call' = [call EXCEPT ![t] = Call(op, f, h, o, u)],
         call[t].op \notin {"create", "close", "start"},
         op \notin {"create", "close", "mmap", "addfb", "counting"}
  PROVE  SurvivalInv'
<1> DEFINE c == Call(op, f, h, o, u)
<1>1. c.op = op /\ call' = [call EXCEPT ![t] = c]
  BY CallFields
<1> HIDE DEF c
<1> QED
  BY <1>1, QuietTo

LEMMA QuietReturn ==
  ASSUME ShadowInv, SurvivalInv,
         UNCHANGED <<gem, mapped, bos, aborted, rec_ctx, inited, enabled, ctx_cnt>>,
         NEW t \in Threads, call' = [call EXCEPT ![t] = NoCall],
         call[t].op \notin {"create", "close", "start"}
  PROVE  SurvivalInv'
BY QuietCall DEF NoCall

-----------------------------------------------------------------------------
(* Steps that leave the handles alone                                      *)

\* open(): with one thread nobody else is starting the recorder.
LEMMA OpenSurvives ==
  ASSUME ShadowInv, SurvivalInv, NEW t \in Threads, \A s \in Threads : s = t, NEW f \in Files,
         OpenFile(t, f) \/ StartOver(t, f)
  PROVE  SurvivalInv'
<1>1. call[t].op = "none" /\ UNCHANGED <<gem, mapped, bos, aborted>>
  BY CallFields DEF OpenFile, StartOver, StartAgain, Idle, kernel, shadow
<1>2. enabled \/ ~inited
  BY <1>1 DEF SurvivalInv, ContextInv
<1>3. DOMAIN call = Threads
  BY Tables
<1>4. ~StartOver(t, f)
  BY <1>1 DEF StartOver, StartAgain
<1>5. CASE enabled /\ NewContext(t, f) /\ UNCHANGED <<rec_ctx, inited, enabled, ctx_cnt>>
  <2> DEFINE c == Counting(f, ctx_cnt)
  <2>1. call' = [call EXCEPT ![t] = c] /\ c.op = "counting" /\ c.count = ctx_cnt
    BY <1>5 DEF NewContext, Counting
  <2> HIDE DEF c
  <2>2. ContextInv'
    BY <1>3, <1>5, <2>1 DEF SurvivalInv, ContextInv
  <2> QED
    BY <1>1, <2>1, <2>2, QuietStep
<1>6. CASE record_start(t, f) /\ UNCHANGED <<rec_ctx, enabled, ctx_cnt>>
  <2> DEFINE c == Call("start", f, None, None, {})
  <2>1. call' = [call EXCEPT ![t] = c] /\ c.op = "start"
    BY <1>6, CallFields DEF record_start
  <2> HIDE DEF c
  <2>2. ContextInv'
    BY <1>3, <1>6, <2>1 DEF SurvivalInv, ContextInv
  <2> QED
    BY <1>1, <2>1, <2>2, QuietStep
<1> QED
  BY <1>2, <1>4, <1>5, <1>6 DEF OpenFile

LEMMA StartedSurvives ==
  ASSUME ShadowInv, SurvivalInv, NEW t \in Threads, Started(t)
  PROVE  SurvivalInv'
<1> DEFINE c == Counting(call[t].file, ctx_cnt)
<1>1. /\ call[t].op = "start" /\ UNCHANGED <<gem, mapped, bos, aborted, rec_ctx, ctx_cnt>>
      /\ enabled' = TRUE
      /\ call' = [call EXCEPT ![t] = c]
  BY DEF Started, NewContext, kernel, shadow
<1>2. c.op = "counting" /\ c.count = ctx_cnt
  BY DEF Counting
<1> HIDE DEF c
<1>3. DOMAIN call = Threads
  BY Tables
<1>4. ContextInv'
  BY <1>1, <1>2, <1>3 DEF SurvivalInv, ContextInv
<1> QED
  BY <1>1, <1>2, <1>4, QuietStep

LEMMA CountedSurvives ==
  ASSUME ShadowInv, SurvivalInv, NEW t \in Threads, Counted(t)
  PROVE  SurvivalInv'
<1> DEFINE n == call[t].count
           f == call[t].file
           c == Call("opening", f, None, None, {})
<1>1. /\ call[t].op = "counting" /\ UNCHANGED <<gem, mapped, bos, aborted, inited, enabled>>
      /\ rec_ctx' = [rec_ctx EXCEPT ![f] = n % IdMod]
      /\ ctx_cnt' = n + 1
      /\ call' = [call EXCEPT ![t] = c]
  BY DEF Counted, kernel
<1>2. c.op = "opening"
  BY CallFields
<1> HIDE DEF c
<1>3. DOMAIN call = Threads /\ n \in Nat
  BY <1>1, Tables DEF SurvivalInv, ContextInv
<1>4. n % IdMod # NullCtx /\ n + 1 \in Nat
  BY <1>3, FormatAssumption DEF NullCtx
<1> HIDE DEF n, f
<1>5. ContextInv'
  BY <1>1, <1>2, <1>3, <1>4 DEF SurvivalInv, ContextInv
<1> QED
  BY <1>1, <1>2, <1>5, QuietStep

LEMMA WriteSurvives ==
  ASSUME ShadowInv, SurvivalInv, NEW t \in Threads, record_write_data(t)
  PROVE  SurvivalInv'
<1>1. UNCHANGED <<gem, mapped, bos, aborted, rec_ctx, inited, enabled, ctx_cnt>>
  BY DEF record_write_data, kernel, shadow, recorder
<1>2. \/ call' = call
      \/ call[t].op \in {"opening", "return"} /\ call' = [call EXCEPT ![t] = NoCall]
  BY DEF record_write_data
<1> QED
  BY <1>1, <1>2, QuietReturn, StillStep

LEMMA ChannelSurvives ==
  ASSUME ShadowInv, SurvivalInv, NEW t \in Threads, NEW f, NEW c,
         OpenChannel(t, f, c) \/ CloseChannel(t, f, c) \/ OpenChannelLeave(t) \/ CloseChannelLeave(t)
  PROVE  SurvivalInv'
<1>1. CASE OpenChannel(t, f, c) \/ CloseChannel(t, f, c)
  <2>1. /\ call[t].op = "none"
        /\ UNCHANGED <<gem, mapped, bos, aborted, rec_ctx, inited, enabled, ctx_cnt>>
        /\ \/ call' = [call EXCEPT ![t] = Call("open_channel", f, c, None, {})]
           \/ call' = [call EXCEPT ![t] = Call("close_channel", f, c, None, {})]
    BY <1>1, CallFields DEF OpenChannel, CloseChannel, Entered, Idle, kernel, shadow, recorder
  <2> QED
    BY <2>1, QuietCall
<1>2. CASE OpenChannelLeave(t) \/ CloseChannelLeave(t)
  <2>1. /\ call[t].op \in {"open_channel", "close_channel"} /\ \E s : Finish(t, s)
        /\ UNCHANGED <<gem, mapped, bos, aborted, rec_ctx, inited, enabled, ctx_cnt>>
    BY <1>2 DEF OpenChannelLeave, CloseChannelLeave, Hook, Finish, Write, kernel
  <2>2. PICK d : call' = [call EXCEPT ![t] = d] /\ d.op \in {"none", "return"}
    BY <2>1, FinishCall
  <2> QED
    BY <2>1, <2>2, QuietTo
<1> QED
  BY <1>1, <1>2

LEMMA DisplaySurvives ==
  ASSUME ShadowInv, SurvivalInv, NEW t \in Threads, NEW f, NEW b,
         Display(t, f, b) \/ FbKernel(t) \/ SubmitKernel(t)
  PROVE  SurvivalInv'
<1>1. UNCHANGED <<gem, mapped, bos, aborted, rec_ctx, inited, enabled, ctx_cnt>>
  BY DEF Display, FbKernel, SubmitKernel, Write, kernel, shadow, recorder
<1>2. CASE Display(t, f, b)
  <2>1. call[t].op = "none" /\ call' = [call EXCEPT ![t] = Call("display", f, None, b, {})]
    BY <1>2, CallFields DEF Display, Idle
  <2> QED
    BY <1>1, <2>1, QuietCall
<1>3. CASE FbKernel(t) \/ SubmitKernel(t)
  <2>1. call[t].op \in {"rmfb", "display", "submit"} /\ call' = [call EXCEPT ![t] = NoCall]
    BY <1>3 DEF FbKernel, SubmitKernel
  <2> QED
    BY <1>1, <2>1, QuietReturn
<1> QED
  BY <1>2, <1>3

\* GEM_SET_FLAGS finds the handle; ADDFB keeps it.
LEMMA HandleUsesSurvive ==
  ASSUME ShadowInv, SurvivalInv, "bad" \notin program.ops,
         NEW t \in Threads, NEW f \in Files, NEW h \in Handles, NEW b, NEW p, NEW v,
         SetFlags(t, f, h) \/ AddFb(t, f, h, b) \/ CpuWrite(t, f, h, p, v)
  PROVE  SurvivalInv'
<1>1. CASE SetFlags(t, f, h)
  <2>1. file_lookup_bo(f, h) # {} /\ call[t].op = "none"
    BY <1>1, CallFields, HandFound DEF SetFlags, Idle
  <2>2. /\ UNCHANGED <<gem, mapped, bos, aborted, rec_ctx, inited, enabled, ctx_cnt>>
        /\ Return(t, f, {h}, <<h>>)
    BY <1>1, <2>1 DEF SetFlags, Write, kernel, shadow
  <2>3. \/ call' = [call EXCEPT ![t] = NoCall]
        \/ call' = [call EXCEPT ![t] = Call("return", f, None, None, {h})]
    BY <2>2 DEF Return
  <2> QED
    BY <2>1, <2>2, <2>3, QuietReturn, QuietCall
<1>2. CASE AddFb(t, f, h, b)
  <2> DEFINE c == Call("addfb", f, h, b, {h})
  <2>1. /\ call[t].op = "none" /\ call' = [call EXCEPT ![t] = c] /\ Given(f, h)
        /\ UNCHANGED <<gem, mapped, bos, aborted, rec_ctx, inited, enabled, ctx_cnt>>
    BY <1>2, CallFields, HandFound DEF AddFb, Entered, Idle, shadow, recorder
  <2>2. c.op = "addfb" /\ c.file = f /\ c.handle = h /\ c.uses = {h}
    BY CallFields
  <2> HIDE DEF c
  <2>3. DOMAIN call' = Threads /\ call'[t] = c /\ \A s \in Threads \ {t} : call'[s] = call[s]
    BY <2>1, Tables
  <2>4. ContextInv'
    BY <2>1, <2>2, ContextSame DEF SurvivalInv
  <2>5. \A e \in Files, k \in Handles : MappedInv(e, k)'
    BY <2>1, <2>2, <2>3, MappedSame
  <2>6. \A e, k : Given(e, k)' <=> Given(e, k)
    BY <2>1, <2>2, <2>3 DEF Given, Calls
  <2>7. \A s \in Threads : UsesInv(s)'
    BY <2>1, <2>2, <2>3, <2>6 DEF SurvivalInv, UsesInv
  <2> QED
    BY <2>1, <2>4, <2>5, <2>7 DEF SurvivalInv, Alive
<1>3. CASE CpuWrite(t, f, h, p, v)
  BY <1>3, StillStep DEF CpuWrite, shadow, recorder
<1> QED
  BY <1>1, <1>2, <1>3

-----------------------------------------------------------------------------
(* Steps that change entries, but neither their handles nor their mappings *)

LEMMA KeptTo ==
  ASSUME ShadowInv, SurvivalInv,
         UNCHANGED <<gem, mapped, aborted, rec_ctx, inited, enabled, ctx_cnt>>,
         NEW t \in Threads, NEW c, call' = [call EXCEPT ![t] = c],
         call[t].op \notin {"create", "close", "start"},
         c.op \notin {"create", "close", "mmap", "addfb", "counting"},
         \A f \in Files : /\ DOMAIN bos'[f] = DOMAIN bos[f]
                          /\ \A i \in DOMAIN bos[f] : /\ bos'[f][i].handle = bos[f][i].handle
                                                      /\ bos'[f][i].data = bos[f][i].data
  PROVE  SurvivalInv'
<1>1. ContextInv'
  BY ContextSame DEF SurvivalInv
<1>2. DOMAIN call' = Threads /\ call'[t] = c /\ \A s \in Threads \ {t} : call'[s] = call[s]
  BY Tables
<1>3. \A s \in Threads : UsesInv(s)'
  BY <1>2, UsesSame
<1>4. \A f \in Files, h \in Handles : MappedInv(f, h)'
  BY <1>2, MappedSame
<1> QED
  BY <1>1, <1>3, <1>4 DEF SurvivalInv, Alive

\* One entry changes.
LEMMA EntryKept ==
  ASSUME ShadowInv, NEW f, NEW i \in DOMAIN bos[f], NEW b, bos' = [bos EXCEPT ![f][i] = b],
         b.handle = bos[f][i].handle, b.data = bos[f][i].data
  PROVE  \A g \in Files : /\ DOMAIN bos'[g] = DOMAIN bos[g]
                          /\ \A k \in DOMAIN bos[g] : /\ bos'[g][k].handle = bos[g][k].handle
                                                      /\ bos'[g][k].data = bos[g][k].data
<1> SUFFICES ASSUME NEW g \in Files
             PROVE  /\ DOMAIN bos'[g] = DOMAIN bos[g]
                    /\ \A k \in DOMAIN bos[g] : /\ bos'[g][k].handle = bos[g][k].handle
                                                /\ bos'[g][k].data = bos[g][k].data
  OBVIOUS
<1>1. DOMAIN bos = Files
  BY Tables
<1>2. CASE g # f
  BY <1>1, <1>2
<1>3. CASE g = f
  <2>1. bos'[g] = [bos[g] EXCEPT ![i] = b]
    BY <1>1, <1>3
  <2>2. ASSUME NEW k \in DOMAIN bos[g]
        PROVE  bos'[g][k].handle = bos[g][k].handle /\ bos'[g][k].data = bos[g][k].data
    <3>1. CASE k = i
      <4>1. bos'[g][k] = b
        BY <2>1, <3>1
      <4> QED
        BY <1>3, <3>1, <4>1
    <3>2. CASE k # i
      <4>1. bos'[g][k] = bos[g][k]
        BY <2>1, <3>2
      <4> QED
        BY <4>1
    <3> QED
      BY <3>1, <3>2
  <2> QED
    BY <2>1, <2>2
<1> QED
  BY <1>2, <1>3

\* ADDFB finds the handle that it keeps.
LEMMA AddFbLeaveSurvives ==
  ASSUME ShadowInv, SurvivalInv, NEW t \in Threads, AddFbLeave(t)
  PROVE  SurvivalInv'
<1> DEFINE f == call[t].file
           h == call[t].handle
<1>1. call[t].op = "addfb" /\ f \in Files /\ h \in Handles /\ Given(f, h)
  BY DEF AddFbLeave, Hook, SurvivalInv, UsesInv
<1>2. file_lookup_bo(f, h) # {}
  <2> HIDE DEF f, h
  <2> QED
    BY <1>1, GivenFound
<1>3. ASSUME NEW i \in file_lookup_bo(f, h), NEW fb, NEW s,
             bos' = [bos EXCEPT ![f][i].fb_id = fb, ![f][i].is_framebuffer = TRUE],
             Finish(t, s), UNCHANGED <<kernel, rec_ctx, ctx_cnt>>
      PROVE  SurvivalInv'
  <2> DEFINE e == bos[f][i]
             r == [[e EXCEPT !.fb_id = fb] EXCEPT !.is_framebuffer = TRUE]
  <2>1. i \in DOMAIN bos[f]
    BY <1>3 DEF file_lookup_bo, IndexOf
  <2>2. e = [x \in BoFields |-> e[x]]
    BY <1>1, <2>1, Tables
  <2>3. bos' = [bos EXCEPT ![f][i] = r]
    BY <1>3, <2>1
  <2>4. r.handle = e.handle /\ r.data = e.data
    BY <2>2 DEF BoFields
  <2>5. PICK c : call' = [call EXCEPT ![t] = c] /\ c.op \in {"none", "return"}
    BY <1>3, FinishCall
  <2>6. UNCHANGED <<gem, mapped, aborted, rec_ctx, inited, enabled, ctx_cnt>>
    BY <1>3 DEF Finish, Write, kernel
  <2> HIDE DEF r, f
  <2>7. \A g \in Files : /\ DOMAIN bos'[g] = DOMAIN bos[g]
                         /\ \A k \in DOMAIN bos[g] : /\ bos'[g][k].handle = bos[g][k].handle
                                                     /\ bos'[g][k].data = bos[g][k].data
    BY <2>1, <2>3, <2>4, EntryKept
  <2> QED
    BY <1>1, <2>5, <2>6, <2>7, KeptTo
<1>4. ASSUME Finish(t, <<>>), UNCHANGED <<kernel, shadow, ctx_cnt>>
      PROVE  SurvivalInv'
  <2>1. PICK c : call' = [call EXCEPT ![t] = c] /\ c.op \in {"none", "return"}
    BY <1>4, FinishCall
  <2>2. UNCHANGED <<gem, mapped, aborted, rec_ctx, inited, enabled, ctx_cnt>> /\ bos' = bos
    BY <1>4 DEF Finish, Write, kernel, shadow
  <2> QED
    BY <1>1, <2>1, <2>2, KeptTo
<1> QED
  BY <1>2, <1>3, <1>4, Zenon DEF AddFbLeave

LEMMA RmFbSurvives ==
  ASSUME ShadowInv, SurvivalInv, NEW t \in Threads, NEW f \in Files, NEW b, RmFb(t, f, b)
  PROVE  SurvivalInv'
<1>1. /\ call[t].op = "none"
      /\ UNCHANGED <<gem, mapped, aborted, rec_ctx, inited, enabled, ctx_cnt>>
      /\ call' = [call EXCEPT ![t] = Call("rmfb", f, None, b, {})]
  BY CallFields DEF RmFb, Idle, Write, kernel
<1>2. CASE bos' = bos
  BY <1>1, <1>2, QuietCall
<1>3. ASSUME NEW i \in file_lookup_fb(f, b), bos' = [bos EXCEPT ![f][i] = NoFramebuffer(@)]
      PROVE  SurvivalInv'
  <2> DEFINE e == bos[f][i]
             r == NoFramebuffer(e)
             c == Call("rmfb", f, None, b, {})
  <2>1. i \in DOMAIN bos[f]
    BY <1>3 DEF file_lookup_fb, IndexOf
  <2>2. e = [x \in BoFields |-> e[x]]
    BY <2>1, Tables
  <2>3. bos' = [bos EXCEPT ![f][i] = r]
    BY <1>3, <2>1
  <2>4. r.handle = e.handle /\ r.data = e.data
    BY <2>2 DEF BoFields, NoFramebuffer
  <2>5. c.op = "rmfb" /\ call' = [call EXCEPT ![t] = c]
    BY <1>1, CallFields
  <2> HIDE DEF r, c
  <2>6. \A g \in Files : /\ DOMAIN bos'[g] = DOMAIN bos[g]
                         /\ \A k \in DOMAIN bos[g] : /\ bos'[g][k].handle = bos[g][k].handle
                                                     /\ bos'[g][k].data = bos[g][k].data
    BY <2>1, <2>3, <2>4, EntryKept
  <2> QED
    BY <1>1, <2>5, <2>6, KeptTo
<1> QED
  BY <1>2, <1>3 DEF RmFb

\* SUBMIT finds every handle of the job, and its commands mapped.
LEMMA SubmitSurvives ==
  ASSUME ShadowInv, SurvivalInv, "bad" \notin program.ops,
         NEW t \in Threads, NEW f \in Files, NEW c, NEW g \in Handles, NEW T \in SUBSET Handles, NEW w,
         Submit(t, f, c, g, T, w)
  PROVE  \/ SurvivalInv'
         \/ (aborted' = "deflate failed" /\ program.compression = "zlib" /\ Incompressible # {})
<1> DEFINE At(h) == CHOOSE i \in DOMAIN bos[f] : i \in file_lookup_bo(f, h)
           nm == {At(h) : h \in T \cup {g}}
           order == SetToSeq(T)
           after == [j \in DOMAIN bos[f] |-> IF j \in nm THEN Captured(bos[f][j]) ELSE bos[f][j]]
           n == Submitting(f, c, T \cup {g}, w, order)
<1>1. call[t].op = "none"
  <2>1. Idle(t)
    BY Zenon DEF Submit
  <2> QED
    BY <2>1, CallFields DEF Idle
<1>2. \A h \in T \cup {g} : (gem[f][h] # None \/ "bad" \in program.ops) /\ ~InUse(f, h)
  BY Zenon DEF Submit
<1>3. \A h \in T \cup {g} : file_lookup_bo(f, h) # {}
  BY <1>2, HandFound
<1>4. <<f, g>> \in mapped
  BY Zenon DEF Submit
<1>5. bos[f][At(g)].data # None
  <2>1. PICK i : i \in file_lookup_bo(f, g)
    BY <1>3
  <2>2. \E j \in DOMAIN bos[f] : j \in file_lookup_bo(f, g)
    BY <2>1 DEF file_lookup_bo, IndexOf
  <2>3. At(g) \in file_lookup_bo(f, g)
    BY <2>2
  <2> HIDE DEF At
  <2>4. At(g) \in ListedAs(f, g)
    BY <2>3, FoundListed
  <2> QED
    BY <1>4, <2>4 DEF SurvivalInv, MappedInv
<1>6. CASE /\ aborted' = "deflate failed" /\ program.compression = "zlib"
           /\ Incompressible # {}
  BY <1>6
<1> SUFFICES ASSUME /\ UNCHANGED <<kernel, rec_ctx, contexts, ctx_cnt, bos_cnt, job_ctx_cnt>>
                    /\ UNCHANGED <<inited, enabled, aborted>>
                    /\ bos' = [bos EXCEPT ![f] = after]
                    /\ call' = [call EXCEPT ![t] = n]
             PROVE  SurvivalInv'
  <2>1. \/ \E h \in T \cup {g} : file_lookup_bo(f, h) = {}
        \/ bos[f][At(g)].data = None
        \/ /\ aborted' = "deflate failed" /\ program.compression = "zlib"
           /\ Incompressible # {}
        \/ /\ UNCHANGED <<kernel, rec_ctx, contexts, ctx_cnt, bos_cnt, job_ctx_cnt>>
           /\ UNCHANGED <<inited, enabled, aborted>>
           /\ bos' = [bos EXCEPT ![f] = after]
           /\ call' = [call EXCEPT ![t] = n]
    BY Zenon DEF Submit, Write, Abort
  <2> QED
    BY <1>3, <1>5, <1>6, <2>1
<1>7. n.op = "submit"
  BY CallFields
<1>8. UNCHANGED <<gem, mapped, aborted, rec_ctx, inited, enabled, ctx_cnt>>
  BY <1>6 DEF kernel
<1>9. ASSUME NEW e \in Files
      PROVE  /\ DOMAIN bos'[e] = DOMAIN bos[e]
             /\ \A i \in DOMAIN bos[e] : /\ bos'[e][i].handle = bos[e][i].handle
                                         /\ bos'[e][i].data = bos[e][i].data
  <2>1. CASE e # f
    <3>1. bos'[e] = bos[e]
      BY <1>6, <2>1, Tables
    <3> QED
      BY <3>1
  <2>2. CASE e = f
    <3>1. bos'[e] = after
      BY <1>6, <2>2, Tables
    <3>2. ASSUME NEW i \in DOMAIN bos[e]
          PROVE  after[i].handle = bos[e][i].handle /\ after[i].data = bos[e][i].data
      <4>1. bos[e][i] = [x \in BoFields |-> bos[e][i][x]]
        BY Tables
      <4>2. after[i] = bos[e][i] \/ after[i] = Captured(bos[e][i])
        BY <2>2
      <4> HIDE DEF after
      <4> QED
        BY <4>1, <4>2, CapturedKeeps
    <3> QED
      BY <2>2, <3>1, <3>2
  <2> QED
    BY <2>1, <2>2
<1>10. call' = [call EXCEPT ![t] = n]
  BY <1>6
<1> HIDE DEF n, after
<1> HIDE <1>6
<1> QED
  BY <1>1, <1>7, <1>8, <1>9, <1>10, KeptTo

-----------------------------------------------------------------------------
(* Steps that change a handle *)

LEMMA GemCreateSurvives ==
  ASSUME ShadowInv, SurvivalInv, NEW t \in Threads, NEW f \in Files, NEW h \in Handles,
         NEW o \in Objs, GemCreate(t, f, h, o)
  PROVE  SurvivalInv'
<1> DEFINE c == Call("create", f, h, o, {h})
<1>1. /\ gem[f][h] = None /\ gem' = [gem EXCEPT ![f][h] = o] /\ bos' = bos
      /\ call' = [call EXCEPT ![t] = c] /\ call[t].op = "none"
      /\ UNCHANGED <<mapped, aborted, rec_ctx, inited, enabled, ctx_cnt>>
  BY CallFields DEF GemCreate, Entered, Idle, shadow, recorder
<1>2. c.op = "create" /\ c.file = f /\ c.handle = h
  BY CallFields
<1> HIDE DEF c
<1>3. DOMAIN call' = Threads /\ call'[t] = c /\ \A s \in Threads \ {t} : call'[s] = call[s]
  BY <1>1, Tables
<1>4. \A e \in Files, k \in Handles : e # f \/ k # h => gem'[e][k] = gem[e][k]
  BY <1>1, Tables
<1>5. ContextInv'
  BY <1>1, <1>2, ContextSame DEF SurvivalInv
<1>6. ASSUME NEW e \in Files, NEW k \in Handles, Given(e, k)
      PROVE  (e # f \/ k # h) /\ Given(e, k)'
  <2>1. e # f \/ k # h
    BY <1>1, <1>6 DEF Given
  <2>2. (Calls("create", e, k))' = Calls("create", e, k)
    BY <1>1, <1>2, <1>3, <2>1 DEF Calls
  <2> QED
    BY <1>4, <1>6, <2>1, <2>2 DEF Given
<1>7. \A s \in Threads : UsesInv(s)'
  BY <1>2, <1>3, <1>6 DEF SurvivalInv, UsesInv
<1>8. ASSUME NEW e \in Files, NEW k \in Handles, <<e, k>> \in mapped'
      PROVE  MappedInv(e, k)'
  <2>1. /\ Given(e, k) /\ Calls("close", e, k) = {}
        /\ \A i \in ListedAs(e, k) : bos[e][i].data # None
    BY <1>1, <1>8 DEF SurvivalInv, MappedInv
  <2>2. Given(e, k)' /\ (Calls("close", e, k))' = {}
    BY <1>2, <1>3, <1>6, <2>1 DEF Calls
  <2>3. (ListedAs(e, k))' = ListedAs(e, k)
    BY <1>1 DEF ListedAs
  <2> QED
    BY <1>1, <2>1, <2>2, <2>3 DEF MappedInv
<1>9. \A e \in Files, k \in Handles : MappedInv(e, k)'
  BY <1>8 DEF MappedInv
<1> QED
  BY <1>1, <1>5, <1>7, <1>9 DEF SurvivalInv, Alive

LEMMA GemCreateLeaveSurvives ==
  ASSUME ShadowInv, SurvivalInv, NEW t \in Threads, GemCreateLeave(t)
  PROVE  SurvivalInv'
<1> DEFINE f == call[t].file
           h == call[t].handle
           x == [handle |-> h, id |-> bos_cnt % IdMod, data |-> None,
                 captured |-> FALSE, is_framebuffer |-> FALSE, fb_id |-> None,
                 chksum |-> [p \in DOMAIN mem[call[t].obj] |-> Zero]]
           q == bos[f]
           r == Append(q, x)
<1>1. call[t].op = "create" /\ f \in Files /\ h \in Handles /\ t \in Calls("create", f, h)
  BY DEF GemCreateLeave, Hook, ShadowInv, CallInv, Calls
<1>2. rec_ctx[f] # NullCtx
  BY <1>1 DEF SurvivalInv, ContextInv
<1>3. /\ bos' = [bos EXCEPT ![f] = r] /\ \E s : Finish(t, s)
      /\ UNCHANGED <<kernel, rec_ctx, contexts, ctx_cnt, job_ctx_cnt>>
  BY <1>2, Zenon DEF GemCreateLeave, Listed
<1>4. UNCHANGED <<gem, mapped, aborted, rec_ctx, inited, enabled, ctx_cnt>>
  BY <1>3 DEF Finish, Write, kernel
<1>5. PICK c : call' = [call EXCEPT ![t] = c] /\ c.op \in {"none", "return"}
  BY <1>3, FinishCall
<1>6. /\ DOMAIN call' = Threads /\ call'[t].op \in {"none", "return"}
      /\ \A s \in Threads \ {t} : call'[s] = call[s]
  BY <1>5, Tables
<1>7. bos'[f] = r /\ \A e \in Files \ {f} : bos'[e] = bos[e]
  BY <1>1, <1>3, Tables
<1>8. x.handle = h /\ q \in Seq(Range(q))
  BY <1>1, Tables
<1> HIDE DEF f, h, x, q
<1>9. /\ DOMAIN r = 1..Len(q) + 1 /\ Len(q) \in Nat
      /\ \A i \in 1..Len(q) : r[i] = q[i]
      /\ r[Len(q) + 1] = x
  BY <1>8, AppendList
<1>10. DOMAIN q = 1..Len(q)
  BY <1>8, ListIs
<1> HIDE DEF r
<1>11. ContextInv'
  BY <1>1, <1>4, <1>5, ContextSame DEF SurvivalInv
<1>12. ASSUME NEW e, NEW k, Given(e, k)
       PROVE  Given(e, k)' /\ (e # f \/ k # h)
  BY <1>1, <1>4, <1>6, <1>12 DEF Given, Calls
<1>13. \A s \in Threads : UsesInv(s)'
  BY <1>6, <1>12 DEF SurvivalInv, UsesInv
<1>14. ASSUME NEW e \in Files, NEW k \in Handles, <<e, k>> \in mapped'
       PROVE  MappedInv(e, k)'
  <2>1. /\ Given(e, k) /\ Calls("close", e, k) = {}
        /\ \A i \in ListedAs(e, k) : bos[e][i].data # None
    BY <1>4, <1>14 DEF SurvivalInv, MappedInv
  <2>2. Given(e, k)' /\ (Calls("close", e, k))' = {} /\ (e # f \/ k # h)
    BY <1>6, <1>12, <2>1 DEF Calls
  <2>3. ASSUME NEW i \in (ListedAs(e, k))'
        PROVE  bos'[e][i].data # None
    <3>1. CASE e # f
      BY <1>7, <2>1, <2>3, <3>1 DEF ListedAs
    <3>2. CASE e = f
      <4>1. i \in DOMAIN r /\ r[i].handle = k /\ k # h
        BY <1>7, <2>2, <2>3, <3>2 DEF ListedAs
      <4>2. i \in 1..Len(q)
        BY <1>8, <1>9, <4>1
      <4>3. r[i] = q[i] /\ i \in ListedAs(e, k)
        BY <1>9, <1>10, <3>2, <4>1, <4>2 DEF ListedAs, q
      <4> QED
        BY <1>7, <2>1, <3>2, <4>3 DEF q
    <3> QED
      BY <3>1, <3>2
  <2> QED
    BY <2>2, <2>3 DEF MappedInv
<1>15. \A e \in Files, k \in Handles : MappedInv(e, k)'
  BY <1>14 DEF MappedInv
<1> QED
  BY <1>4, <1>11, <1>13, <1>15 DEF SurvivalInv, Alive

LEMMA GemMmapSurvives ==
  ASSUME ShadowInv, SurvivalInv, NEW t \in Threads, NEW f \in Files, NEW h \in Handles, GemMmap(t, f, h)
  PROVE  SurvivalInv'
<1> DEFINE c == Call("mmap", f, h, gem[f][h], {h})
<1>1. /\ UNCHANGED <<gem, mapped, bos, aborted, rec_ctx, inited, enabled, ctx_cnt>>
      /\ call' = [call EXCEPT ![t] = c] /\ call[t].op = "none" /\ Given(f, h)
  BY CallFields, HandFound DEF GemMmap, Entered, Idle, shadow, kernel, recorder
<1>2. c.op = "mmap" /\ c.file = f /\ c.handle = h /\ c.uses = {h}
  BY CallFields
<1> HIDE DEF c
<1>3. DOMAIN call' = Threads /\ call'[t] = c /\ \A s \in Threads \ {t} : call'[s] = call[s]
  BY <1>1, Tables
<1>4. ContextInv'
  BY <1>1, <1>2, ContextSame DEF SurvivalInv
<1>5. \A e \in Files, k \in Handles : MappedInv(e, k)'
  BY <1>1, <1>2, <1>3, MappedSame
<1>6. \A e, k : Given(e, k)' <=> Given(e, k)
  BY <1>1, <1>2, <1>3 DEF Given, Calls
<1>7. \A s \in Threads : UsesInv(s)'
  BY <1>1, <1>2, <1>3, <1>6 DEF SurvivalInv, UsesInv
<1> QED
  BY <1>1, <1>4, <1>5, <1>7 DEF SurvivalInv, Alive

\* With one thread the handle has no entry but its own, which is mapped now.
LEMMA GemMmapLeaveSurvives ==
  ASSUME ShadowInv, SurvivalInv, NEW t \in Threads, \A s \in Threads : s = t, GemMmapLeave(t)
  PROVE  SurvivalInv' \/ (aborted' = "mmap failed" /\ no_fd' # {})
<1> DEFINE f == call[t].file
           h == call[t].handle
           o == call[t].obj
<1>1. /\ call[t].op = "mmap" /\ f \in Files /\ h \in Handles /\ o # None /\ Given(f, h)
  BY DEF GemMmapLeave, Hook, ShadowInv, CallInv, SurvivalInv, UsesInv
<1>2. file_lookup_bo(f, h) # {}
  <2> HIDE DEF f, h
  <2> QED
    BY <1>1, GivenFound
<1>0. CASE aborted' = "mmap failed" /\ no_fd' # {}
  BY <1>0
<1> SUFFICES ASSUME \E i \in file_lookup_bo(f, h) :
                      /\ bos' = [bos EXCEPT ![f][i] = SetBoData(@, o)]
                      /\ Finish(t, <<>>)
                      /\ mapped' = mapped \cup {<<f, h>>}
                      /\ UNCHANGED <<gem, rec_ctx, ctx_cnt>>
             PROVE  SurvivalInv'
  <2>1. CASE f \in no_fd /\ Abort("mmap failed")
    BY <1>0, <2>1 DEF Abort, kernel
  <2> QED
    BY <1>2, <2>1, Zenon DEF GemMmapLeave
<1>3. PICK i \in file_lookup_bo(f, h) :
        /\ bos' = [bos EXCEPT ![f][i] = SetBoData(@, o)]
        /\ Finish(t, <<>>)
        /\ mapped' = mapped \cup {<<f, h>>}
        /\ UNCHANGED <<gem, rec_ctx, ctx_cnt>>
  OBVIOUS
<1>4. UNCHANGED <<gem, aborted, rec_ctx, inited, enabled, ctx_cnt>>
  BY <1>3 DEF Finish, Write
<1>5. PICK c : call' = [call EXCEPT ![t] = c] /\ c.op \in {"none", "return"}
  BY <1>3, FinishCall
<1>6. /\ DOMAIN call' = Threads /\ call'[t].op \in {"none", "return"}
      /\ \A s \in Threads \ {t} : call'[s] = call[s]
  BY <1>5, Tables
<1> DEFINE q == bos[f]
           b == SetBoData(q[i], o)
           r == [q EXCEPT ![i] = b]
<1>7. bos'[f] = r /\ \A e \in Files \ {f} : bos'[e] = bos[e]
  BY <1>1, <1>3, Tables
<1>8. i \in DOMAIN q /\ q[i] = [y \in BoFields |-> q[i][y]]
  BY <1>1, <1>3, Tables DEF file_lookup_bo, IndexOf
<1>9. b.data # None /\ b.handle = q[i].handle
  <2> DEFINE e == q[i]
  <2>1. e = [y \in BoFields |-> e[y]]
    BY <1>8
  <2> HIDE DEF q, e, o
  <2> QED
    BY <1>1, <2>1 DEF SetBoData, BoFields, e
<1>10. ListedAs(f, h) = {i}
  <2>1. Calls("close", f, h) = {}
    BY <1>1 DEF Calls
  <2>2. Cardinality(Calls("close", f, h)) = 0
    BY <2>1, FS_EmptySet
  <2>3. HandleInv(f, h) /\ bos[f] \in Seq(Range(bos[f]))
    BY <1>1, Tables DEF ShadowInv
  <2>4. Cardinality(ListedAs(f, h)) = 1
    BY <1>1, <2>2, <2>3 DEF HandleInv
  <2>5. IsFiniteSet(ListedAs(f, h))
    BY <2>3, FiniteEntries, ListedAsEntries
  <2>6. \E y : ListedAs(f, h) = {y}
    BY <2>4, <2>5, FS_Singleton
  <2>7. i \in ListedAs(f, h)
    BY <1>3, FoundListed
  <2> QED
    BY <2>6, <2>7
<1> HIDE DEF q, b, f, h, o
<1>11. /\ DOMAIN r = DOMAIN q
       /\ \A k \in DOMAIN q : r[k] = IF k = i THEN b ELSE q[k]
  BY <1>8
<1> HIDE DEF r
<1>12. ContextInv'
  BY <1>1, <1>4, <1>5, ContextSame DEF SurvivalInv
<1>13. ASSUME NEW e, NEW k
       PROVE  /\ Given(e, k)' <=> Given(e, k)
              /\ (Calls("close", e, k))' = Calls("close", e, k)
  BY <1>1, <1>4, <1>6 DEF Given, Calls
<1>14. \A s \in Threads : UsesInv(s)'
  BY <1>6, <1>13 DEF SurvivalInv, UsesInv
<1>15. ASSUME NEW e \in Files, NEW k \in Handles, <<e, k>> \in mapped'
       PROVE  MappedInv(e, k)'
  <2>1. Given(e, k)
    BY <1>1, <1>3, <1>15 DEF SurvivalInv, MappedInv
  <2>2. Calls("close", e, k) = {}
    BY <1>1 DEF Calls
  <2>3. ASSUME NEW j \in (ListedAs(e, k))'
        PROVE  bos'[e][j].data # None
    <3>1. CASE e # f
      <4>1. <<e, k>> \in mapped /\ bos'[e] = bos[e]
        BY <1>3, <1>7, <1>15, <3>1
      <4>2. j \in ListedAs(e, k)
        BY <2>3, <4>1 DEF ListedAs
      <4> QED
        BY <4>1, <4>2 DEF SurvivalInv, MappedInv
    <3>2. CASE e = f /\ j = i
      BY <1>7, <1>8, <1>9, <1>11, <3>2
    <3>3. CASE e = f /\ j # i
      <4>1. j \in DOMAIN q /\ bos'[e][j] = q[j] /\ q[j].handle = k
        BY <1>7, <1>11, <2>3, <3>3 DEF ListedAs
      <4>2. j \in ListedAs(e, k)
        BY <3>3, <4>1 DEF ListedAs, q
      <4>3. k # h
        BY <1>10, <3>3, <4>2
      <4>4. <<e, k>> \in mapped
        BY <1>3, <1>15, <4>3
      <4> QED
        BY <3>3, <4>1, <4>2, <4>4 DEF SurvivalInv, MappedInv, q
    <3> QED
      BY <3>1, <3>2, <3>3
  <2> QED
    BY <1>13, <2>1, <2>2, <2>3 DEF MappedInv
<1>16. \A e \in Files, k \in Handles : MappedInv(e, k)'
  BY <1>15 DEF MappedInv
<1> QED
  BY <1>4, <1>12, <1>14, <1>16 DEF SurvivalInv, Alive

\* A handle no call is using is neither being mapped nor being given away.
LEMMA GemCloseSurvives ==
  ASSUME ShadowInv, SurvivalInv, NEW t \in Threads, NEW f \in Files, NEW h \in Handles, GemClose(t, f, h)
  PROVE  SurvivalInv'
<1> DEFINE c == Call("close", f, h, None, {})
<1>1. /\ gem' = [gem EXCEPT ![f][h] = None] /\ bos' = bos /\ mapped' = mapped \ {<<f, h>>}
      /\ call' = [call EXCEPT ![t] = c] /\ call[t].op = "none" /\ ~InUse(f, h)
      /\ UNCHANGED <<aborted, rec_ctx, inited, enabled, ctx_cnt>>
  BY CallFields DEF GemClose, Entered, Idle, shadow, recorder
<1>2. c.op = "close" /\ c.file = f /\ c.handle = h
  BY CallFields
<1> HIDE DEF c
<1>3. DOMAIN call' = Threads /\ call'[t] = c /\ \A s \in Threads \ {t} : call'[s] = call[s]
  BY <1>1, Tables
<1>4. \A e \in Files, k \in Handles : e # f \/ k # h => gem'[e][k] = gem[e][k]
  BY <1>1, Tables
<1>5. ContextInv'
  BY <1>1, <1>2, ContextSame DEF SurvivalInv
<1>6. ASSUME NEW e \in Files, NEW k \in Handles, Given(e, k), e # f \/ k # h
      PROVE  Given(e, k)'
  <2>1. (Calls("create", e, k))' = Calls("create", e, k)
    BY <1>1, <1>2, <1>3 DEF Calls
  <2> QED
    BY <1>4, <1>6, <2>1 DEF Given
<1>7. ASSUME NEW s \in Threads
      PROVE  UsesInv(s)'
  <2>1. CASE s = t
    BY <1>2, <1>3, <2>1 DEF UsesInv
  <2>2. CASE s # t
    <3>1. UsesInv(s) /\ call'[s] = call[s]
      BY <1>3, <2>2 DEF SurvivalInv
    <3>2. call[s].op \in {"mmap", "addfb"} => call[s].file # f \/ call[s].handle # h
      BY <1>1, <3>1 DEF UsesInv, InUse
    <3> QED
      BY <1>6, <3>1, <3>2 DEF UsesInv
  <2> QED
    BY <2>1, <2>2
<1>8. ASSUME NEW e \in Files, NEW k \in Handles, <<e, k>> \in mapped'
      PROVE  MappedInv(e, k)'
  <2>1. /\ Given(e, k) /\ Calls("close", e, k) = {}
        /\ \A i \in ListedAs(e, k) : bos[e][i].data # None
    BY <1>1, <1>8 DEF SurvivalInv, MappedInv
  <2>2. e # f \/ k # h
    BY <1>1, <1>8
  <2>3. (Calls("close", e, k))' = {}
    BY <1>2, <1>3, <2>1, <2>2 DEF Calls
  <2>4. (ListedAs(e, k))' = ListedAs(e, k)
    BY <1>1 DEF ListedAs
  <2> QED
    BY <1>1, <1>6, <2>1, <2>2, <2>3, <2>4 DEF MappedInv
<1>9. \A e \in Files, k \in Handles : MappedInv(e, k)'
  BY <1>8 DEF MappedInv
<1> QED
  BY <1>1, <1>5, <1>7, <1>9 DEF SurvivalInv, Alive

\* The closed handle is listed; the entries of the mapped ones are kept.
LEMMA GemCloseLeaveSurvives ==
  ASSUME ShadowInv, SurvivalInv, NEW t \in Threads, GemCloseLeave(t)
  PROVE  SurvivalInv'
<1> DEFINE f == call[t].file
           h == call[t].handle
           q == bos[f]
<1>1. call[t].op = "close" /\ f \in Files /\ h \in Handles /\ t \in Calls("close", f, h)
  BY DEF GemCloseLeave, Hook, ShadowInv, CallInv, Calls
<1>2. file_lookup_bo(f, h) # {}
  <2> HIDE DEF f, h
  <2> QED
    BY <1>1, GivenFound
<1>3. PICK i \in file_lookup_bo(f, h) :
        /\ bos' = [bos EXCEPT ![f] = Unlisted(f, i)]
        /\ \E s : Finish(t, s)
        /\ UNCHANGED <<kernel, rec_ctx, contexts, ctx_cnt>>
  BY <1>2, Zenon DEF GemCloseLeave
<1>4. UNCHANGED <<gem, mapped, aborted, rec_ctx, inited, enabled, ctx_cnt>>
  BY <1>3 DEF Finish, Write, kernel
<1>5. PICK c : call' = [call EXCEPT ![t] = c] /\ c.op \in {"none", "return"}
  BY <1>3, FinishCall
<1>6. /\ DOMAIN call' = Threads /\ call'[t].op \in {"none", "return"}
      /\ \A s \in Threads \ {t} : call'[s] = call[s]
  BY <1>5, Tables
<1> DEFINE r == RemoveAt(q, i)
<1>7. bos'[f] = r /\ \A e \in Files \ {f} : bos'[e] = bos[e]
  BY <1>1, <1>3, Tables DEF Unlisted
<1>8. i \in DOMAIN q /\ q \in Seq(Range(q))
  BY <1>1, <1>3, Tables DEF file_lookup_bo, IndexOf
<1> HIDE DEF f, h, q
<1>9. /\ Len(q) \in Nat \ {0} /\ DOMAIN r = 1..Len(q) - 1
      /\ \A k \in 1..Len(q) - 1 : r[k] = IF k < i THEN q[k] ELSE q[k + 1]
  BY <1>8, RemoveAtList
<1>10. DOMAIN q = 1..Len(q)
  BY <1>8, ListIs
<1> HIDE DEF r
<1>11. \A k \in DOMAIN r : \E m \in DOMAIN q : r[k] = q[m]
  <2> SUFFICES ASSUME NEW k \in DOMAIN r
               PROVE  \E m \in DOMAIN q : r[k] = q[m]
    OBVIOUS
  <2>1. k \in 1..Len(q) /\ k + 1 \in 1..Len(q) /\ (r[k] = q[k] \/ r[k] = q[k + 1])
    BY <1>9
  <2> QED
    BY <1>10, <2>1
<1>12. ContextInv'
  BY <1>1, <1>4, <1>5, ContextSame DEF SurvivalInv
<1>13. ASSUME NEW e, NEW k
       PROVE  /\ Given(e, k)' <=> Given(e, k)
              /\ Calls("close", e, k) = {} => (Calls("close", e, k))' = {}
  BY <1>1, <1>4, <1>6 DEF Given, Calls
<1>14. \A s \in Threads : UsesInv(s)'
  BY <1>6, <1>13 DEF SurvivalInv, UsesInv
<1>15. ASSUME NEW e \in Files, NEW k \in Handles, <<e, k>> \in mapped'
       PROVE  MappedInv(e, k)'
  <2>1. /\ Given(e, k) /\ Calls("close", e, k) = {}
        /\ \A j \in ListedAs(e, k) : bos[e][j].data # None
    BY <1>4, <1>15 DEF SurvivalInv, MappedInv
  <2>2. ASSUME NEW j \in (ListedAs(e, k))'
        PROVE  bos'[e][j].data # None
    <3>1. CASE e # f
      BY <1>7, <2>1, <2>2, <3>1 DEF ListedAs
    <3>2. CASE e = f
      <4>1. j \in DOMAIN r /\ r[j].handle = k
        BY <1>7, <2>2, <3>2 DEF ListedAs
      <4>2. PICK m \in DOMAIN q : r[j] = q[m]
        BY <1>11, <4>1
      <4>3. m \in ListedAs(e, k)
        BY <3>2, <4>1, <4>2 DEF ListedAs, q
      <4> QED
        BY <1>7, <2>1, <3>2, <4>2, <4>3 DEF q
    <3> QED
      BY <3>1, <3>2
  <2> QED
    BY <1>13, <2>1, <2>2 DEF MappedInv
<1>16. \A e \in Files, k \in Handles : MappedInv(e, k)'
  BY <1>15 DEF MappedInv
<1> QED
  BY <1>4, <1>12, <1>14, <1>16 DEF SurvivalInv, Alive

\* The file has its context; nothing of it stays mapped.
LEMMA CloseFileSurvives ==
  ASSUME ShadowInv, SurvivalInv, NEW t \in Threads, NEW f \in Files, CloseFile(t, f)
  PROVE  SurvivalInv'
<1>1. rec_ctx[f] # NullCtx /\ DOMAIN rec_ctx = Files /\ DOMAIN call = Threads
  BY Tables DEF SurvivalInv, ContextInv
<1>2. /\ gem' = [gem EXCEPT ![f] = [h \in Handles |-> None]]
      /\ mapped' = {m \in mapped : m[1] # f}
      /\ rec_ctx' = [rec_ctx EXCEPT ![f] = None]
      /\ bos' = [bos EXCEPT ![f] = <<>>]
      /\ Return(t, f, {}, out'[t])
      /\ UNCHANGED <<recorder, aborted>>
      /\ call[t].op = "none" /\ \A s \in Threads : call[s].file # f
  BY <1>1, CallFields DEF CloseFile, Idle, Busy
<1>3. UNCHANGED <<aborted, inited, enabled, ctx_cnt>>
  BY <1>2 DEF recorder
<1>4. PICK c : call' = [call EXCEPT ![t] = c] /\ c.op \in {"none", "return"}
  <2> DEFINE d == Call("return", f, None, None, {})
  <2>1. call' = [call EXCEPT ![t] = NoCall] \/ call' = [call EXCEPT ![t] = d]
    BY <1>2 DEF Return
  <2>2. d.op = "return" /\ NoCall.op = "none"
    BY CallFields
  <2> HIDE DEF d
  <2> QED
    BY <2>1, <2>2
<1>5. /\ DOMAIN call' = Threads /\ call'[t].op \in {"none", "return"}
      /\ \A s \in Threads \ {t} : call'[s] = call[s]
  BY <1>1, <1>4
<1>6. /\ \A e \in Files \ {f} : gem'[e] = gem[e] /\ bos'[e] = bos[e]
      /\ \A e \in Files : rec_ctx'[e] # NullCtx
  BY <1>1, <1>2, NoneAssumption, Tables DEF SurvivalInv, ContextInv
<1>7. ContextInv'
  BY <1>1, <1>2, <1>3, <1>5, <1>6 DEF SurvivalInv, ContextInv
<1>8. ASSUME NEW e \in Files \ {f}, NEW k
      PROVE  /\ Given(e, k)' <=> Given(e, k)
             /\ (Calls("close", e, k))' = Calls("close", e, k)
             /\ (ListedAs(e, k))' = ListedAs(e, k)
  BY <1>2, <1>5, <1>6 DEF Given, Calls, ListedAs
<1>9. ASSUME NEW s \in Threads
      PROVE  UsesInv(s)'
  <2>1. CASE s = t
    BY <1>5, <2>1 DEF UsesInv
  <2>2. CASE s # t
    <3>1. UsesInv(s) /\ call'[s] = call[s] /\ call[s].file # f
      BY <1>2, <1>5, <2>2 DEF SurvivalInv
    <3> QED
      BY <1>8, <3>1 DEF UsesInv
  <2> QED
    BY <2>1, <2>2
<1>10. ASSUME NEW e \in Files, NEW k \in Handles, <<e, k>> \in mapped'
       PROVE  MappedInv(e, k)'
  <2>1. <<e, k>> \in mapped /\ e # f
    BY <1>2, <1>10
  <2> QED
    BY <1>6, <1>8, <2>1 DEF SurvivalInv, MappedInv
<1>11. \A e \in Files, k \in Handles : MappedInv(e, k)'
  BY <1>10 DEF MappedInv
<1> QED
  BY <1>3, <1>7, <1>9, <1>11 DEF SurvivalInv, Alive

-----------------------------------------------------------------------------
(* The invariant *)

LEMMA InitSurvives ==
  ASSUME Init
  PROVE  SurvivalInv
<1>1. /\ mapped = {} /\ aborted = None /\ ctx_cnt = 0 /\ inited = FALSE
      /\ rec_ctx = [f \in Files |-> None]
      /\ call = [t \in Threads |-> NoCall]
  BY DEF Init, RecorderInit
<1>2. \A t \in Threads : call[t].op = "none"
  BY <1>1, CallFields
<1>3. ContextInv
  BY <1>1, <1>2, NoneAssumption DEF ContextInv
<1>4. \A t \in Threads : UsesInv(t)
  BY <1>2 DEF UsesInv
<1>5. \A f \in Files, h \in Handles : MappedInv(f, h)
  BY <1>1 DEF MappedInv
<1> QED
  BY <1>1, <1>3, <1>4, <1>5 DEF SurvivalInv, Alive

LEMMA NextSurvives ==
  ASSUME ShadowInv, SurvivalInv, Next, "bad" \notin program.ops,
         \A s, t \in Threads : s = t
  PROVE  SurvivalInv' \/ Excused'
<1>0. program' = program
  BY DEF Next, StartOver, record_write_data
<1>1. CASE \E t \in Threads, f \in Files : StartOver(t, f)
  BY <1>1, OpenSurvives
<1>2. CASE \E t \in Threads : record_write_data(t)
  BY <1>2, WriteSurvives
<1>3. CASE RecorderNext
  <2>1. ASSUME NEW t \in Threads, NEW f \in Files,
               \/ OpenFile(t, f) \/ CloseFile(t, f) \/ CloseFd(t, f)
               \/ \E h \in Handles :
                   \/ GemMmap(t, f, h) \/ GemClose(t, f, h) \/ SetFlags(t, f, h)
                   \/ BadHandle(t, f, h)
                   \/ \E o \in Objs : GemCreate(t, f, h, o)
                   \/ \E b \in FbIds : AddFb(t, f, h, b)
               \/ \E b \in FbIds : RmFb(t, f, b) \/ Display(t, f, b)
               \/ \E c \in Chans :
                   \/ OpenChannel(t, f, c) \/ CloseChannel(t, f, c)
                   \/ \E g \in Handles, T \in SUBSET Handles :
                       \E w \in Jobs(T) : Submit(t, f, c, g, T, w)
        PROVE  SurvivalInv' \/ Excused'
    <3>1. CASE OpenFile(t, f)
      BY <3>1, OpenSurvives
    <3>2. CASE CloseFile(t, f)
      BY <3>2, CloseFileSurvives
    <3>3. ASSUME NEW h \in Handles, GemMmap(t, f, h) \/ GemClose(t, f, h) \/ SetFlags(t, f, h)
          PROVE  SurvivalInv' \/ Excused'
      BY <3>3, GemMmapSurvives, GemCloseSurvives, HandleUsesSurvive
    <3>4. ASSUME NEW h \in Handles, BadHandle(t, f, h)
          PROVE  SurvivalInv' \/ Excused'
      BY <3>4 DEF BadHandle
    <3>5. ASSUME NEW h \in Handles, NEW o \in Objs, GemCreate(t, f, h, o)
          PROVE  SurvivalInv' \/ Excused'
      BY <3>5, GemCreateSurvives
    <3>6. ASSUME NEW h \in Handles, NEW b \in FbIds, AddFb(t, f, h, b)
          PROVE  SurvivalInv' \/ Excused'
      BY <3>6, HandleUsesSurvive
    <3>7. ASSUME NEW b \in FbIds, RmFb(t, f, b) \/ Display(t, f, b)
          PROVE  SurvivalInv' \/ Excused'
      BY <3>7, RmFbSurvives, DisplaySurvives
    <3>8. ASSUME NEW c \in Chans, OpenChannel(t, f, c) \/ CloseChannel(t, f, c)
          PROVE  SurvivalInv' \/ Excused'
      BY <3>8, ChannelSurvives
    <3>9. ASSUME NEW c \in Chans, NEW g \in Handles, NEW T \in SUBSET Handles, NEW w \in Jobs(T),
                 Submit(t, f, c, g, T, w)
          PROVE  SurvivalInv' \/ Excused'
      BY <1>0, <3>9, SubmitSurvives DEF Excused
    <3>10. CASE CloseFd(t, f)
      BY <3>10, StillStep DEF CloseFd, shadow, recorder
    <3> QED
      BY <2>1, <3>1, <3>2, <3>3, <3>4, <3>5, <3>6, <3>7, <3>8, <3>9, <3>10, Zenon
  <2>2. ASSUME NEW t \in Threads,
               \/ Started(t) \/ Counted(t) \/ GemCreateLeave(t) \/ GemMmapLeave(t) \/ GemCloseLeave(t)
               \/ AddFbLeave(t) \/ FbKernel(t) \/ OpenChannelLeave(t) \/ CloseChannelLeave(t)
               \/ SubmitKernel(t) \/ DiskFull(t)
        PROVE  SurvivalInv' \/ Excused'
    <3>1. CASE Started(t) \/ Counted(t)
      BY <3>1, StartedSurvives, CountedSurvives
    <3>2. CASE GemCreateLeave(t) \/ GemMmapLeave(t) \/ GemCloseLeave(t)
      BY <1>0, <3>2, GemCreateLeaveSurvives, GemMmapLeaveSurvives, GemCloseLeaveSurvives
         DEF Excused
    <3>3. CASE AddFbLeave(t)
      BY <3>3, AddFbLeaveSurvives
    <3>4. CASE FbKernel(t) \/ SubmitKernel(t)
      BY <3>4, DisplaySurvives
    <3>5. CASE OpenChannelLeave(t) \/ CloseChannelLeave(t)
      BY <3>5, ChannelSurvives
    <3>6. CASE DiskFull(t)
      BY <1>0, <3>6 DEF DiskFull, Abort, Excused
    <3> QED
      BY <2>2, <3>1, <3>2, <3>3, <3>4, <3>5, <3>6
  <2>3. ASSUME NEW t \in Threads, NEW f \in Files, NEW h \in Handles, NEW p \in PageNos, NEW v \in Values,
               CpuWrite(t, f, h, p, v)
        PROVE  SurvivalInv' \/ Excused'
    BY <2>3, HandleUsesSurvive
  <2> QED
    BY <1>3, <2>1, <2>2, <2>3, Zenon DEF RecorderNext
<1> QED
  BY <1>1, <1>2, <1>3 DEF Next

\* A program that has been killed does nothing more.
LEMMA NextAlive ==
  ASSUME Next
  PROVE  Alive
<1>1. CASE \E t \in Threads, f \in Files : StartOver(t, f)
  BY <1>1, Zenon DEF StartOver, StartAgain, Idle
<1>2. CASE \E t \in Threads : record_write_data(t)
  BY <1>2, Zenon DEF record_write_data
<1>3. CASE RecorderNext
  <2>1. ASSUME NEW t, NEW f, OpenFile(t, f) \/ CloseFile(t, f) \/ CloseFd(t, f)
        PROVE  Alive
    BY <2>1, Zenon DEF OpenFile, CloseFile, CloseFd, Idle
  <2>2. ASSUME NEW t, NEW f, NEW h,
               GemMmap(t, f, h) \/ GemClose(t, f, h) \/ SetFlags(t, f, h) \/ BadHandle(t, f, h)
        PROVE  Alive
    BY <2>2, Zenon DEF GemMmap, GemClose, SetFlags, BadHandle, Entered, Idle
  <2>3. ASSUME NEW t, NEW f, NEW h, NEW o, GemCreate(t, f, h, o) \/ AddFb(t, f, h, o)
        PROVE  Alive
    BY <2>3, Zenon DEF GemCreate, AddFb, Entered, Idle
  <2>4. ASSUME NEW t, NEW f, NEW b, RmFb(t, f, b) \/ Display(t, f, b)
        PROVE  Alive
    BY <2>4, Zenon DEF RmFb, Display, Idle
  <2>5. ASSUME NEW t, NEW f, NEW c, OpenChannel(t, f, c) \/ CloseChannel(t, f, c)
        PROVE  Alive
    BY <2>5, Zenon DEF OpenChannel, CloseChannel, Entered, Idle
  <2>6. ASSUME NEW t, NEW f, NEW c, NEW g, NEW T, NEW w, Submit(t, f, c, g, T, w)
        PROVE  Alive
    BY <2>6, Zenon DEF Submit, Idle
  <2>7. ASSUME NEW t,
               \/ Started(t) \/ Counted(t) \/ GemCreateLeave(t) \/ GemMmapLeave(t)
               \/ GemCloseLeave(t) \/ AddFbLeave(t) \/ FbKernel(t) \/ OpenChannelLeave(t)
               \/ CloseChannelLeave(t) \/ SubmitKernel(t) \/ DiskFull(t)
        PROVE  Alive
    BY <2>7, Zenon DEF Started, Counted, GemCreateLeave, GemMmapLeave, GemCloseLeave,
         AddFbLeave, FbKernel, OpenChannelLeave, CloseChannelLeave, SubmitKernel, DiskFull, Hook
  <2>8. ASSUME NEW t, NEW f, NEW h, NEW p, NEW v, CpuWrite(t, f, h, p, v)
        PROVE  Alive
    BY <2>8, Zenon DEF CpuWrite, Idle
  <2> QED
    BY <1>3, <2>1, <2>2, <2>3, <2>4, <2>5, <2>6, <2>7, <2>8, Zenon DEF RecorderNext
<1> QED
  BY <1>1, <1>2, <1>3 DEF Next

\* In every state that a program of one thread reaches that names only the handles it
\* has, what the thread is using is listed and what it has mapped is mapped in libwrap;
\* or the program was killed for one of the three reasons.
THEOREM SurvivalInvariant ==
  ASSUME NEW t0, Threads = {t0}
  PROVE  Spec => []SInv
<1>1. Init => SInv
  BY InitShadow, InitSurvives DEF SInv
<1>2. SInv /\ [Next]_vars => SInv'
  <2> SUFFICES ASSUME SInv, [Next]_vars
               PROVE  SInv'
    OBVIOUS
  <2>1. program' = program
    BY DEF Next, StartOver, record_write_data, vars, recVars
  <2>2. CASE "bad" \in program.ops
    BY <2>1, <2>2 DEF SInv
  <2>3. CASE "bad" \notin program.ops /\ Next
    <3>1. ShadowInv /\ SurvivalInv
      BY <2>3, NextAlive, NoneAssumption DEF SInv, Alive, Excused, Reasons
    <3>2. ShadowInv' /\ (SurvivalInv' \/ Excused')
      BY <2>3, <3>1, NextShadow, NextSurvives
    <3> QED
      BY <2>1, <3>2 DEF SInv
  <2>4. CASE "bad" \notin program.ops /\ UNCHANGED vars
    <3>1. UNCHANGED <<gem, bos, call, program, mapped, aborted, rec_ctx, inited, enabled,
                      ctx_cnt, no_fd>>
      BY <2>4 DEF vars, recVars, kernel, shadow, recorder
    <3>2. CASE ShadowInv /\ SurvivalInv
      BY <2>1, <3>1, <3>2, SameStep, StillStep DEF SInv
    <3>3. CASE Excused
      BY <2>1, <3>1, <3>3 DEF SInv, Excused
    <3> QED
      BY <2>4, <3>2, <3>3 DEF SInv
  <2> QED
    BY <2>2, <2>3, <2>4
<1> QED
  BY <1>1, <1>2, PTL DEF Spec

\* libwrap does not kill such a program for another reason: every lookup its hooks make
\* succeeds, every file has its context, every job's commands are mapped
\* (host1x_file_lookup_bo, the asserts of recorder.c and host1x.c).
THEOREM SurvivalCorrect ==
  ASSUME NEW t0, Threads = {t0}
  PROVE  Spec => []ProgramSurvives
<1>1. SInv => ProgramSurvives
  BY DEF SInv, SurvivalInv, ProgramSurvives
<1>2. Spec => []SInv
  BY SurvivalInvariant
<1> QED
  BY <1>1, <1>2, PTL
=============================================================================
