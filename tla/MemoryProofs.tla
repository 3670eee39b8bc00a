---------------------------- MODULE MemoryProofs ----------------------------
(***************************************************************************)
(* Proof that a job which the replay submits finds in its buffers what the *)
(* recorded program's job found in them, for a program of one thread and   *)
(* any number of files, handles, buffers, pages and jobs.                  *)
(*                                                                         *)
(* ContentsInv is about the records that are still to be carried out,      *)
(* PagesInv about every buffer the program has: a page of the replay's     *)
(* buffer is what libwrap recorded of it last, or its record is still to   *)
(* be read, or the GPU has written the page since.  While the records of a *)
(* job are written out, the checksums of the pages the job reads are those *)
(* of the program's memory.                                                *)
(*                                                                         *)
(* The parts are, in this order: what the replay reads; the program's and  *)
(* libwrap's steps but SUBMIT; what the hook of SUBMIT captures; and every *)
(* step together.                                                          *)
(*                                                                         *)
(* And proof that the overlay of the replay shows the framebuffer that the *)
(* kernel shows.  ReplayFbInv is about the two lists of framebuffers,      *)
(* ScreenInv about what is shown.  The parts are the calls that leave the  *)
(* framebuffers alone; the calls that make, remove and show one; the       *)
(* records of framebuffers; and every step together.                       *)
(***************************************************************************)
EXTENDS ReplayProofs

-----------------------------------------------------------------------------
(* What the replay reads *)

\* The records that are left load what they loaded before.
LEMMA LoadingDrop ==
  ASSUME NEW r, r \in Seq(Range(r)), NEW k \in 0..Len(r), NEW id, NEW p
  PROVE  /\ Loading(Drop(r, k), id, p) => Loading(r, id, p)
         /\ Loading(r, id, p) =>
              \/ Loading(Drop(r, k), id, p)
              \/ \E i \in 1..k : r[i].act = "BO_LOAD_DATA" /\ r[i].id = id /\ r[i].page = p
<1>1. /\ Len(r) \in Nat /\ DOMAIN r = 1..Len(r) /\ k \in Nat
      /\ DOMAIN Drop(r, k) = 1..Len(r) - k
      /\ \A i \in 1..Len(r) - k : i + k \in DOMAIN r /\ Drop(r, k)[i] = r[i + k]
  BY DropList, ListIs
<1>2. ASSUME Loading(Drop(r, k), id, p)
      PROVE  Loading(r, id, p)
  BY <1>1, <1>2 DEF Loading
<1>3. ASSUME NEW i \in DOMAIN r, r[i].act = "BO_LOAD_DATA", r[i].id = id, r[i].page = p, ~(i \in 1..k)
      PROVE  Loading(Drop(r, k), id, p)
  <2>1. i - k \in 1..Len(r) - k /\ (i - k) + k = i
    BY <1>1, <1>3
  <2>2. Drop(r, k)[i - k] = r[i]
    BY <1>1, <2>1
  <2> QED
    BY <1>1, <1>3, <2>1, <2>2 DEF Loading
<1> QED
  BY <1>2, <1>3 DEF Loading

\* What is left of the records agrees with the shadow.
LEMMA ContentsDrop ==
  ASSUME NEW t, ContentsInv(t), UNCHANGED bos, NEW r, r = Unread(t), r \in Seq(Range(r)), Complete(r),
         NEW k \in 0..Len(r), Unread(t)' = Drop(r, k),
         call[t].op = "submit" => call'[t] = call[t]
  PROVE  ContentsInv(t)'
<1> DEFINE s == Drop(r, k)
<1>1. /\ Len(r) \in Nat /\ DOMAIN r = 1..Len(r) /\ k \in Nat
      /\ DOMAIN s = 1..Len(r) - k /\ Len(s) = Len(r) - k
      /\ \A i \in 1..Len(r) - k : i + k \in DOMAIN r /\ s[i] = r[i + k]
  BY DropList, ListIs
<1>2. Unread(t)' = s
  OBVIOUS
<1> HIDE DEF s
<1>3. ASSUME NEW i \in DOMAIN s
      PROVE  /\ i + k \in DOMAIN r /\ s[i] = r[i + k]
             /\ s[i].act = "BO_LOAD_DATA" => s[i + 1] = r[(i + k) + 1]
             /\ i + k = Len(r) => i = Len(s)
             /\ \A l \in DOMAIN s : l > i => l + k \in DOMAIN r /\ l + k > i + k /\ s[l] = r[l + k]
  <2>1. i + k \in DOMAIN r /\ s[i] = r[i + k] /\ (i + k = Len(r) => i = Len(s))
    BY <1>1
  <2>2. s[i].act = "BO_LOAD_DATA" => (i + k) + 1 \in DOMAIN r
    BY <2>1 DEF Complete
  <2>3. (i + k) + 1 \in DOMAIN r => i + 1 \in 1..Len(r) - k /\ (i + k) + 1 = (i + 1) + k
    BY <1>1
  <2>4. s[i].act = "BO_LOAD_DATA" => s[i + 1] = r[(i + k) + 1]
    BY <1>1, <2>2, <2>3
  <2>5. \A l \in DOMAIN s : l > i => l + k \in DOMAIN r /\ l + k > i + k /\ s[l] = r[l + k]
    BY <1>1
  <2> QED
    BY <2>1, <2>4, <2>5
<1>4. ASSUME NEW i \in DOMAIN s
      PROVE  /\ JobLast(t, s, i)'
             /\ s[i].act = "relocs" => call'[t] = call[t]
  <2>1. i + k \in DOMAIN r /\ s[i] = r[i + k]
    BY <1>3
  <2>2. JobLast(t, r, i + k)
    BY <2>1 DEF ContentsInv
  <2>3. s[i].act \in {"JOB_SUBMIT", "relocs"} =>
          /\ call'[t] = call[t] /\ call[t].op = "submit"
          /\ \A l \in DOMAIN s : l > i => s[l].act # "BO_LOAD_DATA"
    BY <1>3, <2>1, <2>2 DEF JobLast
  <2>4. s[i].act = "relocs" => i = Len(s) /\ s[i].write = call[t].write
    BY <1>3, <2>1, <2>2 DEF JobLast
  <2> QED
    BY ONLY <1>2, <2>3, <2>4 DEF JobLast
<1>5. ASSUME NEW i \in DOMAIN s, NEW f \in Files, NEW j \in DOMAIN bos[f]
      PROVE  Agrees(t, s, i, f, bos[f][j])'
  <2>1. i + k \in DOMAIN r /\ s[i] = r[i + k]
    BY <1>3
  <2>2. Agrees(t, r, i + k, f, bos[f][j])
    BY <2>1 DEF ContentsInv
  <2>3. PICK b : b = bos[f][j]
    OBVIOUS
  <2>4. /\ s[i].act = "BO_CREATE" /\ s[i].id = b.id => b.chksum = [p \in 1..s[i].num_pages |-> Zero]
        /\ s[i].act = "BO_LOAD_DATA" /\ s[i].id = b.id =>
             s[i].page \in DOMAIN b.chksum /\ r[(i + k) + 1].data = b.chksum[s[i].page]
        /\ s[i].act = "relocs" /\ s[i].write # None /\ s[i].ids[s[i].write.target] = b.id =>
             f = call[t].file /\ b.handle = call[t].order[s[i].write.target]
    BY ONLY <2>1, <2>2, <2>3 DEF Agrees
  <2>5. /\ s[i].act = "BO_LOAD_DATA" => s[i + 1] = r[(i + k) + 1]
        /\ s[i].act = "relocs" => call'[t] = call[t]
    BY <1>3, <1>4
  <2>6. bos'[f][j] = b
    BY <2>3
  <2> QED
    BY ONLY <1>2, <2>4, <2>5, <2>6, Zenon DEF Agrees
<1> QED
  BY <1>2, <1>4, <1>5 DEF ContentsInv

\* What record_write_data leaves alone
LEMMA WriteKeeps ==
  ASSUME NEW t, Threads = {t}, ReplayInv(t), record_write_data(t)
  PROVE  /\ UNCHANGED <<program, gem, mem, rendered, bos>> /\ out[t] # <<>>
         /\ call[t].op = "submit" => call'[t] = call[t]
         /\ call'[t].op = "submit" => call[t].op = "submit"
         /\ out'[t] # <<>> => out[t] # <<>>
         /\ \A f, h : (Calls("create", f, h))' = Calls("create", f, h)
<1>1. DOMAIN call = Threads
  BY TablesAre
<1>2. /\ UNCHANGED <<program, gem, mem, rendered, bos>> /\ out[t] # <<>>
      /\ call' = IF call[t].op \in {"opening", "return"} /\ Len(out[t]) = 1
                 THEN [call EXCEPT ![t] = NoCall] ELSE call
  BY Zenon DEF record_write_data, kernel, shadow
<1>3. NoCall.op = "none"
  BY CallFields
<1>4. \/ call' = call
      \/ call[t].op \in {"opening", "return"} /\ call'[t] = NoCall
  BY <1>1, <1>2
<1>5. \A f, h : (Calls("create", f, h))' = Calls("create", f, h)
  BY <1>3, <1>4 DEF Calls
<1> QED
  BY <1>2, <1>3, <1>4, <1>5
\* What reading a record may do to the pages of the buffer b
PagesOn(t, f, b) ==
    /\ \A j \in MirrorsOf(b.id)' : DOMAIN bo_list'[j].map = DOMAIN b.chksum
    /\ \A p \in DOMAIN b.chksum : Recent(t, f, b, p) => Recent(t, f, b, p)'

\* The replay carries out k records, and keeps up with every buffer the program has.
LEMMA ReadMemory ==
  ASSUME NEW t, Threads = {t}, ReplayInv(t), MemoryInv(t), record_write_data(t),
         NEW r, r = Unread(t), NEW k \in 0..Len(r), Unread(t)' = Drop(r, k),
         \A f \in Files : \A i \in DOMAIN bos[f] : \A b :
           b = bos[f][i] /\ Given(f, b.handle) => PagesOn(t, f, b)
  PROVE  MemoryInv(t)'
<1>1. /\ UNCHANGED <<program, gem, mem, rendered, bos>> /\ out[t] # <<>>
      /\ call[t].op = "submit" => call'[t] = call[t]
      /\ call'[t].op = "submit" => call[t].op = "submit"
      /\ \A f, h : (Calls("create", f, h))' = Calls("create", f, h)
  BY WriteKeeps
<1>2. r \in Seq(Range(r)) /\ Complete(r)
  BY <1>1, UnreadIs DEF ReplayInv, RecordsInv
<1>3. ContentsInv(t)'
  BY <1>1, <1>2, ContentsDrop DEF MemoryInv
<1>4. ASSUME NEW f \in Files, NEW i \in DOMAIN bos[f], NEW b, b = bos[f][i], Given(f, b.handle)'
      PROVE  PagesInv(t, f, b)'
  <2>1. Given(f, b.handle)
    BY <1>1, <1>4 DEF Given
  <2>2. PagesInv(t, f, b) /\ PagesOn(t, f, b)
    BY <1>4, <2>1 DEF MemoryInv
  <2>3. PICK m : m = mem[gem[f][b.handle]]
    OBVIOUS
  <2>4. mem'[gem'[f][b.handle]] = m
    BY <1>1, <2>3
  <2>5. Capturing(t, f, b)' => Capturing(t, f, b)
    BY <1>1 DEF Capturing
  <2>6. /\ DOMAIN b.chksum = DOMAIN m
        /\ program.checksums \/ Capturing(t, f, b) => \A p \in DOMAIN m : Recent(t, f, b, p)
        /\ Capturing(t, f, b) => \A p \in Promised(Len(m)) : b.chksum[p] = m[p]
    BY ONLY <2>2, <2>3 DEF PagesInv
  <2>7. /\ \A j \in MirrorsOf(b.id)' : DOMAIN bo_list'[j].map = DOMAIN m
        /\ \A p \in DOMAIN m : Recent(t, f, b, p) => Recent(t, f, b, p)'
    BY ONLY <2>2, <2>6 DEF PagesOn
  <2>8. program' = program
    BY <1>1
  <2> HIDE <1>1
  <2> QED
    BY ONLY <2>4, <2>5, <2>6, <2>7, <2>8, Zenon DEF PagesInv, Promised
<1>5. ASSUME NEW f \in Files, NEW i \in DOMAIN bos'[f], Given(f, bos[f][i].handle)'
      PROVE  PagesInv(t, f, bos[f][i])'
  <2>1. PICK b : b = bos[f][i]
    OBVIOUS
  <2>2. i \in DOMAIN bos[f] /\ bos'[f][i] = b
    BY <1>1, <2>1
  <2>3. Given(f, b.handle)'
    BY <1>5, <2>2
  <2>4. PagesInv(t, f, b)'
    BY <1>4, <2>1, <2>2, <2>3
  <2> QED
    BY <2>2, <2>4
<1>6. \A o \in Objs : mem'[o] \in Seq(Range(mem'[o])) /\ mem'[o] # <<>>
  BY <1>1 DEF MemoryInv
<1>7. call'[t].op = "submit" =>
        /\ call'[t].file \in Files
        /\ \A h \in call'[t].uses : h \in Handles /\ gem'[call'[t].file][h] # None
  BY <1>1 DEF MemoryInv
<1>8. \A f \in Files : \A i \in DOMAIN bos'[f] : ShapeInv(bos'[f][i])
  BY <1>1 DEF MemoryInv
<1> QED
  BY ONLY <1>3, <1>5, <1>6, <1>7, <1>8 DEF MemoryInv

\* The page has not been touched.
LEMMA RecentOn ==
  ASSUME NEW t, NEW f, NEW b, NEW p, UNCHANGED <<program, gem, rendered>>, out[t] # <<>>,
         Loading(Unread(t), b.id, p) => Loading(Unread(t), b.id, p)',
         \A i \in MirrorsOf(b.id)' : \E j \in MirrorsOf(b.id) : bo_list'[i].map[p] = bo_list[j].map[p],
         Recent(t, f, b, p)
  PROVE  Recent(t, f, b, p)'
<1>1. ~Replayed(t, f, b.handle, p)
  BY DEF Replayed
<1>2. (\A j \in MirrorsOf(b.id) : bo_list[j].map[p] = b.chksum[p])
        => \A j \in MirrorsOf(b.id)' : bo_list'[j].map[p] = b.chksum[p]
  OBVIOUS
<1>3. program.checksums /\ <<gem[f][b.handle], p>> \in rendered
        => program'.checksums /\ <<gem'[f][b.handle], p>> \in rendered'
  OBVIOUS
<1> QED
  BY ONLY Recent(t, f, b, p), Loading(Unread(t), b.id, p) => Loading(Unread(t), b.id, p)',
          <1>1, <1>2, <1>3 DEF Recent

\* Each buffer that the replay has left is one it had, and the records read load nothing.
LEMMA PagesOld ==
  ASSUME NEW t, Threads = {t}, ReplayInv(t), MemoryInv(t), record_write_data(t),
         NEW r, r = Unread(t), NEW k \in 0..Len(r), Unread(t)' = Drop(r, k),
         \A i \in 1..k : r[i].act # "BO_LOAD_DATA",
         \A i \in DOMAIN bo_list' : \E j \in DOMAIN bo_list : bo_list'[i] = bo_list[j]
  PROVE  MemoryInv(t)'
<1>1. UNCHANGED <<program, gem, mem, rendered, bos>> /\ out[t] # <<>>
  BY WriteKeeps
<1>2. r \in Seq(Range(r))
  BY <1>1, UnreadIs
<1>3. ASSUME NEW f \in Files, NEW i \in DOMAIN bos[f], NEW b, b = bos[f][i], Given(f, b.handle)
      PROVE  PagesOn(t, f, b)
  <2>2. DOMAIN b.chksum = DOMAIN mem[gem[f][b.handle]]
        /\ \A j \in MirrorsOf(b.id) : DOMAIN bo_list[j].map = DOMAIN mem[gem[f][b.handle]]
    BY <1>3 DEF MemoryInv, PagesInv
  <2>3. \A x \in MirrorsOf(b.id)' : \E j \in MirrorsOf(b.id) : bo_list'[x] = bo_list[j]
    BY DEF MirrorsOf
  <2>4. ASSUME NEW p, Recent(t, f, b, p)
        PROVE  Recent(t, f, b, p)'
    <3>1. Loading(r, b.id, p) => Loading(Drop(r, k), b.id, p)
      BY <1>2, LoadingDrop
    <3>2. Loading(Unread(t), b.id, p) => Loading(Unread(t), b.id, p)'
      BY <3>1 DEF Loading
    <3>3. \A x \in MirrorsOf(b.id)' : \E j \in MirrorsOf(b.id) : bo_list'[x].map[p] = bo_list[j].map[p]
      BY <2>3
    <3> QED
      BY <1>1, <2>4, <3>2, <3>3, RecentOn
  <2> QED
    BY <2>2, <2>3, <2>4 DEF PagesOn
<1> QED
  BY <1>3, ReadMemory

\* What is left unread
LEMMA UnreadNext ==
  ASSUME NEW t, Threads = {t}, ReplayInv(t), record_write_data(t), NEW r, r = Unread(t)
  PROVE  /\ r \in Seq(Range(r)) /\ 0 \in 0..Len(r) /\ Len(pending) + 1 \in 0..Len(r)
         /\ Len(pending) + 1 \in 1..Len(r) /\ r[Len(pending) + 1] = Head(out[t])
         /\ \A i \in 1..Len(pending) : r[i] = pending[i]
         /\ out'[t] = Tail(out[t])
         /\ pending' = <<>> => Unread(t)' = Drop(r, Len(pending) + 1)
         /\ pending' = Append(pending, Head(out[t])) => Unread(t)' = Drop(r, 0)
<1> DEFINE c == Head(out[t])
           m == Len(pending) + 1
<1>1. out[t] # <<>> /\ out' = [out EXCEPT ![t] = Tail(@)]
  BY DEF record_write_data
<1>2. DOMAIN out = Threads
  BY DEF ReplayInv, RecordsInv
<1>3. out'[t] = Tail(out[t])
  BY <1>1, <1>2
<1>4. /\ r \in Seq(Range(r)) /\ m \in 1..Len(r) /\ c = r[m]
      /\ \A i \in 1..Len(pending) : r[i] = pending[i]
      /\ <<>> \o Tail(out[t]) = Drop(r, m)
      /\ Append(pending, c) \o Tail(out[t]) = r
  BY <1>1, UnreadIs
<1>5. Drop(r, 0) = r
  <2>1. Len(r) \in Nat /\ r = [i \in 1..Len(r) |-> r[i]]
    BY <1>4, ListIs
  <2> QED
    BY <2>1 DEF Drop
<1>6. pending' = <<>> => Unread(t)' = Drop(r, m)
  BY <1>3, <1>4 DEF Unread
<1>7. pending' = Append(pending, c) => Unread(t)' = Drop(r, 0)
  BY <1>3, <1>4, <1>5 DEF Unread
<1>8. 0 \in 0..Len(r) /\ m \in 0..Len(r)
  <2>1. Len(r) \in Nat
    BY <1>4, ListIs
  <2> QED
    BY <1>4, <2>1
<1> QED
  BY ONLY <1>3, <1>4, <1>6, <1>7, <1>8

\* A record that changes no buffer, or announces a payload
LEMMA OtherMemory ==
  ASSUME NEW t, Threads = {t}, ReplayInv(t), MemoryInv(t), record_write_data(t), bo_list' = bo_list,
         \/ pending' = Append(pending, Head(out[t]))
         \/ /\ pending' = <<>> /\ Head(out[t]).act # "BO_LOAD_DATA"
            /\ \A i \in 1..Len(pending) : pending[i].act # "BO_LOAD_DATA"
  PROVE  MemoryInv(t)'
<1>1. PICK r : r = Unread(t)
  OBVIOUS
<1>2. /\ r \in Seq(Range(r)) /\ 0 \in 0..Len(r) /\ Len(pending) + 1 \in 0..Len(r)
      /\ Len(pending) + 1 \in 1..Len(r) /\ r[Len(pending) + 1] = Head(out[t])
      /\ \A i \in 1..Len(pending) : r[i] = pending[i]
      /\ pending' = <<>> => Unread(t)' = Drop(r, Len(pending) + 1)
      /\ pending' = Append(pending, Head(out[t])) => Unread(t)' = Drop(r, 0)
  BY <1>1, UnreadNext
<1>3. \A i \in DOMAIN bo_list' : \E j \in DOMAIN bo_list : bo_list'[i] = bo_list[j]
  OBVIOUS
<1>4. CASE pending' = Append(pending, Head(out[t]))
  <2>1. \A i \in 1..0 : r[i].act # "BO_LOAD_DATA"
    OBVIOUS
  <2> QED
    BY <1>1, <1>2, <1>3, <1>4, <2>1, PagesOld
<1>5. CASE /\ pending' = <<>> /\ Head(out[t]).act # "BO_LOAD_DATA"
           /\ \A i \in 1..Len(pending) : pending[i].act # "BO_LOAD_DATA"
  <2>1. Len(pending) \in Nat
    <3>1. pending \in Seq(Range(pending))
      BY DEF ReplayInv, RecordsInv
    <3> QED
      BY <3>1, ListIs
  <2>2. \A i \in 1..Len(pending) + 1 : i \in 1..Len(pending) \/ i = Len(pending) + 1
    BY <2>1
  <2>3. \A i \in 1..Len(pending) + 1 : r[i].act # "BO_LOAD_DATA"
    BY <1>2, <1>5, <2>2
  <2> QED
    BY ONLY Threads = {t}, ReplayInv(t), MemoryInv(t), record_write_data(t),
            <1>1, <1>2, <1>3, <1>5, <2>3, PagesOld
<1> QED
  BY <1>4, <1>5

\* BO_DESTROY
LEMMA DestroyMemory ==
  ASSUME NEW t, Threads = {t}, ReplayInv(t), MemoryInv(t), record_write_data(t), pending = <<>>,
         pending' = <<>>, Head(out[t]).act = "BO_DESTROY",
         NEW i \in DOMAIN bo_list, bo_list' = RemoveAt(bo_list, i)
  PROVE  MemoryInv(t)'
<1>1. PICK r : r = Unread(t)
  OBVIOUS
<1>2. /\ Len(pending) + 1 \in 0..Len(r) /\ r[Len(pending) + 1] = Head(out[t])
      /\ pending' = <<>> => Unread(t)' = Drop(r, Len(pending) + 1)
  BY <1>1, UnreadNext
<1>3. Len(pending) + 1 = 1
  OBVIOUS
<1>4. bo_list \in Seq(Range(bo_list))
  BY DEF ReplayInv, ListsInv
<1>5. \A k \in DOMAIN bo_list' : \E j \in DOMAIN bo_list : bo_list'[k] = bo_list[j]
  <2>1. /\ Len(bo_list) \in Nat /\ DOMAIN bo_list = 1..Len(bo_list) /\ DOMAIN bo_list' = 1..Len(bo_list) - 1
        /\ \A k \in 1..Len(bo_list) - 1 : bo_list'[k] = IF k < i THEN bo_list[k] ELSE bo_list[k + 1]
    BY <1>4, ListIs, RemoveAtList
  <2>2. \A k \in 1..Len(bo_list) - 1 : k \in DOMAIN bo_list /\ k + 1 \in DOMAIN bo_list
    BY <2>1
  <2> QED
    BY <2>1, <2>2
<1>6. \A k \in 1..1 : r[k].act # "BO_LOAD_DATA"
  BY <1>2, <1>3
<1> QED
  BY ONLY Threads = {t}, ReplayInv(t), MemoryInv(t), record_write_data(t), pending' = <<>>,
          <1>1, <1>2, <1>3, <1>5, <1>6, PagesOld

\* No two buffers of the replay have the same id, and none has an id about to be created.
LEMMA OneMirror ==
  ASSUME NEW t, ReplayInv(t)
  PROVE  /\ bo_list \in Seq(Range(bo_list))
         /\ \A i, j \in DOMAIN bo_list : bo_list[i].id = bo_list[j].id => i = j
         /\ \A k \in DOMAIN Unread(t) :
              Unread(t)[k].act = "BO_CREATE" => MirrorsOf(Unread(t)[k].id) = {}
<1>1. bo_list \in Seq(Range(bo_list))
  BY DEF ReplayInv, ListsInv
<1>2. PICK L, r : L = IdList(bo_list) /\ r = Unread(t)
  OBVIOUS
<1>3. DOMAIN L = DOMAIN bo_list /\ \A i \in DOMAIN bo_list : L[i] = bo_list[i].id
  BY <1>1, <1>2, IdListIs
<1>4. /\ \A i, j \in DOMAIN L : L[i] = L[j] => i = j
      /\ Range(L) \cap IdsIn(r, "BO_CREATE") = {}
  BY <1>2 DEF ReplayInv, MirrorInv, Mirror
<1>5. \A k \in DOMAIN r : r[k].act = "BO_CREATE" => \A i \in DOMAIN L : L[i] # r[k].id
  BY <1>4 DEF IdsIn, RecordsOf, Range
<1> QED
  BY <1>1, <1>2, <1>3, <1>4, <1>5 DEF MirrorsOf
\* BO_CREATE: the new buffer is cleared, and so is the program's.
LEMMA CreateMemory ==
  ASSUME NEW t, Threads = {t}, ReplayInv(t), MemoryInv(t), record_write_data(t), pending = <<>>,
         pending' = <<>>, NEW c, c = Head(out[t]), c.act = "BO_CREATE",
         bo_list' = Append(bo_list, [id |-> c.id, map |-> [p \in 1..c.num_pages |-> Zero]])
  PROVE  MemoryInv(t)'
<1>1. PICK r : r = Unread(t)
  OBVIOUS
<1>2. /\ r \in Seq(Range(r)) /\ 1 \in 0..Len(r) /\ 1 \in 1..Len(r) /\ r[1] = c /\ Unread(t)' = Drop(r, 1)
  <2>1. Len(pending) + 1 = 1
    OBVIOUS
  <2> QED
    BY <1>1, <2>1, UnreadNext
<1>3. 1 \in DOMAIN r /\ \A i \in 1..1 : r[i].act # "BO_LOAD_DATA"
  BY <1>2, ListIs
<1>4. bo_list \in Seq(Range(bo_list)) /\ MirrorsOf(c.id) = {}
  BY <1>1, <1>2, <1>3, OneMirror
<1>5. /\ Len(bo_list) \in Nat /\ DOMAIN bo_list' = 1..Len(bo_list) + 1
      /\ DOMAIN bo_list = 1..Len(bo_list)
      /\ \A i \in 1..Len(bo_list) : bo_list'[i] = bo_list[i]
      /\ bo_list'[Len(bo_list) + 1].id = c.id
      /\ bo_list'[Len(bo_list) + 1].map = [p \in 1..c.num_pages |-> Zero]
  BY <1>4, AppendList, ListIs
<1>6. \A i \in DOMAIN bo_list' :
        \/ i \in DOMAIN bo_list /\ bo_list'[i] = bo_list[i]
        \/ bo_list'[i].id = c.id /\ bo_list'[i].map = [p \in 1..c.num_pages |-> Zero]
  <2>1. \A i \in 1..Len(bo_list) + 1 : i \in 1..Len(bo_list) \/ i = Len(bo_list) + 1
    BY <1>5
  <2> QED
    BY <1>5, <2>1
<1>7. UNCHANGED <<program, gem, mem, rendered, bos>> /\ out[t] # <<>>
  BY WriteKeeps
<1>8. ASSUME NEW f \in Files, NEW i \in DOMAIN bos[f], NEW b, b = bos[f][i], Given(f, b.handle)
      PROVE  PagesOn(t, f, b)
  <2>1. DOMAIN b.chksum = DOMAIN mem[gem[f][b.handle]]
        /\ \A j \in MirrorsOf(b.id) : DOMAIN bo_list[j].map = DOMAIN mem[gem[f][b.handle]]
    BY <1>8 DEF MemoryInv, PagesInv
  <2>2. CASE b.id = c.id
    <3>1. Agrees(t, r, 1, f, b)
      BY <1>1, <1>3, <1>8 DEF MemoryInv, ContentsInv
    <3>2. b.chksum = [p \in 1..c.num_pages |-> Zero]
      BY <1>2, <2>2, <3>1 DEF Agrees
    <3>3. \A j \in MirrorsOf(b.id)' : bo_list'[j].map = b.chksum
      BY <1>4, <1>6, <2>2, <3>2 DEF MirrorsOf
    <3> QED
      BY <3>3 DEF PagesOn, Recent
  <2>3. CASE b.id # c.id
    <3>1. \A x \in MirrorsOf(b.id)' : \E j \in MirrorsOf(b.id) : bo_list'[x] = bo_list[j]
      BY <1>6, <2>3 DEF MirrorsOf
    <3>2. ASSUME NEW p, Recent(t, f, b, p)
          PROVE  Recent(t, f, b, p)'
      <4>1. Loading(r, b.id, p) => Loading(Drop(r, 1), b.id, p)
        BY <1>2, <1>3, LoadingDrop
      <4>2. Loading(Unread(t), b.id, p) => Loading(Unread(t), b.id, p)'
        BY <1>1, <1>2, <4>1 DEF Loading
      <4>3. \A x \in MirrorsOf(b.id)' : \E j \in MirrorsOf(b.id) : bo_list'[x].map[p] = bo_list[j].map[p]
        BY <3>1
      <4> QED
        BY <1>7, <3>2, <4>2, <4>3, RecentOn
    <3> QED
      BY <2>1, <3>1, <3>2 DEF PagesOn
  <2> QED
    BY <2>2, <2>3
<1> QED
  BY ONLY Threads = {t}, ReplayInv(t), MemoryInv(t), record_write_data(t), <1>1, <1>2, <1>8, ReadMemory

\* A page of a buffer is stored.
LEMMA Stored ==
  ASSUME NEW t, ReplayInv(t), NEW id, NEW i \in lookup_bo(id), NEW p, NEW v, Store(i, p, v), NEW x
  PROVE  /\ x # id => \A j \in MirrorsOf(x)' : j \in MirrorsOf(x) /\ bo_list'[j] = bo_list[j]
         /\ \A j \in MirrorsOf(x)' :
              /\ j \in MirrorsOf(x) /\ DOMAIN bo_list'[j].map = DOMAIN bo_list[j].map
              /\ \A q : q # p => bo_list'[j].map[q] = bo_list[j].map[q]
              /\ x = id /\ p \in DOMAIN bo_list[j].map => bo_list'[j].map[p] = v
<1>1. /\ i \in DOMAIN bo_list /\ bo_list[i].id = id
      /\ bo_list \in Seq(Range(bo_list))
      /\ \A j, k \in DOMAIN bo_list : bo_list[j].id = bo_list[k].id => j = k
  BY OneMirror DEF lookup_bo
<1>2. PICK e, m : e = bo_list[i] /\ m = e.map
  OBVIOUS
<1>3. bo_list' = [bo_list EXCEPT ![i] = [id |-> e.id, map |-> [m EXCEPT ![p] = v]]]
  BY <1>2 DEF Store
<1>4. /\ DOMAIN bo_list' = DOMAIN bo_list
      /\ \A j \in DOMAIN bo_list : j # i => bo_list'[j] = bo_list[j]
      /\ bo_list'[i].id = id /\ bo_list'[i].map = [m EXCEPT ![p] = v]
  BY <1>1, <1>2, <1>3
<1>5. /\ DOMAIN bo_list'[i].map = DOMAIN m
      /\ \A q : q # p => bo_list'[i].map[q] = m[q]
      /\ p \in DOMAIN m => bo_list'[i].map[p] = v
  BY <1>4
<1>6. ASSUME NEW j \in MirrorsOf(x)'
      PROVE  /\ j \in MirrorsOf(x) /\ (x # id => bo_list'[j] = bo_list[j])
             /\ j # i => bo_list'[j] = bo_list[j] /\ x # id
             /\ j = i => x = id
  BY <1>1, <1>4 DEF MirrorsOf
<1> QED
  BY <1>2, <1>5, <1>6

\* BO_LOAD_DATA: the page is what libwrap recorded last.
LEMMA LoadMemory ==
  ASSUME NEW t, Threads = {t}, ReplayInv(t), MemoryInv(t), record_write_data(t), pending # <<>>,
         NEW h, h = Head(pending), h.act = "BO_LOAD_DATA", NEW c, c = Head(out[t]),
         NEW i \in lookup_bo(h.id), Store(i, h.page, c.data), pending' = <<>>
  PROVE  MemoryInv(t)'
<1>1. PICK r : r = Unread(t)
  OBVIOUS
<1>2. Len(pending) + 1 = 2 /\ r[1] = h /\ r[2] = c /\ c.act = "page"
  BY <1>1, PayloadIs
<1>3. /\ r \in Seq(Range(r)) /\ 2 \in 0..Len(r) /\ 2 \in 1..Len(r) /\ Unread(t)' = Drop(r, 2)
  BY <1>1, <1>2, UnreadNext
<1>4. 1 \in DOMAIN r
  BY <1>3, ListIs
<1>5. UNCHANGED <<program, gem, mem, rendered, bos>> /\ out[t] # <<>>
  BY WriteKeeps
<1>6. ASSUME NEW f \in Files, NEW k \in DOMAIN bos[f], NEW b, b = bos[f][k], Given(f, b.handle)
      PROVE  PagesOn(t, f, b)
  <2>1. DOMAIN b.chksum = DOMAIN mem[gem[f][b.handle]]
        /\ \A j \in MirrorsOf(b.id) : DOMAIN bo_list[j].map = DOMAIN mem[gem[f][b.handle]]
    BY <1>6 DEF MemoryInv, PagesInv
  <2>2. /\ b.id # h.id => \A j \in MirrorsOf(b.id)' : j \in MirrorsOf(b.id) /\ bo_list'[j] = bo_list[j]
        /\ \A j \in MirrorsOf(b.id)' :
              /\ j \in MirrorsOf(b.id) /\ DOMAIN bo_list'[j].map = DOMAIN bo_list[j].map
              /\ \A q : q # h.page => bo_list'[j].map[q] = bo_list[j].map[q]
              /\ b.id = h.id /\ h.page \in DOMAIN bo_list[j].map => bo_list'[j].map[h.page] = c.data
    BY Stored
  <2>3. ASSUME NEW p \in DOMAIN b.chksum, Recent(t, f, b, p)
        PROVE  Recent(t, f, b, p)'
    <3>1. CASE b.id = h.id /\ p = h.page
      <4>1. Agrees(t, r, 1, f, b)
        BY <1>1, <1>4, <1>6 DEF MemoryInv, ContentsInv
      <4>2. c.data = b.chksum[h.page]
        BY <1>2, <3>1, <4>1 DEF Agrees
      <4>3. \A j \in MirrorsOf(b.id)' : bo_list'[j].map[p] = b.chksum[p]
        BY <2>1, <2>2, <3>1, <4>2
      <4> QED
        BY ONLY <4>3 DEF Recent
    <3>2. CASE ~(b.id = h.id /\ p = h.page)
      <4>1. Loading(r, b.id, p) => Loading(Drop(r, 2), b.id, p)
        <5>1. \A x \in 1..2 : x = 1 \/ x = 2
          OBVIOUS
        <5> QED
          BY <1>2, <1>3, <3>2, <5>1, LoadingDrop
      <4>2. Loading(Unread(t), b.id, p) => Loading(Unread(t), b.id, p)'
        BY <1>1, <1>3, <4>1 DEF Loading
      <4>3. \A x \in MirrorsOf(b.id)' : \E j \in MirrorsOf(b.id) : bo_list'[x].map[p] = bo_list[j].map[p]
        BY <2>2, <3>2
      <4> QED
        BY <1>5, <2>3, <4>2, <4>3, RecentOn
    <3> QED
      BY <3>1, <3>2
  <2>4. \A j \in MirrorsOf(b.id)' : DOMAIN bo_list'[j].map = DOMAIN b.chksum
    BY ONLY <2>1, <2>2
  <2> QED
    BY ONLY <2>3, <2>4 DEF PagesOn
<1> QED
  BY ONLY Threads = {t}, ReplayInv(t), MemoryInv(t), record_write_data(t), <1>1, <1>3, <1>6, ReadMemory

\* A job that writes: the program's does it next.
LEMMA JobMemory ==
  ASSUME NEW t, Threads = {t}, ReplayInv(t), MemoryInv(t), record_write_data(t), pending # <<>>,
         Head(pending).act = "JOB_SUBMIT", Len(pending) = 2, NEW c, c = Head(out[t]), pending' = <<>>,
         NEW w, w = c.write, w # None, NEW i \in lookup_bo(c.ids[w.target]), Store(i, w.page, w.data)
  PROVE  MemoryInv(t)'
<1>1. PICK r : r = Unread(t)
  OBVIOUS
<1>2. /\ Len(pending) + 1 = 3 /\ r[3] = c /\ c.act = "relocs" /\ r[1].act = "JOB_SUBMIT"
      /\ r[2].act = "gathers"
  BY <1>1, PayloadIs
<1>3. /\ r \in Seq(Range(r)) /\ 3 \in 0..Len(r) /\ 3 \in 1..Len(r) /\ Unread(t)' = Drop(r, 3)
      /\ out'[t] = Tail(out[t])
  BY <1>1, <1>2, UnreadNext
<1>4. 3 \in DOMAIN r
  BY <1>3, ListIs
<1>5. /\ UNCHANGED <<program, gem, mem, rendered, bos>> /\ out[t] # <<>>
      /\ call[t].op = "submit" => call'[t] = call[t]
  BY WriteKeeps
<1>6. JobLast(t, r, 3)
  BY <1>1, <1>4 DEF MemoryInv, ContentsInv
<1>7. call'[t] = call[t] /\ call[t].op = "submit" /\ Len(r) = 3 /\ call[t].write = w
  BY <1>2, <1>5, <1>6 DEF JobLast
<1>8. out'[t] = <<>>
  <2>1. out[t] \in Seq(Range(out[t])) /\ pending \in Seq(Range(pending))
    BY DEF ReplayInv, RecordsInv
  <2>2. PICK o, n, m : o = out[t] /\ n = Len(o) /\ m = Len(pending)
    OBVIOUS
  <2>3. Len(r) = m + n /\ n \in Nat
    BY <1>1, <2>1, <2>2, ConcatList DEF Unread
  <2>4. Len(r) = 3 /\ m = 2
    BY <1>7, <2>2
  <2>5. n = 1
    <3>1. 3 = 2 + n /\ n \in Nat
      BY ONLY <2>3, <2>4
    <3> QED
      BY ONLY <3>1
  <2>6. o # <<>> /\ o \in Seq(Range(o)) /\ Tail(o) \in Seq(Range(Tail(o)))
    BY <1>5, <2>1, <2>2, UnreadIs
  <2>7. Len(Tail(o)) = 0
    <3>1. Len(o) = 1
      BY ONLY <2>2, <2>5
    <3> QED
      BY ONLY <2>6, <3>1
  <2>8. PICK u : u = Tail(o)
    OBVIOUS
  <2>9. u \in Seq(Range(u)) /\ Len(u) = 0
    BY ONLY <2>6, <2>7, <2>8
  <2>10. DOMAIN u = {}
    BY ONLY <2>9, ListIs
  <2>11. u = <<>>
    BY ONLY <2>9, <2>10, EmptyList
  <2> QED
    BY ONLY <1>3, <2>2, <2>8, <2>11
<1>9. \A x \in 1..3 : r[x].act # "BO_LOAD_DATA"
  <2>1. \A x \in 1..3 : x = 1 \/ x = 2 \/ x = 3
    OBVIOUS
  <2> QED
    BY <1>2, <2>1
<1>10. ASSUME NEW f \in Files, NEW k \in DOMAIN bos[f], NEW b, b = bos[f][k], Given(f, b.handle)
       PROVE  PagesOn(t, f, b)
  <2>1. DOMAIN b.chksum = DOMAIN mem[gem[f][b.handle]]
        /\ \A j \in MirrorsOf(b.id) : DOMAIN bo_list[j].map = DOMAIN mem[gem[f][b.handle]]
    BY <1>10 DEF MemoryInv, PagesInv
  <2>2. PICK id : id = c.ids[w.target]
    OBVIOUS
  <2>3. /\ b.id # id => \A j \in MirrorsOf(b.id)' : j \in MirrorsOf(b.id) /\ bo_list'[j] = bo_list[j]
        /\ \A j \in MirrorsOf(b.id)' :
              /\ j \in MirrorsOf(b.id) /\ DOMAIN bo_list'[j].map = DOMAIN bo_list[j].map
              /\ \A q : q # w.page => bo_list'[j].map[q] = bo_list[j].map[q]
    BY <2>2, Stored
  <2>4. ASSUME NEW p \in DOMAIN b.chksum, Recent(t, f, b, p)
        PROVE  Recent(t, f, b, p)'
    <3>1. CASE b.id = id /\ p = w.page
      <4>1. Agrees(t, r, 3, f, b)
        BY <1>1, <1>4, <1>10 DEF MemoryInv, ContentsInv
      <4>2. f = call[t].file /\ b.handle = call[t].order[w.target]
        BY <1>2, <2>2, <3>1, <4>1 DEF Agrees
      <4>3. Replayed(t, f, b.handle, p)'
        BY <1>7, <1>8, <3>1, <4>2 DEF Replayed
      <4> QED
        BY ONLY <4>3 DEF Recent
    <3>2. CASE ~(b.id = id /\ p = w.page)
      <4>1. Loading(r, b.id, p) => Loading(Drop(r, 3), b.id, p)
        BY <1>3, <1>9, LoadingDrop
      <4>2. Loading(Unread(t), b.id, p) => Loading(Unread(t), b.id, p)'
        BY <1>1, <1>3, <4>1 DEF Loading
      <4>3. \A x \in MirrorsOf(b.id)' : \E j \in MirrorsOf(b.id) : bo_list'[x].map[p] = bo_list[j].map[p]
        BY <2>3, <3>2
      <4> QED
        BY <1>5, <2>4, <4>2, <4>3, RecentOn
    <3> QED
      BY <3>1, <3>2
  <2>5. \A j \in MirrorsOf(b.id)' : DOMAIN bo_list'[j].map = DOMAIN b.chksum
    BY ONLY <2>1, <2>3
  <2> QED
    BY ONLY <2>4, <2>5 DEF PagesOn
<1> QED
  BY ONLY Threads = {t}, ReplayInv(t), MemoryInv(t), record_write_data(t), <1>1, <1>3, <1>10, ReadMemory

\* A header or a record without payload
LEMMA HandleMemory ==
  ASSUME NEW t, Threads = {t}, ReplayInv(t), MemoryInv(t), record_write_data(t), status' = "running",
         pending = <<>>, NEW c, c = Head(out[t]), handle(c)
  PROVE  MemoryInv(t)'
<1>1. /\ ~Asserted /\ ~Stopped
  BY DEF Asserted, Stopped
<1>2. \/ c.act = "START" /\ UNCHANGED <<lists, pending>>
      \/ c.act = "INFO" /\ info(c)
      \/ c.act = "CTX_CREATE" /\ create_context(c)
      \/ c.act = "CTX_DESTROY" /\ destroy_context(c)
      \/ c.act = "BO_CREATE" /\ create_bo(c)
      \/ c.act = "BO_DESTROY" /\ destroy_bo(c)
      \/ c.act = "BO_SET_FLAGS" /\ set_bo_flags(c)
      \/ c.act = "ADD_FRAMEBUFFER" /\ create_framebuffer(c)
      \/ c.act = "DEL_FRAMEBUFFER" /\ destroy_framebuffer(c)
      \/ c.act = "DISP_FRAMEBUFFER" /\ display_framebuffer(c)
      \/ c.act = "JOB_CTX_CREATE" /\ create_job_context(c)
      \/ c.act = "JOB_CTX_DESTROY" /\ destroy_job_context(c)
      \/ c.act \in {"BO_LOAD_DATA", "JOB_SUBMIT"} /\ expect(c)
  BY <1>1, Zenon DEF handle
<1>3. \/ c.act # "BO_LOAD_DATA" /\ UNCHANGED <<bo_list, pending>>
      \/ c.act = "BO_CREATE" /\ create_bo(c)
      \/ c.act = "BO_DESTROY" /\ destroy_bo(c)
      \/ expect(c)
  <2>1. CASE c.act = "START" /\ UNCHANGED <<lists, pending>>
    BY <2>1 DEF lists
  <2>2. CASE c.act = "INFO" /\ info(c)
    BY <1>1, <2>2 DEF info, lists
  <2>3. CASE c.act = "CTX_CREATE" /\ create_context(c)
    BY <2>3 DEF create_context
  <2>4. CASE c.act = "CTX_DESTROY" /\ destroy_context(c)
    BY <1>1, <2>4 DEF destroy_context
  <2>5. CASE c.act = "BO_SET_FLAGS" /\ set_bo_flags(c)
    BY <1>1, <2>5 DEF set_bo_flags, lists
  <2>6. CASE c.act = "ADD_FRAMEBUFFER" /\ create_framebuffer(c)
    BY <1>1, <2>6 DEF create_framebuffer
  <2>7. CASE c.act = "DEL_FRAMEBUFFER" /\ destroy_framebuffer(c)
    BY <1>1, <2>7 DEF destroy_framebuffer
  <2>8. CASE c.act = "DISP_FRAMEBUFFER" /\ display_framebuffer(c)
    BY <1>1, <2>8 DEF display_framebuffer, lists
  <2>9. CASE c.act = "JOB_CTX_CREATE" /\ create_job_context(c)
    BY <2>9 DEF create_job_context
  <2>10. CASE c.act = "JOB_CTX_DESTROY" /\ destroy_job_context(c)
    BY <1>1, <2>10 DEF destroy_job_context
  <2> QED
    BY <1>2, <2>1, <2>2, <2>3, <2>4, <2>5, <2>6, <2>7, <2>8, <2>9, <2>10
<1>4. CASE c.act # "BO_LOAD_DATA" /\ UNCHANGED <<bo_list, pending>>
  <2>1. \A i \in 1..Len(pending) : pending[i].act # "BO_LOAD_DATA"
    <3>1. Len(pending) = 0
      OBVIOUS
    <3> QED
      BY <3>1
  <2> QED
    BY <1>4, <2>1, OtherMemory
<1>5. CASE c.act = "BO_CREATE" /\ create_bo(c)
  <2>1. /\ bo_list' = Append(bo_list, [id |-> c.id, map |-> [p \in 1..c.num_pages |-> Zero]])
        /\ pending' = <<>>
    BY <1>1, <1>5 DEF create_bo
  <2> QED
    BY <1>5, <2>1, CreateMemory
<1>6. CASE c.act = "BO_DESTROY" /\ destroy_bo(c)
  <2>1. pending' = <<>> /\ \E i \in lookup_bo(c.id) : bo_list' = RemoveAt(bo_list, i)
    BY <1>1, <1>6 DEF destroy_bo
  <2>2. PICK i \in DOMAIN bo_list : bo_list' = RemoveAt(bo_list, i)
    BY <2>1 DEF lookup_bo
  <2> QED
    BY <1>6, <2>1, <2>2, DestroyMemory
<1>7. CASE expect(c)
  <2>1. pending' = <<c>> /\ bo_list' = bo_list
    BY <1>1, <1>7 DEF expect, lists
  <2>2. pending' = Append(pending, Head(out[t]))
    BY <2>1
  <2> QED
    BY <2>1, <2>2, OtherMemory
<1> QED
  BY <1>3, <1>4, <1>5, <1>6, <1>7

\* A payload
LEMMA PayloadMemory ==
  ASSUME NEW t, Threads = {t}, ReplayInv(t), MemoryInv(t), record_write_data(t), status' = "running",
         pending # <<>>, NEW c, c = Head(out[t]), NEW h, h = Head(pending),
         \/ h.act = "BO_LOAD_DATA" /\ load_bo(c)
         \/ h.act = "JOB_SUBMIT" /\ Len(pending) = 1 /\ read_gathers(c)
         \/ h.act = "JOB_SUBMIT" /\ Len(pending) = 2 /\ submit_job(c)
  PROVE  MemoryInv(t)'
<1>1. /\ ~Asserted /\ ~Stopped
  BY DEF Asserted, Stopped
<1>2. CASE h.act = "BO_LOAD_DATA" /\ load_bo(c)
  <2>1. pending' = <<>> /\ \E i \in lookup_bo(h.id) : Store(i, h.page, c.data)
    BY <1>1, <1>2 DEF load_bo
  <2> QED
    BY <1>2, <2>1, LoadMemory
<1>3. CASE h.act = "JOB_SUBMIT" /\ Len(pending) = 1 /\ read_gathers(c)
  <2>1. pending = <<h>> /\ c.act = "gathers"
    BY <1>3, PayloadIs
  <2>2. bo_list' = bo_list /\ pending' = IF h.num_relocs > 0 THEN <<h, c>> ELSE <<>>
    BY <1>1, <1>3 DEF read_gathers, lists
  <2>3. CASE h.num_relocs > 0
    <3>1. pending' = Append(pending, Head(out[t]))
      BY <2>1, <2>2, <2>3, AppendOne
    <3> QED
      BY <2>2, <3>1, OtherMemory
  <2>4. CASE ~(h.num_relocs > 0)
    <3>1. \A i \in 1..Len(pending) : pending[i].act # "BO_LOAD_DATA"
      <4>1. \A i \in 1..Len(pending) : i = 1
        BY <1>3
      <4>2. pending[1] = h
        BY <2>1
      <4> QED
        BY <1>3, <4>1, <4>2
    <3>2. pending' = <<>> /\ Head(out[t]).act # "BO_LOAD_DATA"
      BY <2>1, <2>2, <2>4
    <3> QED
      BY <2>2, <3>1, <3>2, OtherMemory
  <2> QED
    BY <2>3, <2>4
<1>4. CASE h.act = "JOB_SUBMIT" /\ Len(pending) = 2 /\ submit_job(c)
  <2>1. Execute(c.ids, c.write) /\ pending' = <<>>
    BY <1>1, <1>4 DEF submit_job
  <2>2. c.act = "relocs" /\ pending[2].act = "gathers"
    BY <1>4, PayloadIs
  <2>3. CASE c.write = None /\ UNCHANGED bo_list
    <3>1. \A i \in 1..Len(pending) : i = 1 \/ i = 2
      BY <1>4
    <3>2. pending[1] = h
      BY DEF ReplayInv, RecordsInv
    <3>3. \A i \in 1..Len(pending) : pending[i].act # "BO_LOAD_DATA"
      BY <1>4, <2>2, <3>1, <3>2
    <3>4. Head(out[t]).act # "BO_LOAD_DATA"
      BY <2>2
    <3> QED
      BY <2>1, <2>3, <3>3, <3>4, OtherMemory
  <2>4. CASE c.write # None /\ \E i \in lookup_bo(c.ids[c.write.target]) :
                                  Store(i, c.write.page, c.write.data)
    <3>1. PICK w : w = c.write
      OBVIOUS
    <3>2. PICK i \in lookup_bo(c.ids[w.target]) : Store(i, w.page, w.data)
      BY <2>4, <3>1
    <3> QED
      BY <1>4, <2>1, <2>4, <3>1, <3>2, JobMemory
  <2> QED
    BY <2>1, <2>3, <2>4 DEF Execute
<1> QED
  BY <1>2, <1>3, <1>4

\* Every record the replay reads keeps what it knows of the program's buffers.
LEMMA WriteMemory ==
  ASSUME NEW t, Threads = {t}, ReplayInv(t), MemoryInv(t), record_write_data(t)
  PROVE  MemoryInv(t)'
<1>1. status = "running" /\ status' = "running"
  BY ReadStep DEF ReplayInv
<1>2. Consume(Head(out[t]))
  BY DEF record_write_data
<1>3. CASE pending = <<>>
  BY <1>1, <1>2, <1>3, HandleMemory DEF Consume
<1>4. CASE pending # <<>>
  <2>1. \/ Head(pending).act = "BO_LOAD_DATA" /\ load_bo(Head(out[t]))
        \/ Head(pending).act = "JOB_SUBMIT" /\ Len(pending) = 1 /\ read_gathers(Head(out[t]))
        \/ Head(pending).act = "JOB_SUBMIT" /\ Len(pending) = 2 /\ submit_job(Head(out[t]))
    BY <1>1, <1>2, <1>4 DEF Consume
  <2> QED
    BY <1>1, <1>4, <2>1, PayloadMemory
<1> QED
  BY <1>3, <1>4

-----------------------------------------------------------------------------
(* What the program's steps do to what the replay knows *)

\* The handle of the buffer b stays, and so do the pages behind it but for their contents.
StaysOn(t, f, b) ==
    LET o == gem[f][b.handle] IN
    /\ gem'[f][b.handle] = o
    /\ DOMAIN mem'[o] = DOMAIN mem[o]
    /\ \A p : <<o, p>> \in rendered \/ Replayed(t, f, b.handle, p) => <<o, p>> \in rendered'

\* The shadow's entry c is b after a step.
Continues(t, f, b, c) ==
    /\ c.handle = b.handle /\ c.id = b.id /\ c.chksum = b.chksum
    /\ Given(f, c.handle)' => Given(f, b.handle) /\ StaysOn(t, f, b)

\* Records that change no memory
Harmless(s) ==
    \A k \in DOMAIN s : s[k].act \notin {"BO_CREATE", "BO_LOAD_DATA", "JOB_SUBMIT", "relocs"}

\* The pages of an entry, after a step that captures nothing
LEMMA FramePages ==
  ASSUME NEW t, MemoryInv(t), Unread(t) = <<>>, UNCHANGED <<program, bo_list>>, call'[t].op # "submit",
         NEW f \in Files, NEW j \in DOMAIN bos[f], NEW b, b = bos[f][j],
         NEW c, Continues(t, f, b, c), Given(f, c.handle)'
  PROVE  PagesInv(t, f, c)'
<1>1. /\ c.handle = b.handle /\ c.id = b.id /\ c.chksum = b.chksum
      /\ Given(f, b.handle) /\ StaysOn(t, f, b)
  BY DEF Continues
<1>2. PagesInv(t, f, b)
  BY <1>1 DEF MemoryInv
<1>3. PICK o : o = gem[f][b.handle]
  OBVIOUS
<1>4. /\ gem'[f][c.handle] = o /\ DOMAIN mem'[o] = DOMAIN mem[o]
      /\ \A p : <<o, p>> \in rendered \/ Replayed(t, f, b.handle, p) => <<o, p>> \in rendered'
  BY <1>1, <1>3 DEF StaysOn
<1>5. /\ DOMAIN b.chksum = DOMAIN mem[o]
      /\ \A k \in MirrorsOf(b.id) : DOMAIN bo_list[k].map = DOMAIN mem[o]
      /\ program.checksums => \A p \in DOMAIN mem[o] : Recent(t, f, b, p)
  BY <1>2, <1>3 DEF PagesInv
<1>6. MirrorsOf(c.id)' = MirrorsOf(b.id)
  BY <1>1 DEF MirrorsOf
<1>7. ~Capturing(t, f, c)'
  BY DEF Capturing
<1>8. ASSUME program.checksums, NEW p \in DOMAIN mem[o]
      PROVE  Recent(t, f, c, p)'
  <2>1. Recent(t, f, b, p)
    BY <1>5, <1>8
  <2>2. ~Loading(Unread(t), b.id, p)
    <3>1. DOMAIN <<>> = {}
      OBVIOUS
    <3> QED
      BY <3>1 DEF Loading
  <2>3. \/ \A k \in MirrorsOf(b.id) : bo_list[k].map[p] = b.chksum[p]
        \/ <<o, p>> \in rendered \/ Replayed(t, f, b.handle, p)
    BY <1>3, <2>1, <2>2 DEF Recent
  <2>4. \/ \A k \in MirrorsOf(b.id) : bo_list[k].map[p] = b.chksum[p]
        \/ <<o, p>> \in rendered'
    BY ONLY <1>4, <2>3
  <2>5. UNCHANGED <<program, bo_list>>
    OBVIOUS
  <2> QED
    BY ONLY <1>1, <1>4, <1>6, <1>8, <2>4, <2>5 DEF Recent
<1>9. UNCHANGED <<program, bo_list>>
  OBVIOUS
<1>10. \A k \in MirrorsOf(c.id)' : DOMAIN bo_list'[k].map = DOMAIN mem'[o]
  BY <1>4, <1>5, <1>6, <1>9
<1>11. DOMAIN c.chksum = DOMAIN mem'[o]
  BY <1>1, <1>4, <1>5
<1>12. program'.checksums \/ Capturing(t, f, c)' => \A p \in DOMAIN mem'[o] : Recent(t, f, c, p)'
  BY <1>4, <1>7, <1>8, <1>9
<1>13. mem'[gem'[f][c.handle]] = mem'[o]
  BY <1>4
<1> QED
  BY ONLY <1>7, <1>10, <1>11, <1>12, <1>13, Zenon DEF PagesInv

\* A step of the program that captures and creates nothing
LEMMA FrameMemory ==
  ASSUME NEW t, Threads = {t}, ReplayInv(t), ReplayInv(t)', MemoryInv(t), out[t] = <<>>,
         UNCHANGED <<program, repVars>>, call'[t].op # "submit", Harmless(out'[t]),
         \A o \in Objs : mem'[o] \in Seq(Range(mem'[o])) /\ mem'[o] # <<>>,
         \A f \in Files : \A i \in DOMAIN bos'[f] : \A c : c = bos'[f][i] =>
           \E j \in DOMAIN bos[f] : \E b : b = bos[f][j] /\ Continues(t, f, b, c)
  PROVE  MemoryInv(t)'
<1>1. pending = <<>> /\ Unread(t) = <<>> /\ UNCHANGED <<pending, bo_list>>
  <2>1. RecordsInv(t) /\ t \in Threads
    BY DEF ReplayInv
  <2> QED
    BY <2>1, NothingUnread DEF repVars, lists
<1>2. out'[t] \in Seq(Range(out'[t]))
  BY DEF ReplayInv, RecordsInv
<1>3. PICK s : s = out'[t]
  OBVIOUS
<1>4. <<>> \o s = s
  BY <1>2, <1>3
<1>5. Unread(t)' = s
  BY <1>1, <1>3, <1>4 DEF Unread
<1>6. ASSUME NEW k \in DOMAIN s
      PROVE  /\ JobLast(t, s, k)'
             /\ \A f, b : Agrees(t, s, k, f, b)'
  <2>1. s[k].act \notin {"BO_CREATE", "BO_LOAD_DATA", "JOB_SUBMIT", "relocs"}
    BY <1>3 DEF Harmless
  <2>2. JobLast(t, s, k)'
    BY ONLY <2>1 DEF JobLast
  <2>3. ASSUME NEW f, NEW b
        PROVE  Agrees(t, s, k, f, b)'
    BY ONLY <2>1 DEF Agrees
  <2> QED
    BY <2>2, <2>3
<1>7. ContentsInv(t)'
  BY <1>5, <1>6 DEF ContentsInv
<1>8. ASSUME NEW f \in Files, NEW i \in DOMAIN bos'[f], NEW c, c = bos'[f][i]
      PROVE  /\ ShapeInv(c)
             /\ Given(f, c.handle)' => PagesInv(t, f, c)'
  <2>1. PICK j \in DOMAIN bos[f] : \E b : b = bos[f][j] /\ Continues(t, f, b, c)
    BY <1>8
  <2>2. PICK b : b = bos[f][j] /\ Continues(t, f, b, c)
    BY <2>1
  <2>3. /\ c.handle = b.handle /\ c.id = b.id /\ c.chksum = b.chksum
        /\ Given(f, c.handle)' => Given(f, b.handle) /\ StaysOn(t, f, b)
    BY <2>2 DEF Continues
  <2>4. ShapeInv(c)
    BY <2>2, <2>3 DEF MemoryInv, ShapeInv
  <2>5. ASSUME Given(f, c.handle)'
        PROVE  PagesInv(t, f, c)'
    <3>1. UNCHANGED <<program, bo_list>>
      BY <1>1
    <3> QED
      BY <1>1, <2>2, <2>5, <3>1, FramePages
  <2> QED
    BY <2>4, <2>5
<1>9. ASSUME NEW f \in Files, NEW i \in DOMAIN bos'[f]
      PROVE  /\ ShapeInv(bos'[f][i])
             /\ Given(f, bos[f][i].handle)' => PagesInv(t, f, bos[f][i])'
  <2>1. PICK c : c = bos'[f][i]
    OBVIOUS
  <2>2. ShapeInv(c) /\ (Given(f, c.handle)' => PagesInv(t, f, c)')
    BY <1>8, <2>1
  <2>3. Given(f, bos[f][i].handle)' <=> Given(f, c.handle)'
    BY <2>1
  <2>4. PagesInv(t, f, bos[f][i])' <=> PagesInv(t, f, c)'
    BY <2>1
  <2> QED
    BY <2>1, <2>2, <2>3, <2>4
<1> QED
  BY <1>7, <1>9 DEF MemoryInv

\* Nothing changes.
LEMMA SameMemory ==
  ASSUME NEW t, MemoryInv(t),
         UNCHANGED <<program, gem, mem, rendered, bos, call, out, pending, bo_list>>
  PROVE  MemoryInv(t)'
<1>1. Unread(t)' = Unread(t) /\ \A id : MirrorsOf(id)' = MirrorsOf(id)
  BY DEF Unread, MirrorsOf
<1>2. \A f, h : Given(f, h)' <=> Given(f, h)
  BY DEF Given, Calls
<1>3. \A f, b : Capturing(t, f, b)' <=> Capturing(t, f, b)
  BY DEF Capturing
<1>4. \A f, h, p : Replayed(t, f, h, p)' <=> Replayed(t, f, h, p)
  BY DEF Replayed
<1>5. \A id, p : Loading(Unread(t), id, p)' <=> Loading(Unread(t), id, p)
  BY <1>1 DEF Loading
<1>6. \A f, b, p : Recent(t, f, b, p)' <=> Recent(t, f, b, p)
  BY <1>1, <1>4, <1>5 DEF Recent
<1>7. \A f, b : PagesInv(t, f, b)' <=> PagesInv(t, f, b)
  BY <1>1, <1>3, <1>6 DEF PagesInv
<1>8. \A r, k : JobLast(t, r, k)' <=> JobLast(t, r, k)
  BY DEF JobLast
<1>9. \A r, k, f, b : Agrees(t, r, k, f, b)' <=> Agrees(t, r, k, f, b)
  BY DEF Agrees
<1>10. ContentsInv(t)'
  <2>1. ContentsInv(t) /\ Unread(t)' = Unread(t) /\ bos' = bos
    BY <1>1 DEF MemoryInv
  <2> QED
    BY ONLY <1>8, <1>9, <2>1 DEF ContentsInv
<1>11. \A f \in Files : \A i \in DOMAIN bos'[f] :
         /\ ShapeInv(bos'[f][i])
         /\ Given(f, bos[f][i].handle)' => PagesInv(t, f, bos[f][i])'
  <2>1. ASSUME NEW f \in Files, NEW i \in DOMAIN bos'[f]
        PROVE  /\ ShapeInv(bos'[f][i])
               /\ Given(f, bos[f][i].handle)' => PagesInv(t, f, bos[f][i])'
    <3>1. PICK b : b = bos[f][i]
      OBVIOUS
    <3>2. ShapeInv(b) /\ (Given(f, b.handle) => PagesInv(t, f, b)) /\ bos'[f][i] = b
      BY <2>1, <3>1 DEF MemoryInv
    <3>3. (Given(f, bos[f][i].handle)' <=> Given(f, b.handle)')
          /\ (PagesInv(t, f, bos[f][i])' <=> PagesInv(t, f, b)')
      BY <3>2
    <3> QED
      BY ONLY <1>2, <1>7, <3>2, <3>3
  <2> QED
    BY <2>1
<1>12. UNCHANGED <<mem, gem, call>>
  OBVIOUS
<1> QED
  BY ONLY MemoryInv(t), <1>10, <1>11, <1>12 DEF MemoryInv

\* Outside GEM_CREATE the program has every handle the kernel has given out.
LEMMA GivenIs ==
  ASSUME NEW t, Threads = {t}
  PROVE  /\ call[t].op # "create" => \A f, h : Given(f, h) <=> gem[f][h] # None
         /\ \A f, h : Given(f, h)' => gem'[f][h] # None
<1>1. call[t].op # "create" => \A f, h : Calls("create", f, h) = {}
  BY DEF Calls
<1> QED
  BY <1>1 DEF Given

\* The kernel's part of the buffers stays, and the shadow lists what it listed.
LEMMA ShadowMemory ==
  ASSUME NEW t, Threads = {t}, ReplayInv(t), ReplayInv(t)', MemoryInv(t), out[t] = <<>>,
         UNCHANGED <<program, repVars, gem, mem, rendered>>,
         call[t].op \notin {"create", "submit"}, call'[t].op # "submit", Harmless(out'[t]),
         \A f \in Files : \A i \in DOMAIN bos'[f] : \A c : c = bos'[f][i] =>
           \E j \in DOMAIN bos[f] : \E b :
             /\ b = bos[f][j]
             /\ c.handle = b.handle /\ c.id = b.id /\ c.chksum = b.chksum
  PROVE  MemoryInv(t)'
<1>1. \A f, h, p : ~Replayed(t, f, h, p)
  BY DEF Replayed
<1>2. \A f, b : StaysOn(t, f, b)
  BY <1>1 DEF StaysOn
<1>3. \A f, h : Given(f, h)' => Given(f, h)
  BY GivenIs
<1>4. ASSUME NEW f, NEW b, NEW c, c.handle = b.handle, c.id = b.id, c.chksum = b.chksum
      PROVE  Continues(t, f, b, c)
  BY <1>2, <1>3, <1>4 DEF Continues
<1>5. \A f \in Files : \A i \in DOMAIN bos'[f] : \A c : c = bos'[f][i] =>
        \E j \in DOMAIN bos[f] : \E b : b = bos[f][j] /\ Continues(t, f, b, c)
  <2>1. ASSUME NEW f \in Files, NEW i \in DOMAIN bos'[f], NEW c, c = bos'[f][i]
        PROVE  \E j \in DOMAIN bos[f] : \E b : b = bos[f][j] /\ Continues(t, f, b, c)
    <3>1. \E j \in DOMAIN bos[f] : \E b :
            /\ b = bos[f][j]
            /\ c.handle = b.handle /\ c.id = b.id /\ c.chksum = b.chksum
      BY <2>1
    <3> QED
      BY ONLY <1>4, <3>1, Zenon
  <2> QED
    BY ONLY <2>1, Zenon
<1>6. \A o \in Objs : mem'[o] \in Seq(Range(mem'[o])) /\ mem'[o] # <<>>
  BY DEF MemoryInv
<1>7. UNCHANGED <<program, repVars>>
  OBVIOUS
<1> QED
  BY ONLY Threads = {t}, ReplayInv(t), ReplayInv(t)', MemoryInv(t), out[t] = <<>>, call'[t].op # "submit",
          Harmless(out'[t]), <1>5, <1>6, <1>7, FrameMemory

\* ... and the shadow stays.
LEMMA QuietMemory ==
  ASSUME NEW t, Threads = {t}, ReplayInv(t), ReplayInv(t)', MemoryInv(t), out[t] = <<>>,
         UNCHANGED <<program, repVars, gem, mem, rendered, bos>>,
         call[t].op \notin {"create", "submit"}, call'[t].op # "submit", Harmless(out'[t])
  PROVE  MemoryInv(t)'
<1>1. \A f \in Files : \A i \in DOMAIN bos'[f] : \A c : c = bos'[f][i] =>
        \E j \in DOMAIN bos[f] : \E b :
          /\ b = bos[f][j]
          /\ c.handle = b.handle /\ c.id = b.id /\ c.chksum = b.chksum
  OBVIOUS
<1> QED
  BY <1>1, ShadowMemory

\* An abort
LEMMA AbortMemory ==
  ASSUME NEW t, MemoryInv(t), UNCHANGED <<program, repVars>>, NEW why, Abort(why)
  PROVE  MemoryInv(t)'
<1>1. UNCHANGED <<program, gem, mem, rendered, bos, call, out, pending, bo_list>>
  BY DEF Abort, kernel, shadow, repVars, lists
<1> QED
  BY <1>1, SameMemory

\* No record, or one that changes no memory
LEMMA HarmlessIs ==
  /\ Harmless(<<>>)
  /\ \A c : c.act \notin {"BO_CREATE", "BO_LOAD_DATA", "JOB_SUBMIT", "relocs"} => Harmless(<<c>>)
<1>1. DOMAIN <<>> = {}
  OBVIOUS
<1>2. ASSUME NEW c
      PROVE  DOMAIN <<c>> = {1} /\ <<c>>[1] = c
  OBVIOUS
<1> QED
  BY <1>1, <1>2 DEF Harmless

\* The calls that leave the buffers, their pages and their shadow alone
LEMMA OtherSteps ==
  ASSUME NEW t, Threads = {t}, ReplayInv(t), ReplayInv(t)', MemoryInv(t), UNCHANGED <<program, repVars>>,
         NEW f, NEW h, NEW b,
         \/ OpenFile(t, f) \/ CloseFd(t, f) \/ Started(t) \/ Counted(t)
         \/ GemMmap(t, f, h) \/ BadHandle(t, f, h) \/ AddFb(t, f, h, b)
         \/ SetFlags(t, f, h) \/ Display(t, f, b) \/ FbKernel(t)
         \/ OpenChannel(t, f, h) \/ CloseChannel(t, f, h)
         \/ OpenChannelLeave(t) \/ CloseChannelLeave(t)
  PROVE  MemoryInv(t)'
<1>1. DOMAIN call = Threads /\ DOMAIN out = Threads
  BY TablesAre DEF ReplayInv, RecordsInv
<1>2. ASSUME UNCHANGED <<gem, mem, rendered, bos>>, out[t] = <<>>, call[t].op \notin {"create", "submit"},
             call'[t].op # "submit", Harmless(out'[t])
      PROVE  MemoryInv(t)'
  BY <1>2, QuietMemory
<1>3. ASSUME UNCHANGED kernel, bos' = bos, out[t] = <<>>, call[t].op \notin {"create", "submit"},
             NEW c, call' = [call EXCEPT ![t] = c], c.op # "submit", Harmless(out'[t])
      PROVE  MemoryInv(t)'
  <2>1. UNCHANGED <<gem, mem, rendered, bos>> /\ call'[t].op # "submit"
    BY <1>1, <1>3 DEF kernel
  <2> QED
    BY <1>2, <1>3, <2>1
<1>4. ASSUME NEW c, Entered(t, c), UNCHANGED <<gem, mem, rendered>>, c.op # "submit"
      PROVE  MemoryInv(t)'
  <2>1. /\ Idle(t) /\ call' = [call EXCEPT ![t] = c] /\ out' = out /\ bos' = bos
    BY <1>4 DEF Entered, shadow
  <2>2. out[t] = <<>> /\ call[t].op = "none"
    BY <2>1, IdleIs
  <2>3. Harmless(out'[t]) /\ call'[t].op # "submit"
    BY <1>1, <1>4, <2>1, <2>2, HarmlessIs
  <2> QED
    BY <1>2, <1>4, <2>1, <2>2, <2>3
<1>5. ASSUME NEW g, NEW u, NEW s, Return(t, g, u, s)
      PROVE  call'[t].op # "submit"
  <2>1. call' = [call EXCEPT ![t] = NoCall] \/ call' = [call EXCEPT ![t] = Call("return", g, None, None, u)]
    BY <1>5 DEF Return
  <2> QED
    BY <1>1, <2>1, CallFields
<1>6. CASE OpenFile(t, f)
  <2>1. UNCHANGED <<gem, mem, rendered, bos>> /\ Idle(t)
    BY <1>6 DEF OpenFile, kernel
  <2>2. out[t] = <<>> /\ call[t].op = "none"
    BY <2>1, IdleIs
  <2>3. \/ call' = call \/ call' = [call EXCEPT ![t] = Counting(f, ctx_cnt)]
        \/ call' = [call EXCEPT ![t] = Call("start", f, None, None, {})]
    BY <1>6 DEF OpenFile, NewContext, record_start
  <2>4. call'[t].op # "submit"
    BY <1>1, <2>2, <2>3, CallFields
  <2>5. PICK x : x = <<[act |-> "START", code |-> 0],
                      [act |-> "INFO", code |-> 1, drm |-> TRUE, compression |-> program.compression]>>
    OBVIOUS
  <2>6. out' = out \/ out' = [out EXCEPT ![t] = x]
    BY <1>6, <2>5 DEF OpenFile, record_start
  <2>7. Harmless(x)
    <3>1. DOMAIN x = {1, 2} /\ x[1].act = "START" /\ x[2].act = "INFO"
      BY <2>5
    <3> QED
      BY <3>1 DEF Harmless
  <2>8. Harmless(out'[t])
    BY <1>1, <2>2, <2>6, <2>7, HarmlessIs
  <2> QED
    BY <1>2, <2>1, <2>2, <2>4, <2>8
<1>7. CASE Started(t)
  <2>1. /\ UNCHANGED kernel /\ bos' = bos /\ out' = out /\ out[t] = <<>> /\ call[t].op = "start"
        /\ call' = [call EXCEPT ![t] = Counting(call[t].file, ctx_cnt)]
    BY <1>7 DEF Started, NewContext, shadow
  <2>2. Harmless(out'[t])
    BY <2>1, HarmlessIs
  <2>3. PICK c : c = Counting(call[t].file, ctx_cnt)
    OBVIOUS
  <2>4. c.op # "submit" /\ call' = [call EXCEPT ![t] = c]
    BY <2>1, <2>3, CallFields
  <2> QED
    BY <1>3, <2>1, <2>2, <2>4
<1>8. CASE Counted(t)
  <2>1. PICK c, x : /\ c = Call("opening", call[t].file, None, None, {})
                    /\ x = Rec("CTX_CREATE", call[t].count % IdMod, None)
    OBVIOUS
  <2>2. /\ UNCHANGED kernel /\ bos' = bos /\ call[t].op = "counting"
        /\ call' = [call EXCEPT ![t] = c] /\ out' = [out EXCEPT ![t] = <<x>>]
    BY <1>8, <2>1 DEF Counted
  <2>3. out[t] = <<>>
    BY <2>2 DEF ReplayInv, OpenInv
  <2>4. c.op # "submit" /\ x.act = "CTX_CREATE"
    BY <2>1, CallFields DEF Rec
  <2>5. Harmless(out'[t])
    BY <1>1, <2>2, <2>4, HarmlessIs
  <2> QED
    BY <1>3, <2>2, <2>3, <2>4, <2>5
<1>9. CASE GemMmap(t, f, h)
  <2>1. Entered(t, Call("mmap", f, h, gem[f][h], {h})) /\ UNCHANGED <<gem, mem, rendered>>
    BY <1>9 DEF GemMmap, kernel
  <2> QED
    BY <1>4, <2>1, CallFields
<1>10. CASE BadHandle(t, f, h)
  <2>1. PICK op \in {"mmap", "close", "addfb"} : Entered(t, Call(op, f, h, None, {}))
    BY <1>10, Zenon DEF BadHandle
  <2>2. UNCHANGED <<gem, mem, rendered>>
    BY <1>10 DEF BadHandle, kernel
  <2> QED
    BY <1>4, <2>1, <2>2, CallFields
<1>11. CASE AddFb(t, f, h, b)
  <2>1. Entered(t, Call("addfb", f, h, b, {h})) /\ UNCHANGED <<gem, mem, rendered>>
    BY <1>11 DEF AddFb
  <2> QED
    BY <1>4, <2>1, CallFields
<1>12. CASE SetFlags(t, f, h)
  <2>1. \/ Abort("invalid handle")
        \/ /\ Idle(t) /\ Return(t, f, {h}, <<h>>) /\ UNCHANGED <<kernel, shadow>>
           /\ \E x : Write(t, <<Rec("BO_SET_FLAGS", x, rec_ctx[f])>>)
    BY <1>12, Zenon DEF SetFlags
  <2>2. CASE Abort("invalid handle")
    BY <2>2, AbortMemory, Zenon
  <2>3. ASSUME Idle(t), Return(t, f, {h}, <<h>>), UNCHANGED <<kernel, shadow>>,
               NEW x, Write(t, <<Rec("BO_SET_FLAGS", x, rec_ctx[f])>>)
        PROVE  MemoryInv(t)'
    <3>1. PICK c : c = Rec("BO_SET_FLAGS", x, rec_ctx[f])
      OBVIOUS
    <3>2. c.act = "BO_SET_FLAGS"
      BY <3>1 DEF Rec
    <3>3. out' = [out EXCEPT ![t] = <<c>>]
      BY <2>3, <3>1 DEF Write
    <3>4. Harmless(out'[t])
      BY <1>1, <3>2, <3>3, HarmlessIs
    <3>5. UNCHANGED <<gem, mem, rendered, bos>>
      BY <2>3 DEF kernel, shadow
    <3>6. out[t] = <<>> /\ call[t].op = "none"
      BY <2>3, IdleIs
    <3>7. call'[t].op # "submit"
      BY <1>5, <2>3
    <3> QED
      BY <1>2, <3>4, <3>5, <3>6, <3>7
  <2> QED
    BY <2>1, <2>2, <2>3, Zenon
<1>13. CASE Display(t, f, b)
  <2>1. /\ Idle(t) /\ UNCHANGED <<kernel, shadow>>
        /\ call' = [call EXCEPT ![t] = Call("display", f, None, b, {})]
        /\ \/ \E x : Write(t, <<FbRec("DISP_FRAMEBUFFER", x, rec_ctx[f], b)>>)
           \/ Write(t, <<>>)
    BY <1>13, Zenon DEF Display
  <2>2. UNCHANGED kernel /\ bos' = bos
    BY <2>1 DEF shadow
  <2>3. out[t] = <<>> /\ call[t].op = "none"
    BY <2>1, IdleIs
  <2>4. Harmless(out'[t])
    <3>1. CASE Write(t, <<>>)
      <4>1. out' = [out EXCEPT ![t] = <<>>]
        BY <3>1 DEF Write
      <4> QED
        BY <1>1, <4>1, HarmlessIs
    <3>2. ASSUME NEW x, Write(t, <<FbRec("DISP_FRAMEBUFFER", x, rec_ctx[f], b)>>)
          PROVE  Harmless(out'[t])
      <4>1. PICK c : c = FbRec("DISP_FRAMEBUFFER", x, rec_ctx[f], b)
        OBVIOUS
      <4>2. c.act = "DISP_FRAMEBUFFER"
        BY <4>1 DEF FbRec
      <4>3. out' = [out EXCEPT ![t] = <<c>>]
        BY <3>2, <4>1 DEF Write
      <4> QED
        BY <1>1, <4>2, <4>3, HarmlessIs
    <3> QED
      BY <2>1, <3>1, <3>2, Zenon
  <2>5. PICK c : c = Call("display", f, None, b, {})
    OBVIOUS
  <2>6. c.op # "submit" /\ call' = [call EXCEPT ![t] = c]
    BY <2>1, <2>5, CallFields
  <2> QED
    BY <1>3, <2>2, <2>3, <2>4, <2>6
<1>14. CASE FbKernel(t)
  <2>1. /\ UNCHANGED <<gem, mem, rendered, shadow, out>> /\ call' = [call EXCEPT ![t] = NoCall]
        /\ out[t] = <<>> /\ call[t].op \in {"rmfb", "display"}
    BY <1>14, Zenon DEF FbKernel
  <2>2. call'[t].op # "submit" /\ Harmless(out'[t]) /\ bos' = bos
    BY <1>1, <2>1, CallFields, HarmlessIs DEF shadow
  <2>3. UNCHANGED <<gem, mem, rendered, bos>> /\ out[t] = <<>> /\ call[t].op \notin {"create", "submit"}
    BY <2>1, <2>2
  <2> QED
    BY <1>2, <2>2, <2>3
<1>15. CASE OpenChannel(t, f, h)
  <2>1. Entered(t, Call("open_channel", f, h, None, {})) /\ UNCHANGED <<gem, mem, rendered>>
    BY <1>15 DEF OpenChannel, kernel
  <2> QED
    BY <1>4, <2>1, CallFields
<1>16. CASE CloseChannel(t, f, h)
  <2>1. Entered(t, Call("close_channel", f, h, None, {})) /\ UNCHANGED <<gem, mem, rendered>>
    BY <1>16 DEF CloseChannel, kernel
  <2> QED
    BY <1>4, <2>1, CallFields
<1>17. CASE OpenChannelLeave(t) \/ CloseChannelLeave(t)
  <2>1. /\ Hook(t, "open_channel") \/ Hook(t, "close_channel")
        /\ UNCHANGED <<kernel, bos>>
        /\ \E a \in {"JOB_CTX_CREATE", "JOB_CTX_DESTROY"} : \E x : Finish(t, <<Rec(a, x, None)>>)
    <3>1. CASE OpenChannelLeave(t)
      BY <3>1, Zenon DEF OpenChannelLeave
    <3>2. CASE CloseChannelLeave(t)
      BY <3>2, Zenon DEF CloseChannelLeave
    <3> QED
      BY <1>17, <3>1, <3>2, Zenon
  <2>2. PICK a \in {"JOB_CTX_CREATE", "JOB_CTX_DESTROY"} : \E x : Finish(t, <<Rec(a, x, None)>>)
    BY <2>1, Zenon
  <2>3. PICK x : Finish(t, <<Rec(a, x, None)>>)
    BY <2>2
  <2>4. PICK c : c = Rec(a, x, None)
    OBVIOUS
  <2>5. c.act = a
    BY <2>4 DEF Rec
  <2>6. out[t] = <<>> /\ call[t].op \in {"open_channel", "close_channel"} /\ call[t].file \in Files
    BY <2>1, FileOfCall
  <2>7. out' = [out EXCEPT ![t] = <<c>>] /\ call'[t].op # "submit"
    <3>1. Finish(t, <<c>>)
      BY <2>3, <2>4
    <3> QED
      BY <1>1, <2>6, <3>1, FinishIs
  <2>8. Harmless(out'[t])
    BY <1>1, <2>5, <2>7, HarmlessIs
  <2>9. UNCHANGED <<gem, mem, rendered, bos>>
    BY <2>1 DEF kernel
  <2> QED
    BY <1>2, <2>6, <2>7, <2>8, <2>9
<1>18. CASE CloseFd(t, f)
  <2>1. Idle(t) /\ UNCHANGED <<gem, mem, rendered, bos, call, out>>
    BY <1>18, Zenon DEF CloseFd, shadow
  <2>2. out[t] = <<>> /\ call[t].op = "none"
    BY <2>1, IdleIs
  <2>3. Harmless(out'[t]) /\ call'[t].op # "submit"
    BY <2>1, <2>2, HarmlessIs
  <2> QED
    BY <1>2, <2>1, <2>2, <2>3
<1> QED
  BY <1>6, <1>7, <1>8, <1>9, <1>10, <1>11, <1>12, <1>13, <1>14, <1>15, <1>16, <1>17, <1>18

\* What the hooks assign to an entry leaves its handle.
LEMMA KeepsHandle ==
  ASSUME NEW a, a = [x \in BoFields |-> a[x]]
  PROVE  /\ \A o : SetBoData(a, o).handle = a.handle
         /\ NoFramebuffer(a).handle = a.handle
         /\ \A b : [[a EXCEPT !.fb_id = b] EXCEPT !.is_framebuffer = TRUE].handle = a.handle
<1>1. ASSUME NEW o
      PROVE  SetBoData(a, o).handle = a.handle
  BY DEF SetBoData, BoFields
<1>2. NoFramebuffer(a).handle = a.handle
  BY DEF NoFramebuffer, BoFields
<1>3. ASSUME NEW b
      PROVE  [[a EXCEPT !.fb_id = b] EXCEPT !.is_framebuffer = TRUE].handle = a.handle
  BY DEF BoFields
<1> QED
  BY <1>1, <1>2, <1>3

\* One entry is edited, and keeps its identity and its checksums.
LEMMA EditMemory ==
  ASSUME NEW t, Threads = {t}, ReplayInv(t), ReplayInv(t)', MemoryInv(t), out[t] = <<>>,
         UNCHANGED <<program, repVars>>, UNCHANGED <<gem, mem, rendered>>,
         call[t].op \notin {"create", "submit"}, call'[t].op # "submit", Harmless(out'[t]),
         NEW f \in Files, NEW i \in DOMAIN bos[f], NEW a, a = bos[f][i],
         NEW b, b.handle = a.handle, b.id = a.id, b.chksum = a.chksum, bos' = WithEntry(bos, f, i, b)
  PROVE  MemoryInv(t)'
<1>1. IsTable(bos) /\ UniqueIds(bos)
  BY TablesAre
<1>2. b.id = bos[f][i].id
  OBVIOUS
<1>3. /\ bos'[f][i] = b
      /\ \A e \in Files : DOMAIN bos'[e] = DOMAIN bos[e]
      /\ \A e \in Files : \A k \in DOMAIN bos[e] : e # f \/ k # i => bos'[e][k] = bos[e][k]
  BY ONLY <1>1, <1>2, f \in Files, i \in DOMAIN bos[f], bos' = WithEntry(bos, f, i, b), EditedEntries
<1>4. ASSUME NEW e \in Files, NEW k \in DOMAIN bos'[e], NEW c, c = bos'[e][k]
      PROVE  \E j \in DOMAIN bos[e] : \E d :
               /\ d = bos[e][j]
               /\ c.handle = d.handle /\ c.id = d.id /\ c.chksum = d.chksum
  <2>1. k \in DOMAIN bos[e]
    BY <1>3
  <2>2. CASE e = f /\ k = i
    BY <1>3, <1>4, <2>1, <2>2
  <2>3. CASE e # f \/ k # i
    BY <1>3, <1>4, <2>1, <2>3
  <2> QED
    BY <2>2, <2>3
<1> QED
  BY <1>4, ShadowMemory

\* Entries that are edited
LEMMA EditSteps ==
  ASSUME NEW t, Threads = {t}, ReplayInv(t), ReplayInv(t)', MemoryInv(t), UNCHANGED <<program, repVars>>,
         NEW f, NEW b, GemMmapLeave(t) \/ AddFbLeave(t) \/ (f \in Files /\ RmFb(t, f, b))
  PROVE  MemoryInv(t)'
<1>1. /\ DOMAIN call = Threads /\ IsTable(bos) /\ DOMAIN out = Threads
      /\ \A e \in Files : \A k \in DOMAIN bos[e] : bos[e][k] = [x \in BoFields |-> bos[e][k][x]]
  BY TablesAre DEF ReplayInv, RecordsInv
<1>2. ASSUME UNCHANGED <<gem, mem, rendered>>, out[t] = <<>>, call[t].op \notin {"create", "submit"},
             call'[t].op # "submit", Harmless(out'[t]),
             NEW g \in Files, NEW i \in DOMAIN bos[g], NEW a, a = bos[g][i],
             NEW r, r.handle = a.handle, r.id = a.id, r.chksum = a.chksum, bos' = WithEntry(bos, g, i, r)
      PROVE  MemoryInv(t)'
  <2>1. UNCHANGED <<program, repVars>>
    OBVIOUS
  <2> QED
    BY ONLY Threads = {t}, ReplayInv(t), ReplayInv(t)', MemoryInv(t), <1>2, <2>1, EditMemory
<1>3. CASE GemMmapLeave(t)
  <2> DEFINE g == call[t].file
  <2>1. call[t].op = "mmap" /\ g \in Files /\ out[t] = <<>>
    <3>1. Hook(t, "mmap")
      BY <1>3, Zenon DEF GemMmapLeave
    <3> QED
      BY <3>1, FileOfCall
  <2>2. CASE Abort("invalid handle") \/ Abort("mmap failed")
    BY <2>2, AbortMemory, Zenon
  <2>3. ASSUME NEW i \in file_lookup_bo(g, call[t].handle),
               bos' = [bos EXCEPT ![g][i] = SetBoData(@, call[t].obj)], Finish(t, <<>>),
               UNCHANGED <<gem, mem, rendered>>
        PROVE  MemoryInv(t)'
    <3>1. i \in DOMAIN bos[g]
      BY <2>3 DEF file_lookup_bo, IndexOf
    <3>2. PICK a, r : a = bos[g][i] /\ r = SetBoData(a, call[t].obj)
      OBVIOUS
    <3>3. bos' = WithEntry(bos, g, i, r)
      BY <1>1, <2>1, <2>3, <3>1, <3>2 DEF WithEntry, IsTable
    <3>4. r.handle = a.handle /\ r.id = a.id /\ r.chksum = a.chksum
      <4>1. a = [x \in BoFields |-> a[x]]
        BY <1>1, <2>1, <3>1, <3>2
      <4> QED
        BY <3>2, <4>1, KeepsChksum, KeepsHandle
    <3>5. call'[t].op \in {"none", "return"} /\ out' = [out EXCEPT ![t] = <<>>]
      BY <1>1, <2>1, <2>3, FinishIs
    <3>6. call'[t].op # "submit" /\ Harmless(out'[t])
      BY <1>1, <3>5, HarmlessIs
    <3>7. call[t].op \notin {"create", "submit"} /\ a = bos[g][i]
      BY <2>1, <3>2
    <3>8. UNCHANGED <<gem, mem, rendered>>
      BY <2>3
    <3> HIDE DEF g
    <3> QED
      BY ONLY <1>2, <2>1, <3>1, <3>3, <3>4, <3>6, <3>7, <3>8
  <2>4. \/ Abort("invalid handle") \/ Abort("mmap failed")
        \/ \E i \in file_lookup_bo(g, call[t].handle) :
             /\ bos' = [bos EXCEPT ![g][i] = SetBoData(@, call[t].obj)]
             /\ Finish(t, <<>>)
             /\ UNCHANGED <<gem, mem, rendered>>
    BY <1>3, Zenon DEF GemMmapLeave
  <2> QED
    <3> HIDE DEF g
    <3> QED
      BY <2>2, <2>3, <2>4, Zenon
<1>4. CASE AddFbLeave(t)
  <2> DEFINE g == call[t].file
             x == call[t].obj
  <2>1. call[t].op = "addfb" /\ g \in Files /\ out[t] = <<>>
    <3>1. Hook(t, "addfb")
      BY <1>4, Zenon DEF AddFbLeave
    <3> QED
      BY <3>1, FileOfCall
  <2>2. CASE Abort("invalid handle")
    BY <2>2, AbortMemory, Zenon
  <2>3. ASSUME NEW i \in file_lookup_bo(g, call[t].handle), NEW z,
               Finish(t, <<FbRec("ADD_FRAMEBUFFER", z, rec_ctx[g], x)>>),
               bos' = [bos EXCEPT ![g][i].fb_id = x, ![g][i].is_framebuffer = TRUE], UNCHANGED kernel
        PROVE  MemoryInv(t)'
    <3>1. i \in DOMAIN bos[g]
      BY <2>3 DEF file_lookup_bo, IndexOf
    <3>2. PICK a, r : a = bos[g][i] /\ r = [[a EXCEPT !.fb_id = x] EXCEPT !.is_framebuffer = TRUE]
      BY Zenon
    <3>3. bos' = WithEntry(bos, g, i, r)
      BY <1>1, <2>1, <2>3, <3>1, <3>2 DEF WithEntry, IsTable
    <3>4. r.handle = a.handle /\ r.id = a.id /\ r.chksum = a.chksum
      <4>1. a = [y \in BoFields |-> a[y]]
        BY <1>1, <2>1, <3>1, <3>2
      <4> QED
        BY <3>2, <4>1, KeepsChksum, KeepsHandle
    <3>5. PICK c : c = FbRec("ADD_FRAMEBUFFER", z, rec_ctx[g], x)
      OBVIOUS
    <3>6. call'[t].op \in {"none", "return"} /\ out' = [out EXCEPT ![t] = <<c>>]
      <4>1. Finish(t, <<c>>)
        BY <2>3, <3>5
      <4> QED
        BY <1>1, <2>1, <4>1, FinishIs
    <3>7. c.act = "ADD_FRAMEBUFFER"
      BY <3>5 DEF FbRec
    <3>8. call'[t].op # "submit" /\ Harmless(out'[t])
      BY <1>1, <3>6, <3>7, HarmlessIs
    <3>9. call[t].op \notin {"create", "submit"} /\ a = bos[g][i]
      BY <2>1, <3>2
    <3>10. UNCHANGED <<gem, mem, rendered>>
      BY <2>3 DEF kernel
    <3> HIDE DEF g
    <3> QED
      BY ONLY <1>2, <2>1, <3>1, <3>3, <3>4, <3>8, <3>9, <3>10
  <2>5. CASE Finish(t, <<>>) /\ UNCHANGED <<kernel, shadow>>
    <3>1. call'[t].op \in {"none", "return"} /\ out' = [out EXCEPT ![t] = <<>>]
      BY <1>1, <2>1, <2>5, FinishIs
    <3>2. Harmless(out'[t]) /\ call'[t].op # "submit" /\ UNCHANGED <<gem, mem, rendered, bos>>
      BY <1>1, <2>5, <3>1, HarmlessIs DEF kernel, shadow
    <3> QED
      BY <2>1, <3>2, QuietMemory
  <2>4. \/ Abort("invalid handle")
        \/ Finish(t, <<>>) /\ UNCHANGED <<kernel, shadow>>
        \/ \E i \in file_lookup_bo(g, call[t].handle) :
             /\ bos' = [bos EXCEPT ![g][i].fb_id = x, ![g][i].is_framebuffer = TRUE]
             /\ \E z : Finish(t, <<FbRec("ADD_FRAMEBUFFER", z, rec_ctx[g], x)>>)
             /\ UNCHANGED kernel
    BY <1>4, Zenon DEF AddFbLeave
  <2> QED
    <3> HIDE DEF g, x
    <3> QED
      BY <2>2, <2>3, <2>4, <2>5, Zenon
<1>5. CASE f \in Files /\ RmFb(t, f, b)
  <2>1. UNCHANGED kernel /\ call' = [call EXCEPT ![t] = Call("rmfb", f, None, b, {})] /\ Idle(t)
    BY <1>5, Zenon DEF RmFb
  <2>2. UNCHANGED <<gem, mem, rendered>> /\ call'[t].op # "submit" /\ out[t] = <<>>
        /\ call[t].op \notin {"create", "submit"}
    BY <1>1, <2>1, IdleIs, CallFields DEF kernel
  <2>3. \/ Write(t, <<>>) /\ UNCHANGED bos
        \/ \E i \in file_lookup_fb(f, b) :
             /\ bos' = [bos EXCEPT ![f][i] = NoFramebuffer(@)]
             /\ \E z : Write(t, <<FbRec("DEL_FRAMEBUFFER", z, rec_ctx[f], b)>>)
    BY <1>5, Zenon DEF RmFb
  <2>4. CASE Write(t, <<>>) /\ UNCHANGED bos
    <3>1. out' = [out EXCEPT ![t] = <<>>]
      BY <2>4 DEF Write
    <3>2. Harmless(out'[t])
      BY <1>1, <3>1, HarmlessIs
    <3> QED
      BY <2>2, <2>4, <3>2, QuietMemory
  <2>5. ASSUME NEW i \in file_lookup_fb(f, b), bos' = [bos EXCEPT ![f][i] = NoFramebuffer(@)],
               NEW z, Write(t, <<FbRec("DEL_FRAMEBUFFER", z, rec_ctx[f], b)>>)
        PROVE  MemoryInv(t)'
    <3>1. i \in DOMAIN bos[f]
      BY <2>5 DEF file_lookup_fb, IndexOf
    <3>2. PICK a, r : a = bos[f][i] /\ r = NoFramebuffer(a)
      OBVIOUS
    <3>3. bos' = WithEntry(bos, f, i, r)
      BY <1>1, <1>5, <2>5, <3>1, <3>2 DEF WithEntry, IsTable
    <3>4. r.handle = a.handle /\ r.id = a.id /\ r.chksum = a.chksum
      <4>1. a = [y \in BoFields |-> a[y]]
        BY <1>1, <1>5, <3>1, <3>2
      <4> QED
        BY <3>2, <4>1, KeepsChksum, KeepsHandle
    <3>5. PICK c : c = FbRec("DEL_FRAMEBUFFER", z, rec_ctx[f], b)
      OBVIOUS
    <3>6. c.act = "DEL_FRAMEBUFFER"
      BY <3>5 DEF FbRec
    <3>7. out' = [out EXCEPT ![t] = <<c>>]
      BY <2>5, <3>5 DEF Write
    <3>8. Harmless(out'[t])
      BY <1>1, <3>6, <3>7, HarmlessIs
    <3>9. a = bos[f][i] /\ f \in Files
      BY <1>5, <3>2
    <3> QED
      BY ONLY <1>2, <2>2, <3>1, <3>3, <3>4, <3>8, <3>9
  <2> QED
    BY <2>3, <2>4, <2>5, Zenon
<1> QED
  BY <1>3, <1>4, <1>5

\* Buffers that go
LEMMA CloseLeaveMemory ==
  ASSUME NEW t, Threads = {t}, ReplayInv(t), ReplayInv(t)', MemoryInv(t), UNCHANGED <<program, repVars>>,
         GemCloseLeave(t)
  PROVE  MemoryInv(t)'
<1> DEFINE g == call[t].file
<1>1. IsTable(bos) /\ DOMAIN call = Threads /\ DOMAIN out = Threads
  BY TablesAre DEF ReplayInv, RecordsInv
<1>2. call[t].op = "close" /\ g \in Files /\ out[t] = <<>>
  <2>1. Hook(t, "close")
    BY Zenon DEF GemCloseLeave
  <2> QED
    BY <2>1, FileOfCall
<1>3. CASE Abort("invalid handle")
  BY <1>3, AbortMemory, Zenon
<1>4. ASSUME NEW i \in file_lookup_bo(g, call[t].handle), bos' = [bos EXCEPT ![g] = Unlisted(g, i)],
             NEW x, NEW y, Finish(t, <<Rec("BO_DESTROY", x, y)>>), UNCHANGED kernel
      PROVE  MemoryInv(t)'
  <2>1. i \in DOMAIN bos[g]
    BY <1>4 DEF file_lookup_bo, IndexOf
  <2>2. bos' = [bos EXCEPT ![g] = RemoveAt(bos[g], i)]
    BY <1>4 DEF Unlisted
  <2>3. PICK c : c = Rec("BO_DESTROY", x, y)
    OBVIOUS
  <2>4. c.act = "BO_DESTROY"
    BY <2>3 DEF Rec
  <2>5. call'[t].op \in {"none", "return"} /\ out' = [out EXCEPT ![t] = <<c>>]
    <3>1. Finish(t, <<c>>)
      BY <1>4, <2>3
    <3> QED
      BY <1>1, <1>2, <3>1, FinishIs
  <2>6. Harmless(out'[t]) /\ call'[t].op # "submit"
    BY <1>1, <2>4, <2>5, HarmlessIs
  <2> HIDE DEF g
  <2>7. \A e \in Files : \A k \in DOMAIN bos'[e] : \E j \in DOMAIN bos[e] : bos'[e][k] = bos[e][j]
    BY ONLY <1>1, <1>2, <2>1, <2>2, RemovedEntries
  <2>8. \A e \in Files : \A k \in DOMAIN bos'[e] : \A c2 : c2 = bos'[e][k] =>
          \E j \in DOMAIN bos[e] : \E b :
            /\ b = bos[e][j]
            /\ c2.handle = b.handle /\ c2.id = b.id /\ c2.chksum = b.chksum
    BY <2>7
  <2>9. UNCHANGED <<program, repVars, gem, mem, rendered>> /\ call[t].op \notin {"create", "submit"}
    BY <1>2, <1>4 DEF kernel, g
  <2> QED
    BY <1>2, <2>6, <2>8, <2>9, ShadowMemory
<1>5. \/ Abort("invalid handle")
      \/ \E i \in file_lookup_bo(g, call[t].handle) :
           /\ bos' = [bos EXCEPT ![g] = Unlisted(g, i)]
           /\ \E x, y : Finish(t, <<Rec("BO_DESTROY", x, y)>>)
           /\ UNCHANGED kernel
  BY Zenon DEF GemCloseLeave
<1> QED
  <2> HIDE DEF g
  <2> QED
    BY <1>3, <1>4, <1>5, Zenon

\* The kernel's handles
LEMMA HandlesAre ==
  ASSUME ShadowInv
  PROVE  /\ DOMAIN gem = Files /\ \A f \in Files : DOMAIN gem[f] = Handles
         /\ \A f \in Files, h \in Handles : gem[f][h] \in Objs \cup {None}
BY DEF ShadowInv, TablesInv

\* host1x_file_release
LEMMA CloseFileMemory ==
  ASSUME NEW t, Threads = {t}, ShadowInv, ReplayInv(t), ReplayInv(t)', MemoryInv(t),
         UNCHANGED <<program, repVars>>, NEW f \in Files, CloseFile(t, f)
  PROVE  MemoryInv(t)'
<1>1. /\ out[t] = <<>> /\ call[t].op = "none" /\ DOMAIN call = Threads
      /\ IsTable(bos) /\ DOMAIN out = Threads
  <2>1. Idle(t)
    BY Zenon DEF CloseFile
  <2> QED
    BY <2>1, IdleIs, TablesAre DEF ReplayInv, RecordsInv
<1>2. rec_ctx[f] # NullCtx
  BY DEF ReplayInv, ListsInv
<1>3. PICK s : s = Released(f)
  OBVIOUS
<1>4. /\ gem' = [gem EXCEPT ![f] = [h \in Handles |-> None]]
      /\ bos' = [bos EXCEPT ![f] = <<>>]
      /\ out' = [out EXCEPT ![t] = s]
      /\ Return(t, f, {}, out'[t])
      /\ UNCHANGED <<mem, rendered>>
  BY <1>2, <1>3, Zenon DEF CloseFile
<1>5. call'[t].op # "submit"
  BY <1>1, <1>4, Returned
<1>6. Harmless(out'[t])
  <2>1. \A k \in DOMAIN s : s[k].act \in {"BO_DESTROY", "JOB_CTX_DESTROY", "CTX_DESTROY"}
    BY <1>3, ReleasedIs
  <2>2. out'[t] = s
    BY <1>1, <1>4
  <2> QED
    BY <2>1, <2>2 DEF Harmless
<1>7. DOMAIN <<>> = {}
  OBVIOUS
<1>8. \A e \in Files : \A i \in DOMAIN bos'[e] : e # f /\ bos'[e] = bos[e] /\ gem'[e] = gem[e]
  BY <1>1, <1>4, <1>7, HandlesAre DEF IsTable
<1>9. \A e, h, p : ~Replayed(t, e, h, p)
  BY <1>1 DEF Replayed
<1>10. ASSUME NEW e \in Files, NEW i \in DOMAIN bos'[e], NEW b, b = bos'[e][i]
       PROVE  i \in DOMAIN bos[e] /\ b = bos[e][i] /\ Continues(t, e, b, b)
  <2>1. i \in DOMAIN bos[e] /\ b = bos[e][i] /\ gem'[e] = gem[e]
    BY <1>8, <1>10
  <2>2. Given(e, b.handle)' => Given(e, b.handle)
    BY <1>1, <2>1, GivenIs
  <2>3. StaysOn(t, e, b)
    BY <1>4, <1>9, <2>1 DEF StaysOn
  <2> QED
    BY <2>1, <2>2, <2>3 DEF Continues
<1>11. \A e \in Files : \A i \in DOMAIN bos'[e] : \A c : c = bos'[e][i] =>
         \E j \in DOMAIN bos[e] : \E b : b = bos[e][j] /\ Continues(t, e, b, c)
  BY <1>10
<1>12. \A o \in Objs : mem'[o] \in Seq(Range(mem'[o])) /\ mem'[o] # <<>>
  BY <1>4 DEF MemoryInv
<1>13. UNCHANGED <<program, repVars>>
  OBVIOUS
<1> QED
  BY ONLY Threads = {t}, ReplayInv(t), ReplayInv(t)', MemoryInv(t), <1>1, <1>5, <1>6, <1>11, <1>12, <1>13,
          FrameMemory

\* The kernel's part of a call; the shadow stays, and each handle the program still has.
LEMMA KernelMemory ==
  ASSUME NEW t, Threads = {t}, ReplayInv(t), ReplayInv(t)', MemoryInv(t), out[t] = <<>>,
         UNCHANGED <<program, repVars, bos, out>>, call'[t].op # "submit",
         \A o \in Objs : mem'[o] \in Seq(Range(mem'[o])) /\ mem'[o] # <<>>,
         \A f \in Files : \A b : b.handle \in Handles /\ Given(f, b.handle)' =>
           Given(f, b.handle) /\ StaysOn(t, f, b)
  PROVE  MemoryInv(t)'
<1>1. Harmless(out'[t])
  BY HarmlessIs
<1>2. ASSUME NEW f \in Files, NEW i \in DOMAIN bos'[f], NEW b, b = bos'[f][i]
      PROVE  i \in DOMAIN bos[f] /\ b = bos[f][i] /\ Continues(t, f, b, b)
  <2>1. i \in DOMAIN bos[f] /\ b = bos[f][i]
    BY <1>2
  <2>2. b.handle \in Handles
    BY <2>1 DEF MemoryInv, ShapeInv
  <2> QED
    BY <2>1, <2>2 DEF Continues
<1>3. \A e \in Files : \A i \in DOMAIN bos'[e] : \A c : c = bos'[e][i] =>
        \E j \in DOMAIN bos[e] : \E b : b = bos[e][j] /\ Continues(t, e, b, c)
  BY <1>2
<1>4. UNCHANGED <<program, repVars>>
  OBVIOUS
<1> QED
  BY <1>1, <1>3, <1>4, FrameMemory

\* GEM_CLOSE
LEMMA GemCloseMemory ==
  ASSUME NEW t, Threads = {t}, ShadowInv, ReplayInv(t), ReplayInv(t)', MemoryInv(t),
         UNCHANGED <<program, repVars>>, NEW f \in Files, NEW h \in Handles, GemClose(t, f, h)
  PROVE  MemoryInv(t)'
<1>1. /\ Idle(t) /\ gem' = [gem EXCEPT ![f][h] = None] /\ UNCHANGED <<mem, rendered, bos, out>>
      /\ call' = [call EXCEPT ![t] = Call("close", f, h, None, {})]
  BY DEF GemClose, Entered, shadow
<1>2. out[t] = <<>> /\ call[t].op = "none" /\ DOMAIN call = Threads
  BY <1>1, IdleIs
<1>3. call'[t].op # "submit"
  BY <1>1, <1>2, CallFields
<1>4. \A o \in Objs : mem'[o] \in Seq(Range(mem'[o])) /\ mem'[o] # <<>>
  BY <1>1 DEF MemoryInv
<1>5. ASSUME NEW e \in Files, NEW b, b.handle \in Handles, Given(e, b.handle)'
      PROVE  Given(e, b.handle) /\ StaysOn(t, e, b)
  <2>1. gem'[e][b.handle] # None
    BY <1>5, GivenIs
  <2>2. gem'[e][b.handle] = gem[e][b.handle]
    BY <1>1, <1>5, <2>1, HandlesAre
  <2>3. \A p : ~Replayed(t, e, b.handle, p)
    BY <1>2 DEF Replayed
  <2> QED
    BY <1>1, <1>2, <2>1, <2>2, <2>3, GivenIs DEF StaysOn
<1>6. \A e \in Files : \A b : b.handle \in Handles /\ Given(e, b.handle)' =>
        Given(e, b.handle) /\ StaysOn(t, e, b)
  BY <1>5
<1>7. UNCHANGED <<program, repVars, bos, out>>
  BY <1>1
<1> QED
  BY ONLY Threads = {t}, ReplayInv(t), ReplayInv(t)', MemoryInv(t), <1>2, <1>3, <1>4, <1>6, <1>7, KernelMemory

\* A page is written: the buffer stays as long as it was.
LEMMA PageWritten ==
  ASSUME NEW m, m \in Seq(Range(m)), m # <<>>, NEW q, NEW p, NEW v,
         q = m \/ q = [m EXCEPT ![p] = v]
  PROVE  q \in Seq(Range(q)) /\ q # <<>> /\ DOMAIN q = DOMAIN m
<1>1. Len(m) \in Nat /\ DOMAIN m = 1..Len(m) /\ m = [i \in 1..Len(m) |-> m[i]]
  BY ListIs
<1>2. PICK l : l = Len(m)
  OBVIOUS
<1>3. q = [i \in 1..l |-> q[i]]
  BY <1>1, <1>2
<1>4. q \in Seq(Range(q)) /\ DOMAIN q = 1..l /\ Len(q) = l
  BY <1>1, <1>2, <1>3, IsList
<1>5. l # 0
  <2>1. l = 0 => m = <<>>
    BY <1>1, <1>2, EmptyList
  <2> QED
    BY <2>1
<1>6. q # <<>>
  BY <1>4, <1>5
<1> QED
  BY <1>1, <1>2, <1>4, <1>6

\* A page of one buffer is written.
LEMMA PagesWritten ==
  ASSUME DOMAIN mem = Objs, \A o \in Objs : mem[o] \in Seq(Range(mem[o])) /\ mem[o] # <<>>,
         NEW x, NEW p, NEW v, mem' = [mem EXCEPT ![x][p] = v]
  PROVE  \A o \in Objs : mem'[o] \in Seq(Range(mem'[o])) /\ mem'[o] # <<>> /\ DOMAIN mem'[o] = DOMAIN mem[o]
<1>1. ASSUME NEW o \in Objs
      PROVE  mem'[o] \in Seq(Range(mem'[o])) /\ mem'[o] # <<>> /\ DOMAIN mem'[o] = DOMAIN mem[o]
  <2>1. PICK m, q : m = mem[o] /\ q = mem'[o]
    OBVIOUS
  <2>2. q = m \/ q = [m EXCEPT ![p] = v]
    BY <2>1
  <2>3. m \in Seq(Range(m)) /\ m # <<>>
    BY <2>1
  <2>4. q \in Seq(Range(q)) /\ q # <<>> /\ DOMAIN q = DOMAIN m
    BY ONLY <2>2, <2>3, PageWritten
  <2> QED
    BY ONLY <2>1, <2>4
<1> QED
  BY <1>1

\* The program writes to a page.
LEMMA CpuWriteMemory ==
  ASSUME NEW t, Threads = {t}, ShadowInv, ReplayInv(t), ReplayInv(t)', MemoryInv(t), DOMAIN mem = Objs,
         UNCHANGED <<program, repVars>>, NEW f, NEW h, NEW p, NEW v, CpuWrite(t, f, h, p, v)
  PROVE  MemoryInv(t)'
<1>1. /\ Idle(t) /\ mem' = [mem EXCEPT ![gem[f][h]][p] = v] /\ UNCHANGED <<gem, rendered, bos, out, call>>
  BY DEF CpuWrite, shadow
<1>2. out[t] = <<>> /\ call[t].op = "none" /\ DOMAIN call = Threads
  BY <1>1, IdleIs
<1>3. call'[t].op # "submit"
  BY <1>1, <1>2
<1>4. \A o \in Objs : mem'[o] \in Seq(Range(mem'[o])) /\ mem'[o] # <<>> /\ DOMAIN mem'[o] = DOMAIN mem[o]
  <2>1. \A o \in Objs : mem[o] \in Seq(Range(mem[o])) /\ mem[o] # <<>>
    BY DEF MemoryInv
  <2>2. PICK x : x = gem[f][h]
    OBVIOUS
  <2>3. mem' = [mem EXCEPT ![x][p] = v]
    BY <1>1, <2>2
  <2> QED
    BY ONLY DOMAIN mem = Objs, <2>1, <2>3, PagesWritten
<1>5. ASSUME NEW e \in Files, NEW b, b.handle \in Handles, Given(e, b.handle)'
      PROVE  Given(e, b.handle) /\ StaysOn(t, e, b)
  <2>1. gem'[e][b.handle] # None /\ gem'[e][b.handle] = gem[e][b.handle]
    BY <1>1, <1>5, GivenIs
  <2>2. gem[e][b.handle] \in Objs
    BY <1>5, <2>1, HandlesAre
  <2>3. \A q : ~Replayed(t, e, b.handle, q)
    BY <1>2 DEF Replayed
  <2> QED
    BY <1>1, <1>2, <1>4, <2>1, <2>2, <2>3, GivenIs DEF StaysOn
<1>6. \A e \in Files : \A b : b.handle \in Handles /\ Given(e, b.handle)' =>
        Given(e, b.handle) /\ StaysOn(t, e, b)
  BY <1>5
<1>7. UNCHANGED <<program, repVars, bos, out>>
  BY <1>1
<1> QED
  BY ONLY Threads = {t}, ReplayInv(t), ReplayInv(t)', MemoryInv(t), <1>2, <1>3, <1>4, <1>6, <1>7, KernelMemory

\* The program's GPU executes the job that the replay has executed.
LEMMA SubmitKernelMemory ==
  ASSUME NEW t, Threads = {t}, ShadowInv, ReplayInv(t), ReplayInv(t)', MemoryInv(t), DOMAIN mem = Objs,
         UNCHANGED <<program, repVars>>, SubmitKernel(t)
  PROVE  MemoryInv(t)'
<1> DEFINE w == call[t].write
           x == gem[call[t].file][call[t].order[w.target]]
<1>1. /\ call[t].op = "submit" /\ out[t] = <<>> /\ call' = [call EXCEPT ![t] = NoCall]
      /\ UNCHANGED <<gem, bos, out>>
      /\ \/ w = None /\ UNCHANGED <<mem, rendered>>
         \/ /\ w # None
            /\ mem' = [mem EXCEPT ![x][w.page] = w.data]
            /\ rendered' = rendered \cup {<<x, w.page>>}
  BY Zenon DEF SubmitKernel, shadow
<1>2. DOMAIN call = Threads
  BY TablesAre
<1>3. call'[t].op # "submit"
  BY <1>1, <1>2, CallFields
<1>4. \A o \in Objs : mem[o] \in Seq(Range(mem[o])) /\ mem[o] # <<>>
  BY DEF MemoryInv
<1>5. \A o \in Objs : mem'[o] \in Seq(Range(mem'[o])) /\ mem'[o] # <<>> /\ DOMAIN mem'[o] = DOMAIN mem[o]
  <2>1. CASE UNCHANGED mem
    BY <1>4, <2>1
  <2>2. ASSUME NEW y, NEW p, NEW v, mem' = [mem EXCEPT ![y][p] = v]
        PROVE  \A o \in Objs : mem'[o] \in Seq(Range(mem'[o])) /\ mem'[o] # <<>> /\ DOMAIN mem'[o] = DOMAIN mem[o]
    BY ONLY DOMAIN mem = Objs, <1>4, <2>2, PagesWritten
  <2> QED
    BY <1>1, <2>1, <2>2
<1>6. ASSUME NEW e, NEW h, NEW p, Replayed(t, e, h, p)
      PROVE  <<gem[e][h], p>> \in rendered'
  <2>1. call[t].file = e /\ w # None /\ h = call[t].order[w.target] /\ p = w.page
    BY <1>6 DEF Replayed
  <2> QED
    BY <1>1, <2>1
<1>7. rendered \subseteq rendered'
  BY <1>1
<1> HIDE DEF w, x
<1>8. ASSUME NEW e \in Files, NEW b, b.handle \in Handles, Given(e, b.handle)'
      PROVE  Given(e, b.handle) /\ StaysOn(t, e, b)
  <2>1. gem'[e][b.handle] # None /\ gem'[e][b.handle] = gem[e][b.handle]
    BY <1>1, <1>8, GivenIs
  <2>2. gem[e][b.handle] \in Objs
    BY <1>8, <2>1, HandlesAre
  <2>3. Given(e, b.handle)
    BY <1>1, <2>1, GivenIs
  <2> QED
    BY <1>5, <1>6, <1>7, <2>1, <2>2, <2>3 DEF StaysOn
<1>9. \A e \in Files : \A b : b.handle \in Handles /\ Given(e, b.handle)' =>
        Given(e, b.handle) /\ StaysOn(t, e, b)
  BY <1>8
<1>10. UNCHANGED <<program, repVars, bos, out>> /\ out[t] = <<>>
  BY <1>1
<1> QED
  BY ONLY Threads = {t}, ReplayInv(t), ReplayInv(t)', MemoryInv(t), <1>3, <1>5, <1>9, <1>10, KernelMemory

\* GEM_CREATE or GEM_OPEN: the kernel hands out the handle of a cleared object.
LEMMA GemCreateMemory ==
  ASSUME NEW t, Threads = {t}, ShadowInv, ReplayInv(t), ReplayInv(t)', MemoryInv(t), SizesInv(t),
         UNCHANGED <<program, repVars>>, NEW f \in Files, NEW h \in Handles, NEW o \in Objs,
         GemCreate(t, f, h, o)
  PROVE  MemoryInv(t)'
<1>1. /\ Idle(t) /\ gem[f][h] = None /\ gem' = [gem EXCEPT ![f][h] = o] /\ UNCHANGED <<bos, out>>
      /\ call' = [call EXCEPT ![t] = Call("create", f, h, o, {h})]
      /\ \/ /\ ~Referenced(o)
            /\ \E n \in program.sizes : mem' = [mem EXCEPT ![o] = [p \in 1..n |-> Zero]]
            /\ rendered' = {r \in rendered : r[1] # o}
         \/ UNCHANGED <<mem, rendered>>
  BY Zenon DEF GemCreate, Entered, shadow
<1>2. out[t] = <<>> /\ call[t].op = "none" /\ DOMAIN call = Threads
  BY <1>1, IdleIs
<1>3. PICK c : c = Call("create", f, h, o, {h})
  OBVIOUS
<1>4. c.op = "create" /\ c.file = f /\ c.handle = h
  BY <1>3, CallFields
<1>5. call'[t] = c
  BY <1>1, <1>2, <1>3
<1>6. DOMAIN mem = Objs /\ \A x \in Objs : mem[x] \in Seq(Range(mem[x])) /\ mem[x] # <<>>
  BY DEF SizesInv, MemoryInv
<1>7. /\ \A x \in Objs : mem'[x] \in Seq(Range(mem'[x])) /\ mem'[x] # <<>>
      /\ \A x \in Objs : x # o \/ UNCHANGED <<mem, rendered>> =>
           mem'[x] = mem[x] /\ \A p : <<x, p>> \in rendered => <<x, p>> \in rendered'
      /\ UNCHANGED <<mem, rendered>> \/ ~Referenced(o)
  <2>1. CASE UNCHANGED <<mem, rendered>>
    BY <1>6, <2>1
  <2>2. CASE /\ ~Referenced(o)
             /\ \E n \in program.sizes : mem' = [mem EXCEPT ![o] = [p \in 1..n |-> Zero]]
             /\ rendered' = {r \in rendered : r[1] # o}
    <3>1. PICK n \in program.sizes : mem' = [mem EXCEPT ![o] = [p \in 1..n |-> Zero]]
      BY <2>2
    <3>2. n \in Nat \ {0}
      BY <3>1, ProgramsAssumption DEF SizesInv
    <3>3. PICK z : z = [p \in 1..n |-> Zero]
      OBVIOUS
    <3>4. z \in Seq(Range(z)) /\ DOMAIN z = 1..n /\ Len(z) = n
      BY <3>2, <3>3, IsList
    <3>5. z # <<>>
      BY <3>2, <3>4
    <3>6. \A x \in Objs : mem'[x] = IF x = o THEN z ELSE mem[x]
      BY <1>6, <3>1, <3>3
    <3>7. \A x, p : x # o /\ <<x, p>> \in rendered => <<x, p>> \in rendered'
      BY <2>2
    <3>8. \A x \in Objs : mem'[x] \in Seq(Range(mem'[x])) /\ mem'[x] # <<>>
      BY <1>6, <3>4, <3>5, <3>6
    <3>10. ~Referenced(o)
      BY <2>2
    <3>11. ASSUME NEW x \in Objs, x # o \/ UNCHANGED <<mem, rendered>>
           PROVE  mem'[x] = mem[x] /\ \A p : <<x, p>> \in rendered => <<x, p>> \in rendered'
      BY <3>6, <3>7, <3>11
    <3> QED
      BY <3>8, <3>10, <3>11
  <2> QED
    BY <1>1, <2>1, <2>2
<1>8. ASSUME NEW e \in Files, NEW b, b.handle \in Handles, Given(e, b.handle)'
      PROVE  Given(e, b.handle) /\ StaysOn(t, e, b)
  <2>1. e # f \/ b.handle # h
    <3>1. t \in (Calls("create", f, h))'
      BY <1>4, <1>5 DEF Calls
    <3> QED
      BY <1>8, <3>1 DEF Given
  <2>2. gem'[e][b.handle] # None
    BY <1>8, GivenIs
  <2>3. gem'[e][b.handle] = gem[e][b.handle]
    BY <1>1, <1>8, <2>1, HandlesAre
  <2>4. PICK x : x = gem[e][b.handle]
    OBVIOUS
  <2>5. x \in Objs
    BY <1>8, <2>2, <2>3, <2>4, HandlesAre
  <2>6. Given(e, b.handle)
    BY <1>2, <2>2, <2>3, GivenIs
  <2>7. x # o \/ UNCHANGED <<mem, rendered>>
    BY <1>7, <1>8, <2>4 DEF Referenced
  <2>8. mem'[x] = mem[x] /\ \A p : <<x, p>> \in rendered => <<x, p>> \in rendered'
    BY <1>7, <2>5, <2>7
  <2>9. \A p : ~Replayed(t, e, b.handle, p)
    BY <1>2 DEF Replayed
  <2> QED
    BY <2>3, <2>4, <2>6, <2>8, <2>9 DEF StaysOn
<1>9. \A e \in Files : \A b : b.handle \in Handles /\ Given(e, b.handle)' =>
        Given(e, b.handle) /\ StaysOn(t, e, b)
  BY <1>8
<1>10. UNCHANGED <<program, repVars, bos, out>> /\ call'[t].op # "submit"
  BY <1>1, <1>4, <1>5
<1>11. \A x \in Objs : mem'[x] \in Seq(Range(mem'[x])) /\ mem'[x] # <<>>
  BY <1>7
<1> QED
  BY ONLY Threads = {t}, ReplayInv(t), ReplayInv(t)', MemoryInv(t), <1>2, <1>9, <1>10, <1>11, KernelMemory

\* The handle a call creates names no buffer yet.
LEMMA NewHandle ==
  ASSUME NEW t, Threads = {t}, ShadowInv, call[t].op = "create"
  PROVE  /\ call[t].file \in Files /\ call[t].handle \in Handles
         /\ call[t].obj = gem[call[t].file][call[t].handle] /\ call[t].obj \in Objs
         /\ \A i \in DOMAIN bos[call[t].file] : bos[call[t].file][i].handle # call[t].handle
         /\ \A e, h : e # call[t].file \/ h # call[t].handle => Calls("create", e, h) = {}
<1>1. PICK f, h : f = call[t].file /\ h = call[t].handle
  OBVIOUS
<1>2. /\ f \in Files /\ h \in Handles
      /\ call[t].obj = gem[f][h] /\ call[t].obj # None
  BY <1>1 DEF ShadowInv, CallInv
<1>3. call[t].obj \in Objs
  BY <1>2, HandlesAre
<1>4. t \in Calls("create", f, h) /\ Calls("close", f, h) = {}
  BY <1>1 DEF Calls
<1>5. ~Given(f, h)
  BY <1>4 DEF Given
<1>6. Cardinality(ListedAs(f, h)) = Cardinality(Calls("close", f, h)) + 0
  BY <1>2, <1>5 DEF ShadowInv, HandleInv
<1>7. Cardinality(ListedAs(f, h)) = 0
  BY <1>4, <1>6, FS_EmptySet
<1>8. IsFiniteSet(ListedAs(f, h))
  BY <1>2, Tables, FiniteEntries, ListedAsEntries
<1>9. ListedAs(f, h) = {}
  BY <1>7, <1>8, FS_EmptySet
<1>10. \A e, k : e # f \/ k # h => Calls("create", e, k) = {}
  BY <1>1 DEF Calls
<1> QED
  BY <1>1, <1>2, <1>3, <1>9, <1>10 DEF ListedAs

\* An id that no entry has names no buffer of the replay.
LEMMA NoMirror ==
  ASSUME NEW t, Threads = {t}, ReplayInv(t), out[t] = <<>>, NEW id, id \notin LiveIds(bos)
  PROVE  MirrorsOf(id) = {}
<1>1. bo_list \in Seq(Range(bo_list)) /\ Mirror(IdList(bo_list), <<>>, LiveIds(bos), "BO_CREATE", "BO_DESTROY")
  BY AllRead DEF ReplayInv, ListsInv
<1>2. PICK L : L = IdList(bo_list)
  OBVIOUS
<1>3. DOMAIN L = DOMAIN bo_list /\ \A i \in DOMAIN bo_list : L[i] = bo_list[i].id
  BY <1>1, <1>2, IdListIs
<1>4. \A a : IdsIn(<<>>, a) = {}
  <2>1. DOMAIN <<>> = {}
    OBVIOUS
  <2> QED
    BY <2>1 DEF IdsIn, RecordsOf
<1>5. Range(L) \subseteq LiveIds(bos)
  BY <1>1, <1>2, <1>4 DEF Mirror
<1> QED
  BY <1>3, <1>5 DEF MirrorsOf, Range

\* The new buffer is listed, cleared, and its record is about to be written.
LEMMA CreateLeaveMemory ==
  ASSUME NEW t, Threads = {t}, ShadowInv, ReplayInv(t), ReplayInv(t)', MemoryInv(t),
         UNCHANGED <<program, repVars>>, GemCreateLeave(t)
  PROVE  MemoryInv(t)'
<1>1. PICK f, h, o, id : f = call[t].file /\ h = call[t].handle /\ o = call[t].obj /\ id = bos_cnt % IdMod
  OBVIOUS
<1>2. Hook(t, "create")
  BY Zenon DEF GemCreateLeave
<1>3. call[t].op = "create" /\ out[t] = <<>> /\ DOMAIN call = Threads
  BY <1>2, FileOfCall
<1>4. /\ f \in Files /\ h \in Handles /\ o = gem[f][h] /\ o \in Objs
      /\ \A i \in DOMAIN bos[f] : bos[f][i].handle # h
      /\ \A e, k : e # f \/ k # h => Calls("create", e, k) = {}
  BY <1>1, <1>3, NewHandle
<1>5. f \in Recorded /\ id \notin LiveIds(bos)
  BY <1>1, <1>3 DEF ReplayInv, OpenInv
<1>6. rec_ctx[f] # NullCtx
  BY <1>5 DEF Recorded
<1>7. PICK x : x = [handle |-> h, id |-> id, data |-> None,
                captured |-> FALSE, is_framebuffer |-> FALSE, fb_id |-> None,
                chksum |-> [p \in DOMAIN mem[o] |-> Zero]]
  OBVIOUS
<1>8. PICK c : c = BoRec(id, rec_ctx[f], Len(mem[o]))
  OBVIOUS
<1>9. bos' = [bos EXCEPT ![f] = Append(bos[f], x)] /\ Finish(t, <<c>>) /\ UNCHANGED kernel
  BY <1>1, <1>6, <1>7, <1>8, Zenon DEF GemCreateLeave, Listed
<1>10. x.handle = h /\ x.id = id /\ x.chksum = [p \in DOMAIN mem[o] |-> Zero]
  BY <1>7
<1>11. c.act = "BO_CREATE" /\ c.id = id /\ c.num_pages = Len(mem[o])
  BY <1>8 DEF BoRec
<1>12. UNCHANGED <<program, gem, mem, rendered, bo_list, pending>>
  BY <1>9 DEF kernel, repVars, lists
<1>13. call'[t].op # "submit" /\ call'[t].op # "create" /\ out'[t] = <<c>>
  <2>1. DOMAIN out = Threads
    BY DEF ReplayInv, RecordsInv
  <2>2. call[t].file \in Files
    BY <1>1, <1>4
  <2> QED
    BY <1>3, <1>9, <2>1, <2>2, FinishIs
<1>14. pending = <<>> /\ Unread(t) = <<>>
  <2>1. RecordsInv(t) /\ t \in Threads
    BY DEF ReplayInv
  <2> QED
    BY <1>3, <2>1, NothingUnread
<1>15. Unread(t)' = <<c>>
  BY <1>12, <1>13, <1>14 DEF Unread
<1>16. ASSUME NEW e \in Files, NEW k \in DOMAIN bos'[e]
       PROVE  (e = f /\ bos'[e][k] = x) \/ \E j \in DOMAIN bos[e] : bos'[e][k] = bos[e][j]
  <2>1. IsTable(bos)
    BY TablesAre
  <2> QED
    BY <1>4, <1>9, <1>16, <2>1, AddedEntries
<1>17. DOMAIN mem[o] = 1..Len(mem[o]) /\ Len(mem[o]) \in Nat
  <2>1. mem[o] \in Seq(Range(mem[o]))
    BY <1>4 DEF MemoryInv
  <2> QED
    BY <2>1, ListIs
<1>18. \A e \in Files : \A j \in DOMAIN bos[e] : bos[e][j].id # id
  BY <1>5 DEF LiveIds, IdsOf
<1>19. PICK r : r = <<c>>
  OBVIOUS
<1>20. DOMAIN r = {1} /\ r[1] = c
  BY <1>19
<1>21. ContentsInv(t)'
  <2>1. ASSUME NEW k \in DOMAIN r
        PROVE  JobLast(t, r, k)'
    <3>1. r[k].act = "BO_CREATE"
      BY <1>11, <1>20
    <3> QED
      BY ONLY <3>1 DEF JobLast
  <2>2. ASSUME NEW k \in DOMAIN r, NEW e \in Files, NEW i \in DOMAIN bos'[e]
        PROVE  Agrees(t, r, k, e, bos[e][i])'
    <3>1. PICK b : b = bos'[e][i]
      OBVIOUS
    <3>2. b.id = id => b = x
      BY <1>16, <1>18, <2>2, <3>1
    <3>3. r[k].act = "BO_CREATE" /\ r[k].id = id /\ r[k].num_pages = Len(mem[o])
      BY <1>11, <1>20
    <3>4. r[k].id = b.id => b.chksum = [p \in 1..r[k].num_pages |-> Zero]
      BY <1>10, <1>17, <3>2, <3>3
    <3> QED
      BY ONLY <3>1, <3>3, <3>4 DEF Agrees
  <2> QED
    BY <1>15, <1>19, <2>1, <2>2 DEF ContentsInv
<1>22. MirrorsOf(id)' = {}
  <2>1. MirrorsOf(id) = {}
    BY <1>3, <1>5, NoMirror
  <2> QED
    BY <1>12, <2>1 DEF MirrorsOf
<1>23. ASSUME NEW e \in Files, NEW i \in DOMAIN bos'[e], NEW b, b = bos'[e][i]
       PROVE  /\ ShapeInv(b)
              /\ Given(e, b.handle)' => PagesInv(t, e, b)'
  <2>1. CASE e = f /\ b = x
    <3>1. DOMAIN x.chksum = DOMAIN mem[o] /\ mem'[gem'[f][x.handle]] = mem[o]
      BY <1>4, <1>10, <1>12
    <3>2. MirrorsOf(x.id)' = {}
      BY <1>10, <1>22
    <3>3. ~Capturing(t, f, x)'
      BY <1>13 DEF Capturing
    <3>4. \A p : Recent(t, f, x, p)'
      BY ONLY <3>2 DEF Recent
    <3>5. PagesInv(t, f, x)'
      BY ONLY <3>1, <3>2, <3>3, <3>4, Zenon DEF PagesInv
    <3>6. ShapeInv(x)
      <4>1. PICK q, n : q = x.chksum /\ n = Len(mem[o])
        OBVIOUS
      <4>2. n \in Nat /\ q = [p \in 1..n |-> q[p]]
        BY <1>10, <1>17, <4>1
      <4>3. q \in Seq(Range(q))
        BY ONLY <4>2, IsList
      <4> QED
        BY <1>4, <1>10, <4>1, <4>3 DEF ShapeInv
    <3> QED
      BY <2>1, <3>5, <3>6
  <2>2. ASSUME NEW j \in DOMAIN bos[e], b = bos[e][j]
        PROVE  /\ ShapeInv(b)
               /\ Given(e, b.handle)' => PagesInv(t, e, b)'
    <3>1. ShapeInv(b)
      BY <2>2 DEF MemoryInv
    <3>2. ASSUME Given(e, b.handle)'
          PROVE  PagesInv(t, e, b)'
      <4>1. e # f \/ b.handle # h
        BY <1>4, <2>2
      <4>2. gem'[e][b.handle] # None
        BY <3>2, GivenIs
      <4>3. Given(e, b.handle)
        BY <1>4, <1>12, <4>1, <4>2 DEF Given
      <4>4. \A p : ~Replayed(t, e, b.handle, p)
        BY <1>3 DEF Replayed
      <4>5. StaysOn(t, e, b)
        BY <1>12, <4>4 DEF StaysOn
      <4>6. Continues(t, e, b, b)
        BY <4>3, <4>5 DEF Continues
      <4>7. UNCHANGED <<program, bo_list>>
        BY <1>12
      <4> QED
        BY <1>13, <1>14, <2>2, <3>2, <4>6, <4>7, FramePages
    <3> QED
      BY <3>1, <3>2
  <2> QED
    BY <1>16, <1>23, <2>1, <2>2
<1>24. ASSUME NEW e \in Files, NEW i \in DOMAIN bos'[e]
       PROVE  /\ ShapeInv(bos'[e][i])
              /\ Given(e, bos[e][i].handle)' => PagesInv(t, e, bos[e][i])'
  <2>1. PICK b : b = bos'[e][i]
    OBVIOUS
  <2>2. ShapeInv(b) /\ (Given(e, b.handle)' => PagesInv(t, e, b)')
    BY <1>23, <2>1
  <2>3. Given(e, bos[e][i].handle)' <=> Given(e, b.handle)'
    BY <2>1
  <2>4. PagesInv(t, e, bos[e][i])' <=> PagesInv(t, e, b)'
    BY <2>1
  <2> QED
    BY <2>1, <2>2, <2>3, <2>4
<1>25. \A z \in Objs : mem'[z] \in Seq(Range(mem'[z])) /\ mem'[z] # <<>>
  BY <1>12 DEF MemoryInv
<1>26. call'[t].op # "submit"
  BY <1>13
<1> QED
  BY ONLY <1>21, <1>24, <1>25, <1>26 DEF MemoryInv

-----------------------------------------------------------------------------
(* What the hook of SUBMIT captures *)

\* Each header of s is followed by its payload, and the two are in P.
PageSeq(s, P) ==
    /\ s \in Seq(Range(s))
    /\ \A k \in DOMAIN s : s[k].act = "BO_LOAD_DATA" =>
         k + 1 \in DOMAIN s /\ <<s[k].id, s[k].page, s[k + 1].data>> \in P

\* Pages after pages
LEMMA MorePages ==
  ASSUME NEW P, NEW a, PageSeq(a, P), NEW b, PageSeq(b, P)
  PROVE  PageSeq(a \o b, P) /\ Range(a) \subseteq Range(a \o b) /\ Range(b) \subseteq Range(a \o b)
<1> DEFINE r == a \o b
           n == Len(a)
           m == Len(b)
<1>1. a \in Seq(Range(a)) /\ b \in Seq(Range(b))
  BY DEF PageSeq
<1>2. /\ r \in Seq(Range(r)) /\ DOMAIN r = 1..n + m
      /\ n \in Nat /\ m \in Nat /\ DOMAIN a = 1..n /\ DOMAIN b = 1..m
      /\ \A i \in 1..n : r[i] = a[i]
      /\ \A j \in 1..m : r[n + j] = b[j]
  BY <1>1, ConcatList, ListIs
<1> HIDE DEF r, n, m
<1>3. ASSUME NEW k \in DOMAIN r, r[k].act = "BO_LOAD_DATA"
      PROVE  k + 1 \in DOMAIN r /\ <<r[k].id, r[k].page, r[k + 1].data>> \in P
  <2>1. CASE k \in 1..n
    <3>1. r[k] = a[k]
      BY <1>2, <2>1
    <3>2. k + 1 \in 1..n /\ <<a[k].id, a[k].page, a[k + 1].data>> \in P
      BY <1>2, <1>3, <2>1, <3>1 DEF PageSeq
    <3>3. k + 1 \in DOMAIN r /\ r[k + 1] = a[k + 1]
      BY <1>2, <3>2
    <3> QED
      BY <3>1, <3>2, <3>3
  <2>2. CASE ~(k \in 1..n)
    <3>1. PICK j \in 1..m : k = n + j
      <4>1. k - n \in 1..m /\ k = n + (k - n)
        BY <1>2, <2>2
      <4> QED
        BY <4>1
    <3>2. r[k] = b[j]
      BY <1>2, <3>1
    <3>3. j + 1 \in 1..m /\ <<b[j].id, b[j].page, b[j + 1].data>> \in P
      BY <1>2, <1>3, <3>2 DEF PageSeq
    <3>4. k + 1 = n + (j + 1) /\ k + 1 \in 1..n + m
      <4>1. n \in Nat /\ m \in Nat /\ j \in Nat /\ j + 1 \in 1..m
        BY <1>2, <3>1, <3>3
      <4> QED
        BY ONLY <3>1, <4>1
    <3>5. r[k + 1] = b[j + 1]
      BY <1>2, <3>3, <3>4
    <3> QED
      BY <1>2, <3>2, <3>3, <3>4, <3>5
  <2> QED
    BY <2>1, <2>2
<1>4. PageSeq(r, P)
  BY <1>2, <1>3 DEF PageSeq
<1>5. Range(a) \subseteq Range(r)
  <2>1. \A i \in 1..n : i \in 1..n + m
    BY <1>2
  <2> QED
    BY <1>2, <2>1 DEF Range
<1>6. Range(b) \subseteq Range(r)
  <2>1. \A j \in 1..m : n + j \in 1..n + m
    BY <1>2
  <2> QED
    BY <1>2, <2>1 DEF Range
<1> QED
  BY <1>4, <1>5, <1>6 DEF r

\* The pages of every buffer, one after another
LEMMA FlattenPages ==
  ASSUME NEW P, NEW ss, ss \in Seq(Range(ss)), \A i \in DOMAIN ss : PageSeq(ss[i], P)
  PROVE  /\ PageSeq(FlattenSeq(ss), P)
         /\ \A i \in DOMAIN ss : Range(ss[i]) \subseteq Range(FlattenSeq(ss))
<1> DEFINE N == Len(ss)
<1>1. N \in Nat /\ DOMAIN ss = 1..N
  BY ListIs
<1>2. CASE N = 0
  <2>1. FlattenSeq(ss) = ss
    BY <1>2 DEF FlattenSeq
  <2>2. ss = <<>>
    BY <1>1, <1>2, EmptyList
  <2>3. DOMAIN <<>> = {} /\ <<>> \in Seq(Range(<<>>))
    OBVIOUS
  <2> QED
    BY <2>1, <2>2, <2>3 DEF PageSeq
<1>3. CASE N # 0
  <2>1. PICK s : /\ FlattenSeq(ss) = s[N] /\ s[1] = ss[1]
                 /\ \A k \in 1..N - 1 : s[k + 1] = s[k] \o ss[k + 1]
    BY <1>1, <1>3, FlattenIs
  <2> HIDE DEF N
  <2> DEFINE T == {k \in 0..N : k = 0 \/ (PageSeq(s[k], P) /\ \A i \in 1..k : Range(ss[i]) \subseteq Range(s[k]))}
  <2>2. 0 \in T
    BY <1>1
  <2>3. ASSUME NEW k \in 0..N - 1, k \in T
        PROVE  k + 1 \in T
    <3>1. k + 1 \in 0..N /\ k + 1 \in 1..N
      BY <1>1
    <3>2. PageSeq(ss[k + 1], P)
      BY <1>1, <3>1
    <3>3. CASE k = 0
      <4>1. s[k + 1] = ss[1] /\ PageSeq(s[k + 1], P)
        BY <2>1, <3>2, <3>3
      <4>2. \A i \in 1..k + 1 : i = 1
        BY <3>3
      <4> QED
        BY <3>1, <4>1, <4>2
    <3>4. CASE k # 0
      <4>1. s[k + 1] = s[k] \o ss[k + 1] /\ PageSeq(s[k], P) /\ \A i \in 1..k : Range(ss[i]) \subseteq Range(s[k])
        <5>1. k \in 1..N - 1
          BY <1>1, <3>4
        <5> QED
          BY <2>1, <2>3, <3>4, <5>1
      <4>2. /\ PageSeq(s[k + 1], P) /\ Range(s[k]) \subseteq Range(s[k + 1])
            /\ Range(ss[k + 1]) \subseteq Range(s[k + 1])
        BY <3>2, <4>1, MorePages
      <4>3. \A i \in 1..k + 1 : i \in 1..k \/ i = k + 1
        OBVIOUS
      <4>4. \A i \in 1..k + 1 : Range(ss[i]) \subseteq Range(s[k + 1])
        BY <4>1, <4>2, <4>3
      <4> QED
        BY <3>1, <4>2, <4>4
    <3> QED
      BY <3>3, <3>4
  <2>4. N \in T
    <3> HIDE DEF T
    <3>1. \A k \in 0..N : k \in T
      BY <1>1, <2>2, <2>3, FromZero
    <3> QED
      BY <1>1, <3>1
  <2> QED
    BY <1>1, <1>3, <2>1, <2>4
<1> QED
  BY <1>2, <1>3

\* SetToSeq lists every member of a finite set, each once.
LEMMA SetToSeqAll ==
  ASSUME NEW S, IsFiniteSet(S)
  PROVE  LET s == SetToSeq(S) IN
         DOMAIN s = 1..Cardinality(S) /\ \A x \in S : \E i \in DOMAIN s : s[i] = x
<1> DEFINE n == Cardinality(S)
           s == SetToSeq(S)
<1>1. n \in Nat /\ ExistsBijection(1..n, S)
  BY FS_CardinalityType
<1>2. \E g \in [1..n -> S] : IsInjective(g)
  BY <1>1 DEF ExistsBijection, Bijection, Injection
<1>3. s \in [1..n -> S] /\ IsInjective(s)
  BY <1>2 DEF SetToSeq
<1> HIDE DEF s
<1>4. s \in Injection(1..n, S)
  BY <1>3 DEF Injection
<1>5. IsFiniteSet(1..n) /\ Cardinality(1..n) = n
  BY <1>1, FS_Interval
<1>6. s \in Surjection(1..n, S)
  BY <1>4, <1>5, FS_Injection
<1>7. DOMAIN s = 1..n /\ \A x \in S : \E i \in 1..n : s[i] = x
  BY <1>3, <1>6 DEF Surjection
<1> QED
  BY <1>7 DEF s, n

\* record_capture_bo_data: a header and a payload for every page to load
LEMMA PagesLoaded ==
  ASSUME NEW f, NEW b, IsFiniteSet(DOMAIN b.chksum), NEW P,
         \A p \in PagesToLoad(b) : <<b.id, p, mem[b.data][p]>> \in P
  PROVE  /\ PageSeq(Loads(f, b), P)
         /\ \A p \in PagesToLoad(b) : Loading(Loads(f, b), b.id, p)
<1> DEFINE ps == SetToSeq(PagesToLoad(b))
           load(p) == <<LoadRec(b.id, rec_ctx[f], p),
                        [act |-> "page", packed |-> Packed(mem[b.data][p]),
                         data |-> mem[b.data][p], code |-> 0]>>
           ss == [i \in DOMAIN ps |-> load(ps[i])]
<1>1. PagesToLoad(b) \in SUBSET DOMAIN b.chksum
  BY DEF PagesToLoad
<1>2. IsFiniteSet(PagesToLoad(b))
  BY <1>1, FS_Subset
<1>3. /\ Len(ps) \in Nat /\ DOMAIN ps = 1..Len(ps)
      /\ \A i \in DOMAIN ps : ps[i] \in PagesToLoad(b)
      /\ \A p \in PagesToLoad(b) : \E i \in DOMAIN ps : ps[i] = p
  BY <1>2, SetToSeqIs, SetToSeqAll
<1> HIDE DEF ps
<1>4. ASSUME NEW p \in PagesToLoad(b)
      PROVE  /\ PageSeq(load(p), P)
             /\ \E c \in Range(load(p)) : c.act = "BO_LOAD_DATA" /\ c.id = b.id /\ c.page = p
  <2>1. PICK v, x, y : v = mem[b.data][p] /\ x = LoadRec(b.id, rec_ctx[f], p)
                       /\ y = [act |-> "page", packed |-> Packed(v), data |-> v, code |-> 0]
    OBVIOUS
  <2>2. load(p) = <<x, y>>
    BY <2>1
  <2>3. x.act = "BO_LOAD_DATA" /\ x.id = b.id /\ x.page = p
    BY <2>1 DEF LoadRec
  <2>4. y.act = "page" /\ y.data = v
    BY <2>1
  <2>5. /\ <<x, y>> \in Seq(Range(<<x, y>>)) /\ DOMAIN <<x, y>> = {1, 2}
        /\ <<x, y>>[1] = x /\ <<x, y>>[2] = y /\ x \in Range(<<x, y>>)
    <3>1. DOMAIN <<x, y>> = {1, 2} /\ <<x, y>>[1] = x /\ <<x, y>>[2] = y
      OBVIOUS
    <3>2. x \in Range(<<x, y>>) /\ y \in Range(<<x, y>>)
      BY <3>1 DEF Range
    <3> QED
      BY <3>1, <3>2
  <2>6. 1 + 1 = 2
    OBVIOUS
  <2>7. <<b.id, p, v>> \in P
    BY <2>1
  <2>8. PageSeq(<<x, y>>, P)
    BY ONLY <2>3, <2>4, <2>5, <2>6, <2>7 DEF PageSeq
  <2>9. \E c \in Range(<<x, y>>) : c.act = "BO_LOAD_DATA" /\ c.id = b.id /\ c.page = p
    BY ONLY <2>3, <2>5
  <2> HIDE DEF load
  <2> QED
    BY ONLY <2>2, <2>8, <2>9
<1> HIDE DEF load
<1>5. ss \in Seq(Range(ss)) /\ DOMAIN ss = DOMAIN ps /\ \A i \in DOMAIN ps : ss[i] = load(ps[i])
  <2>1. ss = [i \in 1..Len(ps) |-> ss[i]] /\ DOMAIN ss = DOMAIN ps /\ \A i \in DOMAIN ps : ss[i] = load(ps[i])
    BY <1>3
  <2> HIDE DEF ss
  <2> QED
    BY <1>3, <2>1, IsList
<1>6. \A i \in DOMAIN ss : PageSeq(ss[i], P)
  BY <1>3, <1>4, <1>5
<1>7. Loads(f, b) = FlattenSeq(ss)
  BY DEF Loads, ss, ps, load
<1> HIDE DEF ss
<1>8. /\ PageSeq(FlattenSeq(ss), P)
      /\ \A i \in DOMAIN ss : Range(ss[i]) \subseteq Range(FlattenSeq(ss))
  BY <1>5, <1>6, FlattenPages
<1>9. ASSUME NEW p \in PagesToLoad(b)
      PROVE  Loading(FlattenSeq(ss), b.id, p)
  <2>1. PICK i \in DOMAIN ps : ps[i] = p
    BY <1>3
  <2>2. PICK c \in Range(ss[i]) : c.act = "BO_LOAD_DATA" /\ c.id = b.id /\ c.page = p
    BY <1>4, <1>5, <2>1
  <2>3. c \in Range(FlattenSeq(ss))
    BY <1>5, <1>8, <2>1
  <2> QED
    BY <2>2, <2>3 DEF Loading, Range
<1> QED
  BY <1>7, <1>8, <1>9

\* What the hook of SUBMIT loads of the named buffers of a file
LoadedOf(f, named) ==
    UNION {{<<bos[f][i].id, p, mem[bos[f][i].data][p]>> : p \in PagesToLoad(bos[f][i])} :
             i \in {j \in DOMAIN bos[f] : j \in named}}

\* The hook's records load the pages it is to load, with what is in memory.
LEMMA CapturesPages ==
  ASSUME NEW f, bos[f] \in Seq(Range(bos[f])), NEW named,
         \A i \in DOMAIN bos[f] : IsFiniteSet(DOMAIN bos[f][i].chksum)
  PROVE  LET a == FlattenSeq([i \in DOMAIN bos[f] |->
                               IF i \in named THEN Loads(f, bos[f][i]) ELSE <<>>]) IN
         /\ PageSeq(a, LoadedOf(f, named))
         /\ \A i \in DOMAIN bos[f] : i \in named =>
              \A p \in PagesToLoad(bos[f][i]) : Loading(a, bos[f][i].id, p)
<1> DEFINE ss == [i \in DOMAIN bos[f] |-> IF i \in named THEN Loads(f, bos[f][i]) ELSE <<>>]
           P == LoadedOf(f, named)
<1>1. DOMAIN bos[f] = 1..Len(bos[f]) /\ Len(bos[f]) \in Nat
  BY ListIs
<1>2. ss = [i \in 1..Len(bos[f]) |-> ss[i]] /\ DOMAIN ss = DOMAIN bos[f]
  BY <1>1
<1>3. \A i \in DOMAIN bos[f] : ss[i] = IF i \in named THEN Loads(f, bos[f][i]) ELSE <<>>
  OBVIOUS
<1> HIDE DEF ss
<1>4. ASSUME NEW i \in DOMAIN bos[f], i \in named
      PROVE  /\ PageSeq(Loads(f, bos[f][i]), P)
             /\ \A p \in PagesToLoad(bos[f][i]) : Loading(Loads(f, bos[f][i]), bos[f][i].id, p)
  <2>1. \A p \in PagesToLoad(bos[f][i]) : <<bos[f][i].id, p, mem[bos[f][i].data][p]>> \in P
    BY <1>4 DEF LoadedOf
  <2>2. PICK b : b = bos[f][i]
    OBVIOUS
  <2>3. IsFiniteSet(DOMAIN b.chksum) /\ \A p \in PagesToLoad(b) : <<b.id, p, mem[b.data][p]>> \in P
    BY <2>1, <2>2
  <2> HIDE DEF P
  <2>4. PageSeq(Loads(f, b), P) /\ \A p \in PagesToLoad(b) : Loading(Loads(f, b), b.id, p)
    BY ONLY <2>3, PagesLoaded
  <2> QED
    BY <2>2, <2>4
<1> HIDE DEF P
<1>5. ASSUME NEW i \in DOMAIN ss
      PROVE  PageSeq(ss[i], P)
  <2>1. PageSeq(<<>>, P)
    <3>1. DOMAIN <<>> = {} /\ <<>> \in Seq(Range(<<>>))
      OBVIOUS
    <3> QED
      BY <3>1 DEF PageSeq
  <2> QED
    BY <1>2, <1>3, <1>4, <2>1
<1>6. ss \in Seq(Range(ss))
  BY <1>1, <1>2, IsList
<1>7. /\ PageSeq(FlattenSeq(ss), P)
      /\ \A i \in DOMAIN ss : Range(ss[i]) \subseteq Range(FlattenSeq(ss))
  BY <1>5, <1>6, FlattenPages
<1>8. ASSUME NEW i \in DOMAIN bos[f], i \in named, NEW p \in PagesToLoad(bos[f][i])
      PROVE  Loading(FlattenSeq(ss), bos[f][i].id, p)
  <2>1. Loading(ss[i], bos[f][i].id, p)
    BY <1>3, <1>4, <1>8
  <2>2. PICK c \in Range(ss[i]) : c.act = "BO_LOAD_DATA" /\ c.id = bos[f][i].id /\ c.page = p
    BY <2>1 DEF Loading, Range
  <2>3. c \in Range(FlattenSeq(ss))
    BY <1>2, <1>7
  <2> QED
    BY <2>2, <2>3 DEF Loading, Range
<1> QED
  BY <1>7, <1>8 DEF ss, P

\* The pages of a promise are pages of the buffer.
LEMMA PromisedPages ==
  ASSUME NEW n \in Nat, n # 0
  PROVE  Promised(n) \subseteq 1..n
<1>1. n \div 2 + 1 \in 1..n
  OBVIOUS
<1> QED
  BY <1>1 DEF Promised

\* What a capture changes of the shadow of a buffer
LEMMA CapturedPages ==
  ASSUME NEW e, e = [x \in BoFields |-> e[x]], e.chksum \in Seq(Range(e.chksum))
  PROVE  LET r == Captured(e) IN
         /\ r.handle = e.handle /\ r.id = e.id /\ r.data = e.data /\ r.is_framebuffer = e.is_framebuffer
         /\ r.chksum \in Seq(Range(r.chksum)) /\ DOMAIN r.chksum = DOMAIN e.chksum
         /\ \A p \in DOMAIN e.chksum :
              r.chksum[p] = IF p \in PagesToLoad(e) THEN mem[e.data][p] ELSE e.chksum[p]
<1> DEFINE ck == [p \in DOMAIN e.chksum |-> IF p \in PagesToLoad(e) THEN mem[e.data][p] ELSE e.chksum[p]]
           r == [[e EXCEPT !.captured = TRUE] EXCEPT !.chksum = ck]
<1>1. \/ Captured(e) = e /\ PagesToLoad(e) = {}
      \/ Captured(e) = r
  BY DEF Captured, BoFields, PagesToLoad
<1>2. ck \in Seq(Range(ck)) /\ DOMAIN ck = DOMAIN e.chksum
  <2>1. Len(e.chksum) \in Nat /\ DOMAIN e.chksum = 1..Len(e.chksum)
    BY ListIs
  <2>2. ck = [p \in 1..Len(e.chksum) |-> ck[p]] /\ DOMAIN ck = DOMAIN e.chksum
    BY <2>1
  <2> HIDE DEF ck
  <2> QED
    BY <2>1, <2>2, IsList
<1>3. \A p \in DOMAIN e.chksum : ck[p] = IF p \in PagesToLoad(e) THEN mem[e.data][p] ELSE e.chksum[p]
  OBVIOUS
<1> HIDE DEF ck
<1>4. /\ r.handle = e.handle /\ r.id = e.id /\ r.data = e.data /\ r.is_framebuffer = e.is_framebuffer
      /\ r.chksum = ck
  BY DEF BoFields
<1> SUFFICES ASSUME NEW u, u = Captured(e)
             PROVE  /\ u.handle = e.handle /\ u.id = e.id /\ u.data = e.data
                    /\ u.is_framebuffer = e.is_framebuffer
                    /\ u.chksum \in Seq(Range(u.chksum)) /\ DOMAIN u.chksum = DOMAIN e.chksum
                    /\ \A p \in DOMAIN e.chksum :
                         u.chksum[p] = IF p \in PagesToLoad(e) THEN mem[e.data][p] ELSE e.chksum[p]
  OBVIOUS
<1>5. CASE u = e /\ PagesToLoad(e) = {}
  BY <1>5
<1>6. CASE u = r
  <2> HIDE DEF r
  <2> QED
    BY ONLY <1>2, <1>3, <1>4, <1>6
<1> QED
  BY <1>1, <1>5, <1>6

\* A capture of a mapped buffer that is no framebuffer: the promised pages are what
\* they are in memory, and without checksums every page is loaded.
LEMMA CapturedPromise ==
  ASSUME NEW e, e = [x \in BoFields |-> e[x]], e.chksum \in Seq(Range(e.chksum)),
         e.data # None, ~e.is_framebuffer
  PROVE  /\ \A p \in DOMAIN e.chksum : p \in Promised(Len(e.chksum)) => Captured(e).chksum[p] = mem[e.data][p]
         /\ ~program.checksums => PagesToLoad(e) = DOMAIN e.chksum
<1>1. ASSUME NEW p \in DOMAIN e.chksum, p \in Promised(Len(e.chksum))
      PROVE  Captured(e).chksum[p] = mem[e.data][p]
  <2>1. Captured(e).chksum[p] = IF p \in PagesToLoad(e) THEN mem[e.data][p] ELSE e.chksum[p]
    BY CapturedPages
  <2>2. CASE p \notin PagesToLoad(e)
    <3>1. Len(e.chksum) \in Nat /\ FewPages \in Nat
      BY ListIs, BoundsAssumption
    <3>2. Len(e.chksum) > FewPages => p \in Sampled(Len(e.chksum))
      <4>1. Len(e.chksum) > FewPages => ~(Len(e.chksum) <= FewPages)
        BY <3>1
      <4>2. ~(Len(e.chksum) <= FewPages) => p \in {1, Len(e.chksum) \div 2 + 1, Len(e.chksum)}
        BY <1>1, Zenon DEF Promised
      <4> QED
        BY ONLY <4>1, <4>2, Zenon DEF Sampled
    <3>3. ~Changed(e, p)
      BY <2>2, <3>2 DEF PagesToLoad
    <3>4. mem[e.data][p] = e.chksum[p]
      BY <3>3 DEF Changed
    <3> QED
      BY <2>1, <2>2, <3>4
  <2> QED
    BY <2>1, <2>2
<1>2. ASSUME ~program.checksums
      PROVE  PagesToLoad(e) = DOMAIN e.chksum
  <2>1. \A p : Changed(e, p)
    BY <1>2 DEF Changed
  <2>2. 1 \in Sampled(Len(e.chksum))
    BY DEF Sampled
  <2> QED
    BY <2>1, <2>2 DEF PagesToLoad
<1> QED
  BY <1>1, <1>2

\* s is a job after the captures a: the header J, the gather G and, in q, the relocations R.
JobList(s, a, J, G, R, q) ==
    /\ \A k \in DOMAIN a : a[k].act \in {"BO_LOAD_DATA", "page"}
    /\ J.act = "JOB_SUBMIT" /\ G.act = "gathers" /\ R.act = "relocs"
    /\ q = <<>> \/ q = <<R>>
    /\ s = a \o <<J, G>> \o q

\* Where the records of a job are
LEMMA JobAt ==
  ASSUME NEW a, a \in Seq(Range(a)), NEW J, NEW G, NEW R, NEW q, NEW s, JobList(s, a, J, G, R, q)
  PROVE  /\ s \in Seq(Range(s)) /\ DOMAIN s = 1..Len(s)
         /\ Len(a) \in Nat /\ DOMAIN a = 1..Len(a) /\ Len(s) \in {Len(a) + 2, Len(a) + 3}
         /\ \A i \in 1..Len(a) : s[i] = a[i]
         /\ s[Len(a) + 1] = J /\ s[Len(a) + 2] = G
         /\ Len(s) = Len(a) + 3 => s[Len(a) + 3] = R
<1> USE DEF JobList
<1> SUFFICES ASSUME NEW n, n = Len(a)
             PROVE  /\ s \in Seq(Range(s)) /\ DOMAIN s = 1..Len(s)
                    /\ n \in Nat /\ DOMAIN a = 1..n /\ Len(s) \in {n + 2, n + 3}
                    /\ \A i \in 1..n : s[i] = a[i]
                    /\ s[n + 1] = J /\ s[n + 2] = G
                    /\ Len(s) = n + 3 => s[n + 3] = R
  OBVIOUS
<1>1. n \in Nat /\ DOMAIN a = 1..n
  BY ListIs
<1>2. PICK v, u : v = <<J, G>> /\ u = a \o v
  OBVIOUS
<1>3. v \in Seq(Range(v)) /\ Len(v) = 2 /\ v[1] = J /\ v[2] = G
  <2>1. v = [i \in 1..2 |-> v[i]] /\ v[1] = J /\ v[2] = G
    BY <1>2
  <2> QED
    BY <2>1, IsList
<1>4. /\ u \in Seq(Range(u)) /\ Len(u) = n + 2
      /\ \A i \in 1..n : u[i] = a[i]
      /\ \A j \in 1..2 : u[n + j] = v[j]
  <2>1. /\ u \in Seq(Range(u)) /\ Len(u) = Len(a) + Len(v)
        /\ \A i \in 1..Len(a) : u[i] = a[i]
        /\ \A j \in 1..Len(v) : u[Len(a) + j] = v[j]
    <3>1. u = a \o v
      BY <1>2
    <3>2. a \in Seq(Range(a)) /\ v \in Seq(Range(v))
      BY <1>3
    <3> QED
      BY ONLY <3>1, <3>2, ConcatList
  <2> QED
    BY <1>3, <2>1
<1>5. q \in Seq(Range(q)) /\ (Len(q) = 0 \/ (Len(q) = 1 /\ q[1] = R))
  <2>1. CASE q = <<>>
    BY <2>1, NoRecord
  <2>2. CASE q = <<R>>
    BY <2>2, OneRecord
  <2> QED
    BY <2>1, <2>2
<1>6. /\ s \in Seq(Range(s)) /\ DOMAIN s = 1..(n + 2) + Len(q) /\ Len(s) = (n + 2) + Len(q)
      /\ \A i \in 1..n + 2 : s[i] = u[i]
      /\ \A j \in 1..Len(q) : s[(n + 2) + j] = q[j]
  <2>1. s = u \o q
    BY <1>2
  <2>2. /\ s \in Seq(Range(s)) /\ DOMAIN s = 1..Len(u) + Len(q) /\ Len(s) = Len(u) + Len(q)
        /\ \A i \in 1..Len(u) : s[i] = u[i]
        /\ \A j \in 1..Len(q) : s[Len(u) + j] = q[j]
    BY ONLY <1>4, <1>5, <2>1, ConcatList
  <2> QED
    BY <1>4, <2>2
<1>7. \A i \in 1..n : s[i] = a[i]
  <2>1. \A i \in 1..n : i \in 1..n + 2
    BY <1>1
  <2> QED
    BY <1>4, <1>6, <2>1
<1>8. s[n + 1] = J /\ s[n + 2] = G
  <2>1. 1 \in 1..2 /\ 2 \in 1..2 /\ n + 1 \in 1..n + 2 /\ n + 2 \in 1..n + 2
    BY <1>1
  <2> QED
    BY <1>3, <1>4, <1>6, <2>1
<1>9. Len(s) \in {n + 2, n + 3} /\ (Len(s) = n + 3 => s[n + 3] = R)
  <2>1. CASE Len(q) = 0
    BY <1>1, <1>6, <2>1
  <2>2. CASE Len(q) = 1 /\ q[1] = R
    <3>1. 1 \in 1..1 /\ (n + 2) + 1 = n + 3
      BY <1>1
    <3> QED
      BY <1>6, <2>2, <3>1
  <2> QED
    BY <1>5, <2>1, <2>2
<1> QED
  BY <1>1, <1>6, <1>7, <1>8, <1>9

\* The hook of SUBMIT finds the entry of a handle the program has.
LEMMA NamedIs ==
  ASSUME NEW f, NEW h, HandleInv(f, h), Given(f, h), Calls("close", f, h) = {},
         bos[f] \in Seq(Range(bos[f])), NEW i \in DOMAIN bos[f], bos[f][i].handle = h
  PROVE  /\ \A j \in file_lookup_bo(f, h) : j = i
         /\ bos[f][i].data \in {None, gem[f][h]}
<1>1. Cardinality(Calls("close", f, h)) = 0
  BY FS_EmptySet
<1>2. Cardinality(ListedAs(f, h)) = 1
  BY <1>1 DEF HandleInv
<1>3. IsFiniteSet(ListedAs(f, h)) /\ ListedAs(f, h) \subseteq Nat
  <2>1. /\ IsFiniteSet(Entries(bos[f], h)) /\ \A k \in Entries(bos[f], h) : k \in Nat
    BY FiniteEntries
  <2> QED
    BY <2>1 DEF ListedAs, Entries
<1>4. PICK x : ListedAs(f, h) = {x}
  BY <1>2, <1>3, FS_Singleton
<1>5. i \in ListedAs(f, h)
  BY DEF ListedAs
<1>6. \A j \in file_lookup_bo(f, h) : j \in ListedAs(f, h)
  BY FoundListed
<1>7. i \in Newest(f, h)
  <2>1. \A k \in ListedAs(f, h) : k <= i
    BY <1>3, <1>4, <1>5
  <2> QED
    BY <1>5, <2>1 DEF Newest
<1> QED
  BY <1>4, <1>5, <1>6, <1>7 DEF HandleInv

\* The pages of a buffer that the job does not name stay as recent as they were.
LEMMA KeptPages ==
  ASSUME NEW t, NEW e, NEW b, PagesInv(t, e, b), Unread(t) = <<>>, call[t].op = "none",
         UNCHANGED <<program, gem, mem, rendered, bo_list>>, ~Capturing(t, e, b)'
  PROVE  PagesInv(t, e, b)'
<1> DEFINE m == mem[gem[e][b.handle]]
<1>1. /\ DOMAIN b.chksum = DOMAIN m
      /\ \A j \in MirrorsOf(b.id) : DOMAIN bo_list[j].map = DOMAIN m
      /\ program.checksums => \A p \in DOMAIN m : Recent(t, e, b, p)
  BY DEF PagesInv
<1>2. ASSUME NEW p, Recent(t, e, b, p)
      PROVE  Recent(t, e, b, p)'
  <2>1. ~Replayed(t, e, b.handle, p)
    BY DEF Replayed
  <2>2. ~Loading(Unread(t), b.id, p)
    <3>1. DOMAIN <<>> = {}
      OBVIOUS
    <3> QED
      BY <3>1 DEF Loading
  <2>3. \/ \A j \in MirrorsOf(b.id) : bo_list[j].map[p] = b.chksum[p]
        \/ program.checksums /\ <<gem[e][b.handle], p>> \in rendered
    BY <1>2, <2>1, <2>2 DEF Recent
  <2>4. MirrorsOf(b.id)' = MirrorsOf(b.id)
    BY DEF MirrorsOf
  <2> QED
    BY <2>3, <2>4 DEF Recent
<1>3. MirrorsOf(b.id)' = MirrorsOf(b.id) /\ m' = m /\ program' = program
  BY DEF MirrorsOf
<1> QED
  BY <1>1, <1>2, <1>3 DEF PagesInv

\* The pages of a buffer that the job names: what differs is loaded.
LEMMA NamedPages ==
  ASSUME NEW t, NEW e, NEW b, PagesInv(t, e, b), Unread(t) = <<>>, call[t].op = "none",
         UNCHANGED <<program, gem, mem, rendered, bo_list>>,
         b = [x \in BoFields |-> b[x]], ShapeInv(b), b.data \in {None, gem[e][b.handle]},
         NEW m, m = mem[gem[e][b.handle]], m \in Seq(Range(m)), m # <<>>,
         NEW c, c = Captured(b), NEW s, Unread(t)' = s,
         \A p \in PagesToLoad(b) : Loading(s, b.id, p)
  PROVE  PagesInv(t, e, c)'
<1>1. /\ c.handle = b.handle /\ c.id = b.id /\ c.data = b.data /\ c.is_framebuffer = b.is_framebuffer
      /\ DOMAIN c.chksum = DOMAIN b.chksum
      /\ \A p \in DOMAIN b.chksum :
           c.chksum[p] = IF p \in PagesToLoad(b) THEN mem[b.data][p] ELSE b.chksum[p]
  BY CapturedPages DEF ShapeInv
<1>2. /\ DOMAIN b.chksum = DOMAIN m
      /\ \A j \in MirrorsOf(b.id) : DOMAIN bo_list[j].map = DOMAIN m
      /\ program.checksums => \A p \in DOMAIN m : Recent(t, e, b, p)
  BY DEF PagesInv
<1>3. Capturing(t, e, c)' => b.data # None /\ ~b.is_framebuffer
  BY <1>1 DEF Capturing
<1>4. ASSUME b.data # None, ~b.is_framebuffer
      PROVE  /\ \A p \in Promised(Len(m)) : c.chksum[p] = m[p]
             /\ ~program.checksums => PagesToLoad(b) = DOMAIN m
  <2>1. m = mem[b.data]
    BY <1>4
  <2>2. /\ \A p \in DOMAIN b.chksum : p \in Promised(Len(b.chksum)) => c.chksum[p] = mem[b.data][p]
        /\ ~program.checksums => PagesToLoad(b) = DOMAIN b.chksum
    BY <1>4, CapturedPromise DEF ShapeInv
  <2>3. /\ Len(m) \in Nat /\ DOMAIN m = 1..Len(m) /\ Len(b.chksum) \in Nat
        /\ DOMAIN b.chksum = 1..Len(b.chksum)
    BY ListIs DEF ShapeInv
  <2>4. Len(m) = Len(b.chksum)
    BY <1>2, <2>3
  <2>5. Len(m) # 0
    BY <2>3, EmptyList
  <2>6. Promised(Len(m)) \subseteq DOMAIN m
    BY <2>3, <2>5, PromisedPages
  <2> QED
    BY <1>2, <2>1, <2>2, <2>4, <2>6
<1>5. ASSUME NEW p \in DOMAIN m, p \in PagesToLoad(b) \/ program.checksums
      PROVE  Recent(t, e, c, p)'
  <2>1. CASE p \in PagesToLoad(b)
    <3>1. Loading(s, c.id, p)
      BY <1>1, <2>1
    <3>2. Loading(Unread(t), c.id, p)'
      BY <3>1
    <3> QED
      BY <3>2 DEF Recent
  <2>2. CASE p \notin PagesToLoad(b) /\ program.checksums
    <3>1. Recent(t, e, b, p)
      BY <1>2, <2>2
    <3>2. ~Replayed(t, e, b.handle, p)
      BY DEF Replayed
    <3>3. ~Loading(Unread(t), b.id, p)
      <4>1. DOMAIN <<>> = {}
        OBVIOUS
      <4> QED
        BY <4>1 DEF Loading
    <3>4. \/ \A j \in MirrorsOf(b.id) : bo_list[j].map[p] = b.chksum[p]
          \/ <<gem[e][b.handle], p>> \in rendered
      BY <3>1, <3>2, <3>3 DEF Recent
    <3>5. c.chksum[p] = b.chksum[p]
      BY <1>1, <1>2, <2>2
    <3>6. MirrorsOf(c.id)' = MirrorsOf(b.id)
      BY <1>1 DEF MirrorsOf
    <3> QED
      BY <1>1, <2>2, <3>4, <3>5, <3>6 DEF Recent
  <2> QED
    BY <1>5, <2>1, <2>2
<1>6. MirrorsOf(c.id)' = MirrorsOf(b.id) /\ mem'[gem'[e][c.handle]] = m /\ program' = program
      /\ bo_list' = bo_list
  BY <1>1 DEF MirrorsOf
<1>7. ASSUME program'.checksums \/ Capturing(t, e, c)', NEW p \in DOMAIN m
      PROVE  Recent(t, e, c, p)'
  BY <1>3, <1>4, <1>5, <1>6, <1>7
<1>8. Capturing(t, e, c)' => \A p \in Promised(Len(m)) : c.chksum[p] = m[p]
  BY <1>3, <1>4
<1>9. DOMAIN c.chksum = DOMAIN m /\ \A j \in MirrorsOf(c.id)' : DOMAIN bo_list'[j].map = DOMAIN m
  BY <1>1, <1>2, <1>6
<1> QED
  BY <1>6, <1>7, <1>8, <1>9 DEF PagesInv

\* The records of a job agree with the shadow.
LEMMA JobContents ==
  ASSUME NEW t, NEW f \in Files, UniqueIds(bos), NEW P,
         NEW a, PageSeq(a, P), NEW J, NEW G, NEW R, NEW q, NEW s, JobList(s, a, J, G, R, q),
         Unread(t)' = s,
         call'[t].op = "submit", call'[t].file = f, R.write = call'[t].write,
         R.write # None =>
           \E j \in DOMAIN bos[f] : /\ R.ids[R.write.target] = bos[f][j].id
                                    /\ bos[f][j].handle = call'[t].order[R.write.target],
         \A e \in Files : /\ DOMAIN bos'[e] = DOMAIN bos[e]
                          /\ \A i \in DOMAIN bos[e] : /\ bos'[e][i].id = bos[e][i].id
                                                      /\ bos'[e][i].handle = bos[e][i].handle,
         \A x \in P : \E i \in DOMAIN bos[f] : /\ x[1] = bos[f][i].id /\ x[2] \in DOMAIN bos'[f][i].chksum
                                               /\ x[3] = bos'[f][i].chksum[x[2]]
  PROVE  ContentsInv(t)'
<1> USE DEF JobList
<1> DEFINE n == Len(a)
<1>1. /\ DOMAIN s = 1..Len(s)
      /\ n \in Nat /\ DOMAIN a = 1..n /\ Len(s) \in {n + 2, n + 3}
      /\ \A i \in 1..n : s[i] = a[i]
      /\ s[n + 1] = J /\ s[n + 2] = G
      /\ Len(s) = n + 3 => s[n + 3] = R
  <2>1. a \in Seq(Range(a))
    BY DEF PageSeq
  <2> HIDE DEF JobList
  <2> QED
    BY ONLY JobList(s, a, J, G, R, q), <2>1, JobAt
<1> HIDE DEF n
<1>2. ASSUME NEW k \in DOMAIN s
      PROVE  k \in 1..n \/ k = n + 1 \/ k = n + 2 \/ (k = n + 3 /\ Len(s) = n + 3)
  BY <1>1
<1>3. \A k \in 1..n : s[k].act \in {"BO_LOAD_DATA", "page"}
  BY <1>1
<1>4. \A k \in DOMAIN s : s[k].act = "BO_LOAD_DATA" => k \in 1..n
  BY <1>1, <1>2
<1>5. \A k \in DOMAIN s : s[k].act \in {"JOB_SUBMIT", "relocs"} => ~(k \in 1..n)
  BY <1>3
<1>6. \A k \in DOMAIN s : s[k].act = "relocs" => k = n + 3 /\ k = Len(s) /\ s[k] = R
  BY <1>1, <1>2, <1>5
<1>7. ASSUME NEW k \in DOMAIN s
      PROVE  JobLast(t, s, k)'
  <2>1. ASSUME s[k].act \in {"JOB_SUBMIT", "relocs"}, NEW l \in DOMAIN s, l > k
        PROVE  s[l].act # "BO_LOAD_DATA"
    <3>1. ~(k \in 1..n) /\ k \in Nat /\ k # 0
      BY <1>1, <1>5, <2>1
    <3>2. ~(l \in 1..n)
      BY <1>1, <2>1, <3>1
    <3> QED
      BY <1>4, <3>2
  <2>2. s[k].act = "relocs" => k = Len(s) /\ s[k].write = call'[t].write
    BY <1>6
  <2> QED
    BY <2>1, <2>2 DEF JobLast
<1>8. ASSUME NEW k \in DOMAIN s, NEW e \in Files, NEW i \in DOMAIN bos'[e], NEW c, c = bos'[e][i]
      PROVE  Agrees(t, s, k, e, c)'
  <2>1. i \in DOMAIN bos[e] /\ c.id = bos[e][i].id /\ c.handle = bos[e][i].handle
    BY <1>8
  <2>2. s[k].act # "BO_CREATE"
    BY <1>1, <1>2, <1>3
  <2>3. ASSUME s[k].act = "BO_LOAD_DATA", s[k].id = c.id
        PROVE  s[k].page \in DOMAIN c.chksum /\ s[k + 1].data = c.chksum[s[k].page]
    <3>1. k \in 1..n /\ s[k] = a[k]
      BY <1>1, <1>4, <2>3
    <3>2. k + 1 \in 1..n /\ <<a[k].id, a[k].page, a[k + 1].data>> \in P
      BY <1>1, <2>3, <3>1 DEF PageSeq
    <3>3. PICK x \in P : x[1] = s[k].id /\ x[2] = s[k].page /\ x[3] = s[k + 1].data
      BY <1>1, <3>1, <3>2
    <3>4. PICK j \in DOMAIN bos[f] : /\ x[1] = bos[f][j].id /\ x[2] \in DOMAIN bos'[f][j].chksum
                                     /\ x[3] = bos'[f][j].chksum[x[2]]
      BY <3>3
    <3>5. bos[e][i].id = bos[f][j].id
      BY <2>1, <2>3, <3>3, <3>4
    <3>6. e = f /\ i = j
      BY <2>1, <3>5 DEF UniqueIds
    <3> QED
      BY <1>8, <3>3, <3>4, <3>6
  <2>4. ASSUME s[k].act = "relocs", s[k].write # None, s[k].ids[s[k].write.target] = c.id
        PROVE  e = f /\ c.handle = call'[t].order[s[k].write.target]
    <3>1. s[k] = R
      BY <1>6, <2>4
    <3>2. PICK j \in DOMAIN bos[f] : /\ R.ids[R.write.target] = bos[f][j].id
                                     /\ bos[f][j].handle = call'[t].order[R.write.target]
      BY <2>4, <3>1
    <3>3. bos[e][i].id = bos[f][j].id
      BY <2>1, <2>4, <3>1, <3>2
    <3>4. e = f /\ i = j
      BY <2>1, <3>3 DEF UniqueIds
    <3> QED
      BY <2>1, <3>1, <3>2, <3>4
  <2> QED
    BY <2>2, <2>3, <2>4 DEF Agrees
<1>9. ASSUME NEW k \in DOMAIN s, NEW e \in Files, NEW i \in DOMAIN bos'[e]
      PROVE  Agrees(t, s, k, e, bos[e][i])'
  <2>1. PICK c : c = bos'[e][i]
    OBVIOUS
  <2>2. Agrees(t, s, k, e, c)'
    BY <1>8, <2>1
  <2> QED
    BY <2>1, <2>2 DEF Agrees
<1>10. Unread(t)' = s
  OBVIOUS
<1> QED
  BY <1>7, <1>9, <1>10 DEF ContentsInv

\* The entry that the hook of SUBMIT takes for a handle
LEMMA TakenIs ==
  ASSUME NEW f, NEW h, file_lookup_bo(f, h) # {}
  PROVE  LET i == CHOOSE j \in DOMAIN bos[f] : j \in file_lookup_bo(f, h) IN
         i \in DOMAIN bos[f] /\ i \in file_lookup_bo(f, h) /\ bos[f][i].handle = h
<1>1. \A j \in file_lookup_bo(f, h) : j \in DOMAIN bos[f] /\ bos[f][j].handle = h
  BY DEF file_lookup_bo, IndexOf
<1>2. \E j \in DOMAIN bos[f] : j \in file_lookup_bo(f, h)
  BY <1>1
<1> QED
  BY <1>1, <1>2

\* A job of f that uses the handles captures their entries, which are named, in s.
CapturedIn(f, named, uses, s) ==
    /\ \A h \in uses : \E j \in named : j \in file_lookup_bo(f, h)
    /\ \A i \in DOMAIN bos[f] : i \in named =>
         \A p \in PagesToLoad(bos[f][i]) : Loading(s, bos[f][i].id, p)
    /\ \A e \in Files :
         /\ DOMAIN bos'[e] = DOMAIN bos[e]
         /\ \A i \in DOMAIN bos[e] :
              bos'[e][i] = IF e = f /\ i \in named THEN Captured(bos[e][i]) ELSE bos[e][i]

\* The entries after the hook of SUBMIT
LEMMA JobEntries ==
  ASSUME NEW t, Threads = {t}, ShadowInv, MemoryInv(t), Unread(t) = <<>>, call[t].op = "none",
         UNCHANGED <<program, gem, mem, rendered, bo_list>>,
         NEW f \in Files, NEW named, NEW uses, NEW s, Unread(t)' = s,
         call'[t].op = "submit", call'[t].file = f, call'[t].uses = uses,
         CapturedIn(f, named, uses, s)
  PROVE  \A e \in Files : \A i \in DOMAIN bos'[e] :
           /\ ShapeInv(bos'[e][i])
           /\ Given(e, bos[e][i].handle)' => PagesInv(t, e, bos[e][i])'
<1> USE DEF CapturedIn
<1>1. /\ \A e \in Files : bos[e] \in Seq(Range(bos[e]))
      /\ \A e \in Files : \A i \in DOMAIN bos[e] : bos[e][i] = [x \in BoFields |-> bos[e][i][x]]
      /\ \A e \in Files, h \in Handles : HandleInv(e, h)
  BY DEF ShadowInv, TablesInv
<1>2. \A o \in Objs : mem[o] \in Seq(Range(mem[o])) /\ mem[o] # <<>>
  BY DEF MemoryInv
<1>3. ASSUME NEW e \in Files, NEW i \in DOMAIN bos'[e], NEW b, b = bos[e][i], NEW c, c = bos'[e][i]
      PROVE  ShapeInv(c) /\ (Given(e, c.handle)' => PagesInv(t, e, c)')
  <2>1. i \in DOMAIN bos[e] /\ b = [x \in BoFields |-> b[x]]
    <3>1. i \in DOMAIN bos[e]
      BY <1>3
    <3>2. bos[e][i] = [x \in BoFields |-> bos[e][i][x]]
      BY <1>1, <3>1, Zenon
    <3> QED
      BY ONLY <1>3, <3>1, <3>2
  <2>2. ShapeInv(b) /\ (Given(e, b.handle) => PagesInv(t, e, b))
    BY <1>3, <2>1 DEF MemoryInv
  <2>3. c = b \/ c = Captured(b)
    BY <1>3, <2>1
  <2>4. ASSUME c = Captured(b)
        PROVE  ShapeInv(c) /\ c.handle = b.handle
    BY <2>1, <2>2, <2>4, CapturedPages DEF ShapeInv
  <2>5. ShapeInv(c) /\ c.handle = b.handle
    BY <2>2, <2>3, <2>4
  <2>6. ASSUME Given(e, c.handle)'
        PROVE  PagesInv(t, e, c)'
    <3> DEFINE h == b.handle
    <3>1. gem'[e][h] # None /\ h \in Handles
      BY <2>2, <2>5, <2>6, GivenIs DEF ShapeInv
    <3>2. Given(e, h)
      BY <3>1, GivenIs
    <3>3. PagesInv(t, e, b)
      BY <2>2, <3>2
    <3>4. Calls("close", e, h) = {}
      BY DEF Calls
    <3>5. HandleInv(e, h)
      BY <1>1, <3>1
    <3>6. /\ \A j \in file_lookup_bo(e, h) : j = i
          /\ b.data \in {None, gem[e][h]}
      <4>1. bos[e] \in Seq(Range(bos[e])) /\ bos[e][i].handle = h
        BY <1>1, <1>3
      <4> HIDE DEF h
      <4>2. /\ \A j \in file_lookup_bo(e, h) : j = i
            /\ bos[e][i].data \in {None, gem[e][h]}
        BY ONLY <2>1, <3>2, <3>4, <3>5, <4>1, NamedIs
      <4> QED
        BY <1>3, <4>2
    <3>7. CASE e = f /\ i \in named
      <4>1. c = Captured(b) /\ \A p \in PagesToLoad(b) : Loading(s, b.id, p)
        BY <1>3, <2>1, <3>7
      <4>2. gem[e][h] \in Objs
        BY <3>1, HandlesAre
      <4>3. PICK m : m = mem[gem[e][h]]
        OBVIOUS
      <4>4. m \in Seq(Range(m)) /\ m # <<>>
        BY <1>2, <4>2, <4>3
      <4>5. Unread(t)' = s
        OBVIOUS
      <4>6. UNCHANGED <<program, gem, mem, rendered, bo_list>>
        OBVIOUS
      <4> QED
        BY ONLY Unread(t) = <<>>, call[t].op = "none", <2>1, <2>2, <3>3, <3>6, <4>1, <4>3, <4>4, <4>5, <4>6,
                NamedPages
    <3>8. CASE ~(e = f /\ i \in named)
      <4>1. c = b
        BY <1>3, <2>1, <3>8
      <4>2. ~Capturing(t, e, b)'
        <5>1. SUFFICES ASSUME e = f, h \in uses
                       PROVE  FALSE
          BY DEF Capturing
        <5>2. PICK j \in named : j \in file_lookup_bo(f, h)
          BY <5>1
        <5>3. j = i
          BY <3>6, <5>1, <5>2
        <5> QED
          BY <3>8, <5>1, <5>2, <5>3
      <4>3. UNCHANGED <<program, gem, mem, rendered, bo_list>>
        OBVIOUS
      <4>4. PagesInv(t, e, b)'
        BY ONLY Unread(t) = <<>>, call[t].op = "none", <3>3, <4>2, <4>3, KeptPages
      <4> QED
        BY <4>1, <4>4
    <3> QED
      BY <3>7, <3>8
  <2> QED
    BY <2>5, <2>6
<1>4. ASSUME NEW e \in Files, NEW i \in DOMAIN bos'[e]
      PROVE  /\ ShapeInv(bos'[e][i])
             /\ Given(e, bos[e][i].handle)' => PagesInv(t, e, bos[e][i])'
  <2>1. PICK b, c : b = bos[e][i] /\ c = bos'[e][i]
    OBVIOUS
  <2>2. ShapeInv(c) /\ (Given(e, c.handle)' => PagesInv(t, e, c)')
    BY <1>3, <2>1
  <2>3. Given(e, bos[e][i].handle)' <=> Given(e, c.handle)'
    BY <2>1
  <2>4. PagesInv(t, e, bos[e][i])' <=> PagesInv(t, e, c)'
    BY <2>1
  <2> QED
    BY <2>1, <2>2, <2>3, <2>4
<1> QED
  BY <1>4

\* The hook of SUBMIT
LEMMA SubmitMemory ==
  ASSUME NEW t, Threads = {t}, ShadowInv, "bad" \notin program.ops,
         ReplayInv(t), SizesInv(t), MemoryInv(t), UNCHANGED <<program, repVars>>,
         NEW f \in Files, NEW c, NEW g, NEW T, NEW w \in Jobs(T), Submit(t, f, c, g, T, w)
  PROVE  MemoryInv(t)'
<1>1. out[t] = <<>> /\ call[t].op = "none" /\ DOMAIN call = Threads
  <2>1. Idle(t)
    BY Zenon DEF Submit
  <2> QED
    BY <2>1, IdleIs
<1> DEFINE hs == SetToSeq(T)
           At(h) == CHOOSE i \in DOMAIN bos[f] : i \in file_lookup_bo(f, h)
           named == {At(h) : h \in T \cup {g}}
           ids == [i \in DOMAIN hs |-> bos[f][At(hs[i])].id]
           a == FlattenSeq([i \in DOMAIN bos[f] |->
                              IF i \in named THEN Loads(f, bos[f][i]) ELSE <<>>])
           job(i) == [act |-> "JOB_SUBMIT", code |-> 13,
                      job_ctx_id |-> contexts[f][i].id, num_relocs |-> Len(hs)]
           gather == [act |-> "gathers", id |-> bos[f][At(g)].id, ctx_id |-> rec_ctx[f],
                      code |-> bos[f][At(g)].id]
           relocs == [act |-> "relocs", ids |-> ids, ctx_id |-> rec_ctx[f], write |-> w,
                      gather_id |-> bos[f][At(g)].id, code |-> 0]
           uses == T \cup {g}
<1>2. /\ uses \subseteq program.handles
      /\ \A h \in uses : gem[f][h] # None \/ "bad" \in program.ops
  BY Zenon DEF Submit
<1>3. \/ Abort("invalid handle") \/ Abort("cmdbuf not mapped") \/ Abort("deflate failed")
      \/ \E i \in file_lookup_context(f, c) :
           /\ \A h \in T \cup {g} : file_lookup_bo(f, h) # {}
           /\ bos' = [bos EXCEPT ![f] =
                [j \in DOMAIN @ |-> IF j \in named THEN Captured(@[j]) ELSE @[j]]]
           /\ call' = [call EXCEPT ![t] = Submitting(f, c, T \cup {g}, w, hs)]
           /\ Write(t, a \o <<job(i), gather>> \o IF T = {} THEN <<>> ELSE <<relocs>>)
           /\ UNCHANGED <<kernel, rec_ctx, contexts, ctx_cnt, bos_cnt, job_ctx_cnt>>
  BY Zenon DEF Submit
<1>4. ASSUME NEW why, Abort(why)
      PROVE  MemoryInv(t)'
  BY <1>4, AbortMemory
<1>5. ASSUME NEW i \in file_lookup_context(f, c),
             \A h \in T \cup {g} : file_lookup_bo(f, h) # {},
             bos' = [bos EXCEPT ![f] =
                [j \in DOMAIN @ |-> IF j \in named THEN Captured(@[j]) ELSE @[j]]],
             call' = [call EXCEPT ![t] = Submitting(f, c, T \cup {g}, w, hs)],
             Write(t, a \o <<job(i), gather>> \o IF T = {} THEN <<>> ELSE <<relocs>>),
             UNCHANGED kernel
      PROVE  MemoryInv(t)'
  <2>1. \A h \in uses : /\ At(h) \in DOMAIN bos[f] /\ At(h) \in file_lookup_bo(f, h)
                        /\ bos[f][At(h)].handle = h /\ At(h) \in named
    BY <1>5, TakenIs
  <2>2. program \in Programs /\ IsFiniteSet(program.handles) /\ program.handles \subseteq Handles
    BY ProgramsAssumption DEF SizesInv
  <2>3. DOMAIN hs = 1..Cardinality(T) /\ \A k \in DOMAIN hs : hs[k] \in T
    <3>1. IsFiniteSet(T)
      BY <1>2, <2>2, FS_Subset
    <3> QED
      BY <3>1, SetToSeqIs, SetToSeqAll
  <2> HIDE DEF hs, At, Jobs
  <2>4. /\ ListsInv /\ UniqueIds(bos) /\ \A e \in Files : bos[e] \in Seq(Range(bos[e]))
        /\ DOMAIN bos = Files
    BY TablesAre DEF ReplayInv, IsTable
  <2>5. \A e \in Files :
          /\ DOMAIN bos'[e] = DOMAIN bos[e]
          /\ \A k \in DOMAIN bos[e] :
               bos'[e][k] = IF e = f /\ k \in named THEN Captured(bos[e][k]) ELSE bos[e][k]
    <3> HIDE DEF named
    <3>1. bos'[f] = [j \in DOMAIN bos[f] |-> IF j \in named THEN Captured(bos[f][j]) ELSE bos[f][j]]
      BY <1>5, <2>4
    <3>2. \A e \in Files : e # f => bos'[e] = bos[e]
      BY <1>5, <2>4
    <3>3. PICK r : r = [j \in DOMAIN bos[f] |-> IF j \in named THEN Captured(bos[f][j]) ELSE bos[f][j]]
      OBVIOUS
    <3>4. DOMAIN r = DOMAIN bos[f] /\ \A j \in DOMAIN bos[f] :
            r[j] = IF j \in named THEN Captured(bos[f][j]) ELSE bos[f][j]
      BY <3>3
    <3>5. bos'[f] = r
      BY <3>1, <3>3
    <3>6. ASSUME NEW e \in Files
          PROVE  /\ DOMAIN bos'[e] = DOMAIN bos[e]
                 /\ \A k \in DOMAIN bos[e] :
                      bos'[e][k] = IF e = f /\ k \in named THEN Captured(bos[e][k]) ELSE bos[e][k]
      <4>1. CASE e = f
        BY ONLY <3>4, <3>5, <4>1
      <4>2. CASE e # f
        BY ONLY <3>2, e \in Files, <4>2
      <4> QED
        BY <4>1, <4>2
    <3> QED
      BY <3>6
  <2>6. \A k \in DOMAIN bos[f] : IsFiniteSet(DOMAIN bos[f][k].chksum)
    BY DEF SizesInv
  <2>7. LoadSeq(a, LiveIds(bos), program.compression)
    <3> HIDE DEF named
    <3> QED
      BY ONLY ReplayInv(t), f \in Files, <2>6, CapturesAre
  <2>8. /\ PageSeq(a, LoadedOf(f, named))
        /\ \A k \in DOMAIN bos[f] : k \in named =>
             \A p \in PagesToLoad(bos[f][k]) : Loading(a, bos[f][k].id, p)
    <3>1. bos[f] \in Seq(Range(bos[f]))
      BY <2>4
    <3> HIDE DEF named
    <3> QED
      BY ONLY <2>6, <3>1, CapturesPages
  <2>9. \A k \in DOMAIN a : a[k].act \in {"BO_LOAD_DATA", "page"}
    BY <2>7 DEF LoadSeq
  <2>10. \A j \in DOMAIN hs : ids[j] = bos[f][At(hs[j])].id
    OBVIOUS
  <2> HIDE DEF a, ids, named
  <2>11. PICK J, G, R, q :
          /\ J = job(i) /\ G = gather /\ R = relocs
          /\ q = IF T = {} THEN <<>> ELSE <<R>>
    OBVIOUS
  <2>12. /\ J.act = "JOB_SUBMIT" /\ G.act = "gathers" /\ R.act = "relocs"
         /\ R.ids = ids /\ R.write = w
    BY <2>11
  <2>13. q = <<>> \/ q = <<R>>
    BY <2>11
  <2>14. out' = [out EXCEPT ![t] = a \o <<J, G>> \o q]
    BY <1>5, <2>11 DEF Write
  <2> HIDE DEF job, gather, relocs
  <2>15. PICK s : s = a \o <<J, G>> \o q
    OBVIOUS
  <2>16. /\ pending = <<>> /\ Unread(t) = <<>> /\ DOMAIN out = Threads
         /\ UNCHANGED <<pending, bo_list>>
    <3>1. RecordsInv(t) /\ t \in Threads
      BY DEF ReplayInv
    <3> QED
      BY <1>1, <3>1, NothingUnread DEF repVars, lists, RecordsInv
  <2>17. s \in Seq(Range(s)) /\ \A k \in DOMAIN a : k \in DOMAIN s /\ s[k] = a[k]
    <3>1. PICK A : A = a
      OBVIOUS
    <3>2. A \in Seq(Range(A)) /\ JobList(s, A, J, G, R, q)
      BY <2>8, <2>9, <2>12, <2>13, <2>15, <3>1 DEF PageSeq, JobList
    <3> DEFINE n == Len(A)
    <3>4. /\ s \in Seq(Range(s)) /\ DOMAIN s = 1..Len(s)
          /\ n \in Nat /\ DOMAIN A = 1..n /\ Len(s) \in {n + 2, n + 3}
          /\ \A k \in 1..n : s[k] = A[k]
      BY ONLY <3>2, JobAt
    <3> HIDE DEF n
    <3>5. ASSUME NEW l, l \in {n + 2, n + 3}
          PROVE  \A k \in 1..n : k \in 1..l
      <4>1. n \in Nat
        BY <3>4
      <4> QED
        BY ONLY <3>5, <4>1
    <3> QED
      BY ONLY <3>1, <3>4, <3>5
  <2>18. Unread(t)' = s
    <3>1. out'[t] = s
      BY <2>14, <2>15, <2>16
    <3>2. <<>> \o s = s
      BY <2>17
    <3> QED
      BY <2>16, <3>1, <3>2 DEF Unread
  <2>19. /\ call'[t].op = "submit" /\ call'[t].file = f /\ call'[t].uses = uses
         /\ call'[t].write = w /\ call'[t].order = hs
    BY <1>1, <1>5 DEF Submitting
  <2>20. UNCHANGED <<program, gem, mem, rendered, bo_list>>
    BY <1>5, <2>16 DEF kernel
  <2>21. \A e \in Files : /\ DOMAIN bos'[e] = DOMAIN bos[e]
                          /\ \A k \in DOMAIN bos[e] : /\ bos'[e][k].id = bos[e][k].id
                                                      /\ bos'[e][k].handle = bos[e][k].handle
    <3>1. ASSUME NEW e \in Files, NEW k \in DOMAIN bos[e]
          PROVE  bos'[e][k].id = bos[e][k].id /\ bos'[e][k].handle = bos[e][k].handle
      <4>1. PICK b : b = bos[e][k]
        OBVIOUS
      <4>2. b = [x \in BoFields |-> b[x]] /\ b.chksum \in Seq(Range(b.chksum))
        BY <4>1, TablesAre DEF MemoryInv, ShapeInv
      <4>3. Captured(b).id = b.id /\ Captured(b).handle = b.handle
        BY ONLY <4>2, CapturedPages
      <4>4. bos'[e][k] = b \/ bos'[e][k] = Captured(b)
        BY ONLY <2>5, <4>1, e \in Files, k \in DOMAIN bos[e]
      <4> QED
        BY <4>1, <4>3, <4>4
    <3> QED
      BY <2>5, <3>1
  <2>22. \A x \in LoadedOf(f, named) :
           \E k \in DOMAIN bos[f] : /\ x[1] = bos[f][k].id /\ x[2] \in DOMAIN bos'[f][k].chksum
                                    /\ x[3] = bos'[f][k].chksum[x[2]]
    <3>1. ASSUME NEW k \in DOMAIN bos[f], k \in named, NEW p \in PagesToLoad(bos[f][k])
          PROVE  p \in DOMAIN bos'[f][k].chksum /\ mem[bos[f][k].data][p] = bos'[f][k].chksum[p]
      <4>1. PICK b : b = bos[f][k]
        OBVIOUS
      <4>2. b = [x \in BoFields |-> b[x]] /\ b.chksum \in Seq(Range(b.chksum))
        BY <4>1, TablesAre DEF MemoryInv, ShapeInv
      <4>3. p \in DOMAIN b.chksum
        BY <3>1, <4>1 DEF PagesToLoad
      <4>4. p \in DOMAIN Captured(b).chksum /\ Captured(b).chksum[p] = mem[b.data][p]
        BY <3>1, <4>1, <4>2, <4>3, CapturedPages
      <4>5. bos'[f][k] = Captured(b)
        BY <2>5, <3>1, <4>1
      <4> QED
        BY <4>1, <4>4, <4>5
    <3>2. ASSUME NEW x \in LoadedOf(f, named)
          PROVE  \E k \in DOMAIN bos[f] : /\ x[1] = bos[f][k].id /\ x[2] \in DOMAIN bos'[f][k].chksum
                                          /\ x[3] = bos'[f][k].chksum[x[2]]
      <4>1. PICK k \in DOMAIN bos[f] : k \in named /\ \E p \in PagesToLoad(bos[f][k]) :
              x = <<bos[f][k].id, p, mem[bos[f][k].data][p]>>
        BY DEF LoadedOf
      <4>2. PICK p \in PagesToLoad(bos[f][k]) : x = <<bos[f][k].id, p, mem[bos[f][k].data][p]>>
        BY <4>1
      <4>3. x[1] = bos[f][k].id /\ x[2] = p /\ x[3] = mem[bos[f][k].data][p]
        BY <4>2
      <4> QED
        BY <3>1, <4>1, <4>3
    <3> QED
      BY <3>2
  <2>23. R.write # None =>
           \E j \in DOMAIN bos[f] : /\ R.ids[R.write.target] = bos[f][j].id
                                    /\ bos[f][j].handle = call'[t].order[R.write.target]
    <3>1. SUFFICES ASSUME w # None
                   PROVE  \E j \in DOMAIN bos[f] : /\ ids[w.target] = bos[f][j].id
                                                   /\ bos[f][j].handle = hs[w.target]
      BY <2>12, <2>19
    <3>2. w.target \in DOMAIN hs
      BY <2>3, <3>1 DEF Jobs
    <3>3. /\ At(hs[w.target]) \in DOMAIN bos[f]
          /\ bos[f][At(hs[w.target])].handle = hs[w.target]
      BY <2>1, <2>3, <3>2
    <3>4. ids[w.target] = bos[f][At(hs[w.target])].id
      BY <2>10, <3>2
    <3> QED
      BY <3>3, <3>4
  <2>24. ContentsInv(t)'
    <3>1. R.write = call'[t].write
      BY <2>12, <2>19
    <3>2. PICK A, P : A = a /\ P = LoadedOf(f, named)
      OBVIOUS
    <3>3. PageSeq(A, P)
      BY <2>8, <3>2
    <3>4. JobList(s, A, J, G, R, q)
      BY <2>9, <2>12, <2>13, <2>15, <3>2 DEF JobList
    <3>5. \A x \in P : \E k \in DOMAIN bos[f] : /\ x[1] = bos[f][k].id
                                            /\ x[2] \in DOMAIN bos'[f][k].chksum
                                            /\ x[3] = bos'[f][k].chksum[x[2]]
      BY ONLY <2>22, <3>2
    <3>6. UniqueIds(bos) /\ call'[t].op = "submit" /\ call'[t].file = f
      BY <2>4, <2>19
    <3> QED
      BY ONLY f \in Files, <2>18, <2>21, <2>23, <3>1, <3>3, <3>4, <3>5, <3>6, JobContents
  <2>25. \A e \in Files : \A k \in DOMAIN bos'[e] :
           /\ ShapeInv(bos'[e][k])
           /\ Given(e, bos[e][k].handle)' => PagesInv(t, e, bos[e][k])'
    <3>1. \A h \in uses : \E j \in named : j \in file_lookup_bo(f, h)
      BY <2>1
    <3>2. \A k \in DOMAIN bos[f] : k \in named =>
            \A p \in PagesToLoad(bos[f][k]) : Loading(s, bos[f][k].id, p)
      <4>1. ASSUME NEW id, NEW p, Loading(a, id, p)
            PROVE  Loading(s, id, p)
        BY <2>17, <4>1 DEF Loading
      <4> QED
        BY <2>8, <4>1
    <3> HIDE DEF uses
    <3>3. PICK U, N : U = uses /\ N = named
      OBVIOUS
    <3>4. /\ call'[t].uses = U
          /\ \A h \in U : \E j \in N : j \in file_lookup_bo(f, h)
          /\ \A k \in DOMAIN bos[f] : k \in N =>
               \A p \in PagesToLoad(bos[f][k]) : Loading(s, bos[f][k].id, p)
      BY <2>19, <3>1, <3>2, <3>3
    <3>5. \A e \in Files :
            /\ DOMAIN bos'[e] = DOMAIN bos[e]
            /\ \A k \in DOMAIN bos[e] :
                 bos'[e][k] = IF e = f /\ k \in N THEN Captured(bos[e][k]) ELSE bos[e][k]
      BY ONLY <2>5, <3>3
    <3>6. CapturedIn(f, N, U, s)
      BY ONLY <3>4, <3>5 DEF CapturedIn
    <3>7. call'[t].op = "submit" /\ call'[t].file = f /\ call'[t].uses = U
      BY <2>19, <3>4
    <3> QED
      BY ONLY Threads = {t}, ShadowInv, MemoryInv(t), f \in Files, <1>1, <2>16, <2>18, <2>20,
              <3>6, <3>7, JobEntries
  <2>26. /\ call'[t].file \in Files
         /\ \A h \in call'[t].uses : h \in Handles /\ gem'[call'[t].file][h] # None
    BY <1>2, <2>2, <2>19, <2>20
  <2>27. \A o \in Objs : mem'[o] \in Seq(Range(mem'[o])) /\ mem'[o] # <<>>
    BY <2>20 DEF MemoryInv
  <2> QED
    BY ONLY <2>24, <2>25, <2>26, <2>27 DEF MemoryInv
<1> QED
  <2> HIDE DEF hs, named, a, job, gather, relocs
  <2> QED
    BY <1>3, <1>4, <1>5, Zenon DEF kernel

-----------------------------------------------------------------------------
(* Every step *)

\* Every step of libwrap keeps what is known of the memory.
LEMMA NextMemory ==
  ASSUME NEW t, Threads = {t}, ShadowInv, "bad" \notin program.ops,
         ReplayInv(t), ReplayInv(t)', SizesInv(t), MemoryInv(t), UNCHANGED <<program, repVars>>, RecorderNext
  PROVE  MemoryInv(t)'
<1>0. DOMAIN mem = Objs
  BY DEF SizesInv
<1>1. ASSUME NEW s \in Threads, NEW f \in Files,
             \/ OpenFile(s, f) \/ CloseFile(s, f) \/ CloseFd(s, f)
             \/ \E h \in Handles :
                 \/ GemMmap(s, f, h) \/ GemClose(s, f, h) \/ SetFlags(s, f, h)
                 \/ BadHandle(s, f, h)
                 \/ \E o \in Objs : GemCreate(s, f, h, o)
                 \/ \E b \in FbIds : AddFb(s, f, h, b)
             \/ \E b \in FbIds : RmFb(s, f, b) \/ Display(s, f, b)
             \/ \E c \in Chans :
                 \/ OpenChannel(s, f, c) \/ CloseChannel(s, f, c)
                 \/ \E g \in Handles, T \in SUBSET Handles :
                     \E w \in Jobs(T) : Submit(s, f, c, g, T, w)
      PROVE  MemoryInv(t)'
  <2>0. s = t
    OBVIOUS
  <2>1. CASE OpenFile(s, f) \/ CloseFd(s, f)
    BY <2>0, <2>1, OtherSteps, Zenon
  <2>2. CASE CloseFile(s, f)
    BY <2>0, <2>2, CloseFileMemory
  <2>3. ASSUME NEW h \in Handles, GemMmap(s, f, h) \/ SetFlags(s, f, h) \/ BadHandle(s, f, h)
        PROVE  MemoryInv(t)'
    BY <2>0, <2>3, OtherSteps, Zenon
  <2>4. ASSUME NEW h \in Handles, GemClose(s, f, h)
        PROVE  MemoryInv(t)'
    BY <2>0, <2>4, GemCloseMemory
  <2>5. ASSUME NEW h \in Handles, NEW o \in Objs, GemCreate(s, f, h, o)
        PROVE  MemoryInv(t)'
    BY <2>0, <2>5, GemCreateMemory
  <2>6. ASSUME NEW h \in Handles, NEW b \in FbIds, AddFb(s, f, h, b)
        PROVE  MemoryInv(t)'
    BY <2>0, <2>6, OtherSteps, Zenon
  <2>7. ASSUME NEW b \in FbIds, RmFb(s, f, b)
        PROVE  MemoryInv(t)'
    BY <2>0, <2>7, EditSteps, Zenon
  <2>8. ASSUME NEW b \in FbIds, Display(s, f, b)
        PROVE  MemoryInv(t)'
    BY <2>0, <2>8, OtherSteps, Zenon
  <2>9. ASSUME NEW c \in Chans, OpenChannel(s, f, c) \/ CloseChannel(s, f, c)
        PROVE  MemoryInv(t)'
    BY <2>0, <2>9, OtherSteps, Zenon
  <2>10. ASSUME NEW c \in Chans, NEW g \in Handles, NEW T \in SUBSET Handles, NEW w \in Jobs(T),
                Submit(s, f, c, g, T, w)
         PROVE  MemoryInv(t)'
    BY <2>0, <2>10, SubmitMemory
  <2> QED
    BY <1>1, <2>1, <2>2, <2>3, <2>4, <2>5, <2>6, <2>7, <2>8, <2>9, <2>10, Zenon
<1>2. ASSUME NEW s \in Threads,
             \/ Started(s) \/ Counted(s) \/ GemCreateLeave(s) \/ GemMmapLeave(s) \/ GemCloseLeave(s)
             \/ AddFbLeave(s) \/ FbKernel(s) \/ OpenChannelLeave(s) \/ CloseChannelLeave(s)
             \/ SubmitKernel(s) \/ DiskFull(s)
      PROVE  MemoryInv(t)'
  <2>0. s = t
    OBVIOUS
  <2>1. CASE Started(s) \/ Counted(s) \/ FbKernel(s) \/ OpenChannelLeave(s) \/ CloseChannelLeave(s)
    BY <2>0, <2>1, OtherSteps, Zenon
  <2>2. CASE GemCreateLeave(s)
    BY <2>0, <2>2, CreateLeaveMemory
  <2>3. CASE GemMmapLeave(s) \/ AddFbLeave(s)
    BY <2>0, <2>3, EditSteps, Zenon
  <2>4. CASE GemCloseLeave(s)
    BY <2>0, <2>4, CloseLeaveMemory
  <2>5. CASE SubmitKernel(s)
    BY <1>0, <2>0, <2>5, SubmitKernelMemory
  <2>6. CASE DiskFull(s)
    BY <2>0, <2>6, AbortMemory, Zenon DEF DiskFull
  <2> QED
    BY <1>2, <2>1, <2>2, <2>3, <2>4, <2>5, <2>6
<1>3. ASSUME NEW s \in Threads, NEW f \in Files, NEW h \in Handles, NEW p \in PageNos, NEW v \in Values,
             CpuWrite(s, f, h, p, v)
      PROVE  MemoryInv(t)'
  <2>1. CpuWrite(t, f, h, p, v)
    BY <1>3
  <2> QED
    BY <1>0, <2>1, CpuWriteMemory, Zenon
<1> QED
  BY <1>1, <1>2, <1>3, Zenon DEF RecorderNext

\* At the start no buffer is listed.
LEMMA InitMemory ==
  ASSUME NEW t, Threads = {t}, Init
  PROVE  MemoryInv(t)
<1>1. /\ program \in Programs /\ bos = [f \in Files |-> <<>>] /\ call[t].op = "none"
      /\ out[t] = <<>> /\ pending = <<>>
  BY CallFields DEF Init, RecorderInit, ReplayInit
<1>2. PICK n \in program.sizes : mem = [o \in Objs |-> [p \in 1..n |-> Zero]]
  BY DEF Init, RecorderInit
<1>3. n \in Nat /\ n # 0
  BY <1>1, ProgramsAssumption
<1>4. \A o \in Objs : mem[o] \in Seq(Range(mem[o])) /\ mem[o] # <<>>
  <2>1. PICK m : m = [p \in 1..n |-> Zero]
    OBVIOUS
  <2>2. m = [p \in 1..n |-> m[p]] /\ DOMAIN m = 1..n
    BY <2>1
  <2>3. m \in Seq(Range(m))
    BY ONLY <1>3, <2>2, IsList
  <2>4. 1 \in DOMAIN m /\ DOMAIN <<>> = {}
    BY <1>3, <2>2
  <2>5. m # <<>>
    BY <2>4
  <2> QED
    BY <1>2, <2>1, <2>3, <2>5
<1>5. Unread(t) = <<>> /\ DOMAIN <<>> = {}
  BY <1>1 DEF Unread
<1>6. ContentsInv(t)
  BY <1>5 DEF ContentsInv
<1>7. \A f \in Files : DOMAIN bos[f] = {}
  BY <1>1
<1> QED
  BY <1>1, <1>4, <1>6, <1>7 DEF MemoryInv

\* In every state that a program of one thread reaches, if it names only the handles it
\* has, each page of its buffers is in the replay's buffer as libwrap recorded it last, or
\* its record is still to be carried out, or the GPU has written the page.
THEOREM MemoryInvariant ==
  ASSUME NEW t, Threads = {t}
  PROVE  Spec => []MInv
<1>1. Init => MInv
  BY InitMemory DEF MInv
<1>2. RInv /\ RInv' /\ IInv /\ MInv /\ [Next]_vars => MInv'
  <2> SUFFICES ASSUME RInv, RInv', IInv, MInv, [Next]_vars, "bad" \notin program'.ops
               PROVE  MemoryInv(t)'
    BY DEF MInv
  <2>1. ReplayInv(t) /\ ReplayInv(t)' /\ SizesInv(t)
    BY DEF RInv
  <2>2. program' = program
    BY DEF Next, StartOver, record_write_data, vars, recVars
  <2>3. "bad" \notin program.ops /\ ShadowInv /\ MemoryInv(t)
    BY <2>2 DEF IInv, MInv
  <2>4. CASE RecorderNext /\ UNCHANGED <<program, repVars>>
    BY <2>1, <2>3, <2>4, NextMemory
  <2>5. ASSUME NEW s \in Threads, NEW f \in Files, StartOver(s, f)
        PROVE  FALSE
    <3>1. s = t /\ Idle(s) /\ \E r \in Threads : call[r].op = "start"
      BY <2>5 DEF StartOver, StartAgain
    <3> QED
      BY <2>1, <3>1, IdleIs
  <2>6. ASSUME NEW s \in Threads, record_write_data(s)
        PROVE  MemoryInv(t)'
    <3>1. s = t
      OBVIOUS
    <3> QED
      BY <2>1, <2>3, <2>6, <3>1, WriteMemory
  <2>7. CASE UNCHANGED vars
    <3>1. UNCHANGED <<program, gem, mem, rendered, bos, call, out, pending, bo_list>>
      BY <2>7 DEF vars, recVars, repVars, kernel, shadow, lists
    <3> QED
      BY <2>3, <3>1, SameMemory
  <2> QED
    BY <2>4, <2>5, <2>6, <2>7 DEF Next
<1>3. Spec => []RInv
  BY ReplayInvariant
<1>4. Spec => []IInv
  BY InductiveInvariant
<1> QED
  BY <1>1, <1>2, <1>3, <1>4, PTL DEF Spec

\* A job header is not a payload: nothing has been read when it comes next.
LEMMA JobFirst ==
  ASSUME NEW t, ReplayInv(t), t \in Threads, out[t] # <<>>, Head(out[t]).act = "JOB_SUBMIT"
  PROVE  /\ 1 \in DOMAIN Unread(t) /\ Unread(t)[1].act = "JOB_SUBMIT"
<1>1. /\ PendingInv /\ Complete(Unread(t)) /\ pending \in Seq(Range(pending))
      /\ out[t] \in Seq(Range(out[t]))
  BY DEF ReplayInv, RecordsInv
<1>2. PICK r, m : r = Unread(t) /\ m = Len(pending) + 1
  OBVIOUS
<1>3. /\ r \in Seq(Range(r)) /\ m \in 1..Len(r) /\ r[m].act = "JOB_SUBMIT"
      /\ \A i \in 1..Len(pending) : r[i] = pending[i]
  BY <1>2, UnreadIs
<1>4. Len(r) \in Nat /\ DOMAIN r = 1..Len(r) /\ Complete(r)
  BY <1>1, <1>2, <1>3, ListIs
<1>5. CASE pending = <<>>
  <2>1. m = 1
    BY <1>2, <1>5
  <2> QED
    BY <1>2, <1>3, <1>4, <2>1
<1>6. CASE Len(pending) = 1 /\ pending[1].act \in {"BO_LOAD_DATA", "JOB_SUBMIT"}
  <2>1. m = 2 /\ 1 \in 1..Len(pending) /\ 1 + 1 = 2
    BY <1>2, <1>6
  <2>2. 1 \in DOMAIN r /\ 1 + 1 \in DOMAIN r /\ r[1] = pending[1]
    BY <1>3, <1>4, <2>1
  <2>3. r[2].act = "page" \/ r[2].act = "gathers"
    BY <1>4, <1>6, <2>1, <2>2 DEF Complete
  <2> QED
    BY <1>3, <2>1, <2>3
<1>7. CASE Len(pending) = 2 /\ WithRelocs(pending[1]) /\ pending[2].act = "gathers"
  <2>1. m = 3 /\ 1 \in 1..Len(pending) /\ 1 + 2 = 3
    BY <1>2, <1>7
  <2>2. 1 \in DOMAIN r /\ 1 + 2 \in DOMAIN r /\ r[1] = pending[1]
    BY <1>3, <1>4, <2>1
  <2>3. r[3].act = "relocs"
    BY <1>4, <1>7, <2>1, <2>2 DEF Complete, WithRelocs
  <2> QED
    BY <1>3, <2>1, <2>3
<1> QED
  BY <1>1, <1>5, <1>6, <1>7 DEF PendingInv

\* What the invariants say of a job that is about to be read
LEMMA JobSees ==
  ASSUME NEW t, Threads = {t}, ShadowInv, ReplayInv(t), MemoryInv(t)
  PROVE  JobSeesProgramsMemory
<1> SUFFICES ASSUME out[t] # <<>>, Head(out[t]).act = "JOB_SUBMIT", NEW h \in call[t].uses,
                    NEW f, f = call[t].file, NEW i \in file_lookup_bo(f, h),
                    NEW b, b = bos[f][i], b.data # None, ~b.is_framebuffer,
                    NEW j \in lookup_bo(b.id), NEW p \in Promised(Len(mem[b.data]))
             PROVE  \/ bo_list[j].map[p] = mem[b.data][p]
                    \/ program.checksums /\ <<b.data, p>> \in rendered
  BY Zenon DEF JobSeesProgramsMemory
<1>1. 1 \in DOMAIN Unread(t) /\ Unread(t)[1].act = "JOB_SUBMIT"
  BY JobFirst
<1>2. /\ call[t].op = "submit"
      /\ \A l \in DOMAIN Unread(t) : l > 1 => Unread(t)[l].act # "BO_LOAD_DATA"
  BY <1>1 DEF MemoryInv, ContentsInv, JobLast
<1>3. ~Loading(Unread(t), b.id, p)
  <2>1. \A l \in DOMAIN Unread(t) : l = 1 \/ l > 1
    <3>1. Unread(t) \in Seq(Range(Unread(t)))
      BY UnreadIs DEF ReplayInv, RecordsInv
    <3>2. DOMAIN Unread(t) = 1..Len(Unread(t)) /\ Len(Unread(t)) \in Nat
      BY <3>1, ListIs
    <3> QED
      BY <3>2
  <2> QED
    BY <1>1, <1>2, <2>1 DEF Loading
<1>4. f \in Files /\ h \in Handles /\ gem[f][h] # None
  BY <1>2 DEF MemoryInv
<1>5. Given(f, h) /\ Calls("close", f, h) = {}
  BY <1>2, <1>4 DEF Given, Calls
<1>6. i \in DOMAIN bos[f] /\ b.handle = h
  BY FoundListed DEF ListedAs
<1>7. b.data = gem[f][h]
  <2>1. HandleInv(f, h) /\ bos[f] \in Seq(Range(bos[f]))
    BY <1>4 DEF ShadowInv, TablesInv
  <2>2. bos[f][i].data \in {None, gem[f][h]}
    BY <1>5, <1>6, <2>1, NamedIs
  <2> QED
    BY <2>2
<1>8. PagesInv(t, f, b)
  BY <1>4, <1>5, <1>6 DEF MemoryInv
<1>9. PICK m : m = mem[gem[f][h]]
  OBVIOUS
<1>10. m \in Seq(Range(m)) /\ m # <<>>
  <2>1. gem[f][h] \in Objs
    BY <1>4, HandlesAre
  <2> QED
    BY <1>9, <2>1 DEF MemoryInv
<1>11. p \in DOMAIN m
  <2>1. Len(m) \in Nat /\ DOMAIN m = 1..Len(m) /\ Len(m) # 0
    BY <1>10, ListIs, EmptyList
  <2>2. p \in Promised(Len(m))
    BY <1>7, <1>9
  <2> QED
    BY <2>1, <2>2, PromisedPages
<1>12. Capturing(t, f, b)
  BY <1>2, <1>6 DEF Capturing
<1>13. Recent(t, f, b, p) /\ b.chksum[p] = m[p]
  BY <1>6, <1>7, <1>8, <1>9, <1>11, <1>12 DEF PagesInv
<1>14. ~Replayed(t, f, b.handle, p)
  BY DEF Replayed
<1>15. \/ \A k \in MirrorsOf(b.id) : bo_list[k].map[p] = b.chksum[p]
       \/ program.checksums /\ <<gem[f][b.handle], p>> \in rendered
  BY <1>3, <1>13, <1>14 DEF Recent
<1>16. j \in MirrorsOf(b.id)
  BY DEF lookup_bo, MirrorsOf
<1> QED
  BY <1>6, <1>7, <1>9, <1>13, <1>15, <1>16

\* When the replay is about to read a job of such a program, every buffer the job names
\* holds what the program's buffer holds (record_capture_bo_data, load_bo): all pages of
\* a small buffer, the sampled pages of a big one, but for framebuffers and, with
\* checksums, for the pages that the GPU has written.
THEOREM JobMemoryCorrect ==
  ASSUME NEW t, Threads = {t}
  PROVE  Spec => []("bad" \notin program.ops => JobSeesProgramsMemory)
<1>1. RInv /\ IInv /\ MInv => ("bad" \notin program.ops => JobSeesProgramsMemory)
  BY JobSees DEF RInv, IInv, MInv
<1>2. Spec => []RInv
  BY ReplayInvariant
<1>3. Spec => []IInv
  BY InductiveInvariant
<1>4. Spec => []MInv
  BY MemoryInvariant
<1> QED
  BY <1>1, <1>2, <1>3, <1>4, PTL

-----------------------------------------------------------------------------
(* The framebuffers, and the calls that leave them alone *)

\* What is in a set of framebuffers
LEMMA FbsAre ==
  ASSUME NEW T, NEW e
  PROVE  /\ e \in FbsOf(T) => \E f \in Files : \E i \in DOMAIN T[f] : T[f][i].fb_id # None /\ e = FbOf(f, T[f][i])
         /\ \A f \in Files : \A i \in DOMAIN T[f] :
              T[f][i].fb_id # None /\ e = FbOf(f, T[f][i]) => e \in FbsOf(T)
<1>1. e \in FbsOf(T) <=> \E f \in Files : e \in FbsIn(f, T[f])
  BY Zenon DEF FbsOf
<1>2. \A f : e \in FbsIn(f, T[f]) <=>
        \E i \in DOMAIN T[f] : T[f][i].fb_id # None /\ e = FbOf(f, T[f][i])
  BY Zenon DEF FbsIn
<1>3. ASSUME e \in FbsOf(T)
      PROVE  \E f \in Files : \E i \in DOMAIN T[f] : T[f][i].fb_id # None /\ e = FbOf(f, T[f][i])
  <2>1. PICK f \in Files : e \in FbsIn(f, T[f])
    BY ONLY <1>1, <1>3
  <2> QED
    BY ONLY <1>2, <2>1
<1>4. ASSUME NEW f \in Files, NEW i \in DOMAIN T[f], T[f][i].fb_id # None /\ e = FbOf(f, T[f][i])
      PROVE  e \in FbsOf(T)
  <2>1. e \in FbsIn(f, T[f])
    BY ONLY <1>2, <1>4
  <2> QED
    BY ONLY <1>1, <2>1
<1> QED
  BY <1>3, <1>4

\* An entry as a framebuffer
LEMMA FbFields ==
  ASSUME NEW f, NEW b
  PROVE  /\ FbOf(f, b).file = f /\ FbOf(f, b).handle = b.handle
         /\ FbOf(f, b).id = b.id /\ FbOf(f, b).fb = b.fb_id
BY DEF FbOf

\* The framebuffers of one table are in another, if the entries are.
LEMMA FbsWithin ==
  ASSUME NEW T, NEW U,
         \A f \in Files : \A i \in DOMAIN T[f] : T[f][i].fb_id # None =>
           \E j \in DOMAIN U[f] : FbOf(f, T[f][i]) = FbOf(f, U[f][j])
  PROVE  FbsOf(T) \subseteq FbsOf(U)
<1> SUFFICES ASSUME NEW e \in FbsOf(T)
             PROVE  e \in FbsOf(U)
  OBVIOUS
<1>1. PICK f \in Files : \E i \in DOMAIN T[f] : T[f][i].fb_id # None /\ e = FbOf(f, T[f][i])
  BY FbsAre
<1>2. PICK i \in DOMAIN T[f] : T[f][i].fb_id # None /\ e = FbOf(f, T[f][i])
  BY <1>1
<1>3. PICK j \in DOMAIN U[f] : FbOf(f, T[f][i]) = FbOf(f, U[f][j])
  BY <1>2
<1>4. U[f][j].fb_id # None /\ e = FbOf(f, U[f][j])
  <2>1. FbOf(f, T[f][i]).fb = T[f][i].fb_id /\ FbOf(f, U[f][j]).fb = U[f][j].fb_id
    BY FbFields
  <2> QED
    BY <1>2, <1>3, <2>1
<1> QED
  BY <1>4, FbsAre

\* The framebuffers stay when each entry that is one does.
LEMMA FbsSame ==
  ASSUME \A f \in Files : \A i \in DOMAIN bos'[f] : bos'[f][i].fb_id # None =>
           \E j \in DOMAIN bos[f] : FbOf(f, bos'[f][i]) = FbOf(f, bos[f][j]),
         \A f \in Files : \A i \in DOMAIN bos[f] : bos[f][i].fb_id # None =>
           \E j \in DOMAIN bos'[f] : FbOf(f, bos[f][i]) = FbOf(f, bos'[f][j])
  PROVE  Fbs' = Fbs
<1>1. PICK T, U : T = bos /\ U = bos'
  OBVIOUS
<1>2. FbsOf(T) \subseteq FbsOf(U) /\ FbsOf(U) \subseteq FbsOf(T)
  BY <1>1, FbsWithin
<1>3. Fbs = FbsOf(T) /\ Fbs' = FbsOf(U)
  BY <1>1 DEF Fbs
<1> QED
  BY <1>2, <1>3

\* The list stays, and with it the framebuffers.
LEMMA FbsUnchanged ==
  ASSUME bos' = bos
  PROVE  Fbs' = Fbs
BY Zenon DEF Fbs

\* A step that touches neither the screen nor a framebuffer: each keeps its buffer and its
\* context, and the records that are written are about other things.
Calm(t) ==
    /\ UNCHANGED <<program, repVars, kfb, crtc>> /\ Fbs' = Fbs
    /\ \A e \in Fbs : /\ rec_ctx'[e.file] = rec_ctx[e.file]
                      /\ gem'[e.file][e.handle] = gem[e.file][e.handle]
    /\ \A id : Gone(id) => Gone(id)'
    /\ out[t] = <<>>
    /\ call[t].op \notin {"addfb", "rmfb", "display"} /\ call'[t].op \notin {"addfb", "rmfb", "display"}
    /\ call'[t].op = "close" =>
         \A e \in Fbs : e.file = call'[t].file => e.handle # call'[t].handle
    /\ \A c \in Range(out'[t]) : c.act \notin FbRecords

\* Such a step keeps what is known of the framebuffers.
LEMMA CalmStep ==
  ASSUME NEW t, Threads = {t}, ReplayInv(t), ReplayInv(t)',
         DisplayInv(t), ContextIdsInv(t)', Calm(t)
  PROVE  DisplayInv(t)'
<1>0. KernelFbInv(t) /\ ReplayFbInv(t) /\ ScreenInv(t)
  BY DEF DisplayInv
<1>1. UNCHANGED <<kfb, crtc, fb_list, displayed_fb, overlay, pending>> /\ Fbs' = Fbs
  BY DEF Calm, repVars, lists, screen
<1>2. Unread(t) = <<>> /\ Unread(t)' = out'[t]
  <2>1. pending = <<>> /\ Unread(t) = <<>>
    BY NothingUnread DEF Calm, ReplayInv
  <2>2. out'[t] \in Seq(Range(out'[t]))
    BY DEF ReplayInv, RecordsInv
  <2>3. Unread(t)' = <<>> \o out'[t]
    BY <1>1, <2>1 DEF Unread
  <2> QED
    BY <2>1, <2>2, <2>3
<1>3. \A c : c \notin Range(Unread(t))
  BY <1>2, NoRecord
<1>4. \A e \in Fbs : \A c : IsOn(c, e)' <=> IsOn(c, e)
  BY DEF Calm, IsOn
<1>5. KernelFbInv(t)'
  <2>1. /\ kfb \in [FbIds -> [file : Files, obj : Objs] \cup {NoFb}]
        /\ \A e \in Fbs :
             /\ e.file \in Files /\ e.handle \in Handles /\ e.fb \in FbIds
             /\ kfb[e.fb] = [file |-> e.file, obj |-> gem[e.file][e.handle]]
             /\ \A d \in Fbs : d.fb = e.fb => d = e
        /\ \A b \in FbIds : kfb[b] # NoFb => b \in OtherFbs \/ \E e \in Fbs : e.fb = b
    BY <1>0 DEF KernelFbInv, Calm
  <2>2. \A e \in Fbs : gem'[e.file][e.handle] = gem[e.file][e.handle]
    BY DEF Calm
  <2>3. /\ call'[t].op \notin {"addfb", "rmfb", "display"}
        /\ call'[t].op = "close" =>
             \A e \in Fbs : e.file = call'[t].file => e.handle # call'[t].handle
    BY DEF Calm
  <2> QED
    BY ONLY <1>1, <2>1, <2>2, <2>3, Zenon DEF KernelFbInv
<1>6. ReplayFbInv(t)'
  <2>1. /\ \A i, j \in DOMAIN fb_list : fb_list[i].addr = fb_list[j].addr => i = j
        /\ \A c \in Range(fb_list) :
             /\ c.addr \in Addrs
             /\ \A d \in Range(fb_list) : SameFb(c, d) => c = d
             /\ (\E e \in Fbs : IsOn(c, e)) \/ Gone(c.ctx_id)
        /\ \A e \in Fbs : \E c \in Range(fb_list) : IsOn(c, e) /\ c.geom = e.fb
    BY <1>0, <1>3, Zenon DEF ReplayFbInv
  <2>2. /\ \A id : Gone(id) => Gone(id)'
        /\ \A c \in Range(Unread(t)') : c.act \notin FbRecords
    BY <1>2 DEF Calm
  <2>3. FbRecords = {"ADD_FRAMEBUFFER", "DEL_FRAMEBUFFER", "DISP_FRAMEBUFFER"}
    BY DEF FbRecords
  <2>4. \A c \in Range(Unread(t)') :
          c.act \notin FbRecords /\ c.act # "ADD_FRAMEBUFFER" /\ c.act # "DEL_FRAMEBUFFER"
    BY <2>2, <2>3
  <2>5. \A c, d : SameFb(c, d)' <=> SameFb(c, d)
    BY DEF SameFb
  <2>6. (Range(fb_list))' = Range(fb_list) /\ (Range(Unread(t)))' = Range(Unread(t)') /\ FbRecords' = FbRecords
    BY <1>1 DEF FbRecords
  <2> QED
    BY ONLY <1>1, <1>4, <2>1, <2>2, <2>4, <2>5, <2>6, Zenon DEF ReplayFbInv
<1>7. ScreenInv(t)'
  <2>1. /\ displayed_fb # None =>
             \E c \in Range(fb_list) :
                 c.addr = displayed_fb /\ overlay = [bo_id |-> c.bo_id, geom |-> c.geom]
        /\ crtc # None => crtc \in FbIds /\ kfb[crtc] # NoFb
        /\ crtc \in OtherFbs \cup {None} \/ OnScreen(crtc)
    BY <1>0 DEF ScreenInv, Calm
  <2>2. (Range(fb_list))' = Range(fb_list)
    BY <1>1
  <2>3. OnScreen(crtc) => OnScreen(crtc)'
    BY <1>1, <1>4, <2>2, Zenon DEF OnScreen
  <2>4. call'[t].op # "display" /\ NoFb' = NoFb
    BY DEF Calm, NoFb
  <2> QED
    BY ONLY <1>1, <2>1, <2>2, <2>3, <2>4, Zenon DEF ScreenInv
<1>8. ShowsInv(t)'
  BY <1>2 DEF Calm, ShowsInv, FbRecords
<1> QED
  BY <1>5, <1>6, <1>7, <1>8 DEF DisplayInv

\* Nothing that the invariant is about has changed.
LEMMA StillScreen ==
  ASSUME NEW t, DisplayInv(t),
         UNCHANGED <<program, repVars, gem, kfb, crtc, rec_ctx, bos, ctx_cnt, call, out>>
  PROVE  DisplayInv(t)'
<1>0. KernelFbInv(t) /\ ContextIdsInv(t) /\ ReplayFbInv(t) /\ ScreenInv(t)
  BY DEF DisplayInv
<1>1. UNCHANGED <<fb_list, displayed_fb, overlay, pending>> /\ Fbs' = Fbs
  BY FbsUnchanged DEF repVars, lists, screen
<1>2. LiveCtxs' = LiveCtxs
  BY DEF LiveCtxs, Recorded
<1>3. /\ \A id : Gone(id)' <=> Gone(id)
      /\ \A c, e : (IsOn(c, e)' <=> IsOn(c, e)) /\ (SameFb(c, e)' <=> SameFb(c, e))
      /\ (Range(fb_list))' = Range(fb_list) /\ (Range(Unread(t)))' = Range(Unread(t))
      /\ Unread(t)' = Unread(t) /\ (Range(out[t]))' = Range(out[t])
  BY <1>1, <1>2 DEF Gone, IsOn, SameFb, Unread
<1>4. KernelFbInv(t)'
  BY <1>0, <1>1, Zenon DEF KernelFbInv
<1>5. ContextIdsInv(t)'
  BY <1>0, <1>2 DEF ContextIdsInv
<1>6. ReplayFbInv(t)'
  BY <1>0, <1>1, <1>3, Zenon DEF ReplayFbInv
<1>7. \A b : OnScreen(b)' <=> OnScreen(b)
  BY <1>1, <1>3, Zenon DEF OnScreen
<1>8. ScreenInv(t)'
  BY <1>0, <1>1, <1>3, <1>7, Zenon DEF ScreenInv
<1>9. ShowsInv(t)'
  BY <1>3, Zenon DEF DisplayInv, ShowsInv
<1> QED
  BY <1>4, <1>5, <1>6, <1>8, <1>9 DEF DisplayInv

\* A step that leaves the tables and the contexts too
LEMMA QuietScreen ==
  ASSUME NEW t, Threads = {t}, ReplayInv(t), ReplayInv(t)', DisplayInv(t),
         UNCHANGED <<program, repVars, gem, kfb, crtc, rec_ctx, ctx_cnt>>, Fbs' = Fbs, out[t] = <<>>,
         call[t].op \notin {"addfb", "rmfb", "display"},
         call'[t].op \notin {"addfb", "rmfb", "display", "close", "start", "counting"},
         \A c \in Range(out'[t]) : c.act \notin FbRecords
  PROVE  DisplayInv(t)'
<1>1. LiveCtxs' = LiveCtxs
  BY DEF LiveCtxs, Recorded
<1>2. \A id : Gone(id) => Gone(id)'
  BY <1>1 DEF Gone
<1>3. Calm(t)
  BY <1>2, Zenon DEF Calm
<1>4. ContextIdsInv(t)'
  BY <1>1 DEF DisplayInv, ContextIdsInv
<1> QED
  BY <1>3, <1>4, CalmStep

\* libwrap kills the program.
LEMMA AbortScreen ==
  ASSUME NEW t, DisplayInv(t), UNCHANGED <<program, repVars>>, NEW why, Abort(why)
  PROVE  DisplayInv(t)'
<1>1. UNCHANGED <<program, repVars, gem, kfb, crtc, rec_ctx, bos, ctx_cnt, call, out>>
  BY DEF Abort, kernel, shadow, recorder
<1> QED
  BY <1>1, StillScreen

\* Records of other things
LEMMA OtherRecords ==
  /\ \A c \in Range(<<>>) : c.act \notin FbRecords
  /\ \A x : x.act \notin FbRecords => \A c \in Range(<<x>>) : c.act \notin FbRecords
BY NoRecord, OneRecord

\* The calls that leave the list of buffers alone
LEMMA QuietScreenSteps ==
  ASSUME NEW t, Threads = {t}, ReplayInv(t), ReplayInv(t)', DisplayInv(t), UNCHANGED <<program, repVars>>,
         NEW f, NEW h, NEW p, NEW v,
         \/ GemMmap(t, f, h) \/ SetFlags(t, f, h) \/ CpuWrite(t, f, h, p, v) \/ SubmitKernel(t)
         \/ CloseFd(t, f)
         \/ OpenChannel(t, f, h) \/ CloseChannel(t, f, h)
         \/ OpenChannelLeave(t) \/ CloseChannelLeave(t)
  PROVE  DisplayInv(t)'
<1>1. DOMAIN call = Threads /\ DOMAIN out = Threads
  BY TablesAre DEF ReplayInv, RecordsInv
<1>2. ASSUME UNCHANGED <<gem, kfb, crtc, rec_ctx, ctx_cnt, bos>>, out[t] = <<>>,
             call[t].op \notin {"addfb", "rmfb", "display"},
             call'[t].op \notin {"addfb", "rmfb", "display", "close", "start", "counting"},
             \A c \in Range(out'[t]) : c.act \notin FbRecords
      PROVE  DisplayInv(t)'
  <2>1. Fbs' = Fbs
    BY <1>2, FbsUnchanged
  <2> QED
    BY <1>2, <2>1, QuietScreen
<1>3. ASSUME NEW op, NEW o, NEW u, Entered(t, Call(op, f, h, o, u)), UNCHANGED kernel,
             op \notin {"addfb", "rmfb", "display", "close", "start", "counting"}
      PROVE  DisplayInv(t)'
  <2>1. PICK c : c = Call(op, f, h, o, u)
    OBVIOUS
  <2>2. /\ Idle(t) /\ call' = [call EXCEPT ![t] = c] /\ out' = out
        /\ UNCHANGED <<gem, kfb, crtc, rec_ctx, ctx_cnt, bos>>
    BY <1>3, <2>1 DEF Entered, shadow, recorder, kernel
  <2>3. out[t] = <<>> /\ call[t].op = "none"
    BY <2>2, IdleIs
  <2>4. call'[t].op = op /\ out'[t] = <<>>
    BY <1>1, <2>1, <2>2, <2>3, CallFields
  <2>5. \A c2 \in Range(out'[t]) : c2.act \notin FbRecords
    BY <2>4, OtherRecords
  <2> QED
    BY <1>2, <1>3, <2>2, <2>3, <2>4, <2>5
<1>4. CASE GemMmap(t, f, h)
  <2>1. Entered(t, Call("mmap", f, h, gem[f][h], {h})) /\ UNCHANGED kernel
    BY <1>4 DEF GemMmap
  <2> QED
    BY <1>3, <2>1
<1>5. CASE OpenChannel(t, f, h)
  <2>1. Entered(t, Call("open_channel", f, h, None, {})) /\ UNCHANGED kernel
    BY <1>5 DEF OpenChannel
  <2> QED
    BY <1>3, <2>1
<1>6. CASE CloseChannel(t, f, h)
  <2>1. Entered(t, Call("close_channel", f, h, None, {})) /\ UNCHANGED kernel
    BY <1>6 DEF CloseChannel
  <2> QED
    BY <1>3, <2>1
<1>7. ASSUME NEW g, NEW u, NEW s, Return(t, g, u, s)
      PROVE  call'[t].op \in {"none", "return"}
  <2>1. call' = [call EXCEPT ![t] = NoCall] \/ call' = [call EXCEPT ![t] = Call("return", g, None, None, u)]
    BY <1>7 DEF Return
  <2> QED
    BY <1>1, <2>1, CallFields
<1>8. CASE SetFlags(t, f, h)
  <2>1. Idle(t) /\ out[t] = <<>> /\ call[t].op = "none"
    BY <1>8, IdleIs DEF SetFlags
  <2>2. CASE file_lookup_bo(f, h) = {} /\ Abort("invalid handle")
    BY <2>2, AbortScreen
  <2>3. ASSUME NEW i \in file_lookup_bo(f, h),
               /\ Write(t, <<Rec("BO_SET_FLAGS", bos[f][i].id, rec_ctx[f])>>)
               /\ Return(t, f, {h}, <<h>>)
               /\ UNCHANGED <<kernel, shadow, ctx_cnt, bos_cnt, job_ctx_cnt>>
        PROVE  DisplayInv(t)'
    <3>1. PICK x : x = Rec("BO_SET_FLAGS", bos[f][i].id, rec_ctx[f])
      OBVIOUS
    <3>2. x.act \notin FbRecords
      BY <3>1 DEF Rec, FbRecords
    <3>3. out'[t] = <<x>>
      BY <1>1, <2>3, <3>1 DEF Write
    <3>4. \A c \in Range(out'[t]) : c.act \notin FbRecords
      BY <3>2, <3>3, OtherRecords
    <3>5. UNCHANGED <<gem, kfb, crtc, rec_ctx, ctx_cnt, bos>>
      BY <2>3 DEF kernel, shadow
    <3>6. call'[t].op \in {"none", "return"}
      BY <1>7, <2>3
    <3> QED
      BY <1>2, <2>1, <3>4, <3>5, <3>6
  <2> QED
    BY <1>8, <2>2, <2>3, Zenon DEF SetFlags
<1>9. CASE CpuWrite(t, f, h, p, v)
  <2>1. /\ Idle(t) /\ UNCHANGED <<gem, kfb, crtc, shadow, recorder, call, out>>
    BY <1>9 DEF CpuWrite
  <2>2. out[t] = <<>> /\ call[t].op = "none"
    BY <2>1, IdleIs
  <2>3. UNCHANGED <<program, repVars, gem, kfb, crtc, rec_ctx, bos, ctx_cnt, call, out>>
    BY <2>1 DEF shadow, recorder
  <2> QED
    BY <2>3, StillScreen
<1>10. CASE SubmitKernel(t)
  <2>1. /\ call[t].op = "submit" /\ out[t] = <<>> /\ call' = [call EXCEPT ![t] = NoCall] /\ out' = out
        /\ UNCHANGED <<gem, kfb, crtc, rec_ctx, bos, ctx_cnt>>
    BY <1>10 DEF SubmitKernel, shadow, recorder
  <2>2. call'[t].op = "none" /\ out'[t] = <<>>
    BY <1>1, <2>1, CallFields
  <2>3. \A c \in Range(out'[t]) : c.act \notin FbRecords
    BY <2>2, OtherRecords
  <2> QED
    BY <1>2, <2>1, <2>2, <2>3
<1>11. CASE OpenChannelLeave(t)
  <2>1. PICK x : x = Rec("JOB_CTX_CREATE", job_ctx_cnt % IdMod, None)
    OBVIOUS
  <2>2. /\ Hook(t, "open_channel") /\ Finish(t, <<x>>) /\ UNCHANGED <<kernel, rec_ctx, bos, ctx_cnt>>
    BY <1>11, <2>1 DEF OpenChannelLeave
  <2>3. call[t].op = "open_channel" /\ out[t] = <<>> /\ call[t].file \in Files
    BY <2>2, FileOfCall
  <2>4. out' = [out EXCEPT ![t] = <<x>>] /\ call'[t].op \in {"none", "return"}
    BY <1>1, <2>2, <2>3, FinishIs
  <2>5. x.act \notin FbRecords
    BY <2>1 DEF Rec, FbRecords
  <2>6. \A c \in Range(out'[t]) : c.act \notin FbRecords
    <3>1. out'[t] = <<x>>
      BY <1>1, <2>4
    <3> QED
      BY <2>5, <3>1, OtherRecords
  <2>7. UNCHANGED <<gem, kfb, crtc, rec_ctx, ctx_cnt, bos>>
    BY <2>2 DEF kernel
  <2> QED
    BY <1>2, <2>3, <2>4, <2>6, <2>7
<1>12. CASE CloseChannelLeave(t)
  <2>1. PICK i : /\ Finish(t, <<Rec("JOB_CTX_DESTROY", contexts[call[t].file][i].id, None)>>)
                 /\ Hook(t, "close_channel") /\ UNCHANGED <<kernel, rec_ctx, bos, ctx_cnt>>
    BY <1>12, Zenon DEF CloseChannelLeave
  <2>2. PICK x : x = Rec("JOB_CTX_DESTROY", contexts[call[t].file][i].id, None)
    OBVIOUS
  <2>3. call[t].op = "close_channel" /\ out[t] = <<>> /\ call[t].file \in Files
    BY <2>1, FileOfCall
  <2>4. out' = [out EXCEPT ![t] = <<x>>] /\ call'[t].op \in {"none", "return"}
    BY <1>1, <2>1, <2>2, <2>3, FinishIs
  <2>5. x.act \notin FbRecords
    BY <2>2 DEF Rec, FbRecords
  <2>6. \A c \in Range(out'[t]) : c.act \notin FbRecords
    <3>1. out'[t] = <<x>>
      BY <1>1, <2>4
    <3> QED
      BY <2>5, <3>1, OtherRecords
  <2>7. UNCHANGED <<gem, kfb, crtc, rec_ctx, ctx_cnt, bos>>
    BY <2>1 DEF kernel
  <2> QED
    BY <1>2, <2>3, <2>4, <2>6, <2>7
<1>13. CASE CloseFd(t, f)
  <2>1. UNCHANGED <<program, repVars, gem, kfb, crtc, rec_ctx, bos, ctx_cnt, call, out>>
    BY <1>13 DEF CloseFd, shadow, recorder
  <2> QED
    BY <2>1, StillScreen
<1> QED
  BY <1>4, <1>5, <1>6, <1>8, <1>9, <1>10, <1>11, <1>12, <1>13

\* An entry that is changed but for its handle, id and framebuffer
LEMMA EntryFbs ==
  ASSUME IsTable(bos), UniqueIds(bos), NEW f \in Files, NEW i \in DOMAIN bos[f], NEW a, a = bos[f][i],
         NEW b, b.handle = a.handle, b.id = a.id, b.fb_id = a.fb_id, bos' = WithEntry(bos, f, i, b)
  PROVE  Fbs' = Fbs
<1>1. /\ bos'[f][i] = b
      /\ \A e \in Files : DOMAIN bos'[e] = DOMAIN bos[e]
      /\ \A e \in Files : \A k \in DOMAIN bos[e] : e # f \/ k # i => bos'[e][k] = bos[e][k]
  <2>1. PICK T, U : T = bos /\ U = bos'
    OBVIOUS
  <2>2. IsTable(T) /\ UniqueIds(T) /\ i \in DOMAIN T[f] /\ b.id = T[f][i].id /\ U = WithEntry(T, f, i, b)
    BY <2>1
  <2> QED
    BY ONLY f \in Files, <2>1, <2>2, EditedEntries
<1>2. FbOf(f, b) = FbOf(f, a)
  BY DEF FbOf
<1>3. \A e \in Files : \A k \in DOMAIN bos[e] : FbOf(e, bos'[e][k]) = FbOf(e, bos[e][k])
  BY <1>1, <1>2
<1> QED
  BY ONLY <1>1, <1>3, FbsSame

\* The leave hook of GEM_MMAP
LEMMA MmapLeaveScreen ==
  ASSUME NEW t, Threads = {t}, ReplayInv(t), ReplayInv(t)', DisplayInv(t), UNCHANGED <<program, repVars>>,
         GemMmapLeave(t)
  PROVE  DisplayInv(t)'
<1> DEFINE g == call[t].file
<1>1. /\ DOMAIN call = Threads /\ IsTable(bos) /\ UniqueIds(bos) /\ DOMAIN out = Threads
      /\ \A e \in Files : \A k \in DOMAIN bos[e] : bos[e][k] = [x \in BoFields |-> bos[e][k][x]]
  BY TablesAre DEF ReplayInv, RecordsInv
<1>2. call[t].op = "mmap" /\ g \in Files /\ out[t] = <<>>
  <2>1. Hook(t, "mmap")
    BY Zenon DEF GemMmapLeave
  <2> QED
    BY <2>1, FileOfCall
<1>3. CASE Abort("invalid handle") \/ Abort("mmap failed")
  BY <1>3, AbortScreen, Zenon
<1>4. ASSUME NEW i \in file_lookup_bo(g, call[t].handle),
             bos' = [bos EXCEPT ![g][i] = SetBoData(@, call[t].obj)], Finish(t, <<>>),
             UNCHANGED <<gem, kfb, crtc, rec_ctx, ctx_cnt>>
      PROVE  DisplayInv(t)'
  <2>1. i \in DOMAIN bos[g]
    BY <1>4 DEF file_lookup_bo, IndexOf
  <2>2. PICK a, r : a = bos[g][i] /\ r = SetBoData(a, call[t].obj)
    OBVIOUS
  <2>3. bos' = WithEntry(bos, g, i, r)
    BY <1>1, <1>2, <1>4, <2>1, <2>2 DEF WithEntry, IsTable
  <2>4. r.handle = a.handle /\ r.id = a.id /\ r.fb_id = a.fb_id
    <3>1. a = [x \in BoFields |-> a[x]]
      BY <1>1, <1>2, <2>1, <2>2
    <3>2. r.fb_id = a.fb_id
      BY <2>2, <3>1 DEF SetBoData, BoFields
    <3>3. \A o : SetBoData(a, o).id = a.id
      BY ONLY <3>1, KeepsChksum
    <3>4. \A o : SetBoData(a, o).handle = a.handle
      BY ONLY <3>1, KeepsHandle
    <3> QED
      BY <2>2, <3>2, <3>3, <3>4
  <2>5. call'[t].op \in {"none", "return"} /\ out' = [out EXCEPT ![t] = <<>>]
    BY <1>1, <1>2, <1>4, FinishIs
  <2>6. Fbs' = Fbs
    <3> HIDE DEF g
    <3> QED
      BY ONLY <1>1, <1>2, <2>1, <2>2, <2>3, <2>4, EntryFbs
  <2>7. \A c \in Range(out'[t]) : c.act \notin FbRecords
    <3>1. out'[t] = <<>>
      BY <1>1, <2>5
    <3> QED
      BY <3>1, OtherRecords
  <2> QED
    BY <1>2, <1>4, <2>5, <2>6, <2>7, QuietScreen
<1>5. \/ Abort("invalid handle") \/ Abort("mmap failed")
      \/ \E i \in file_lookup_bo(g, call[t].handle) :
           /\ bos' = [bos EXCEPT ![g][i] = SetBoData(@, call[t].obj)]
           /\ Finish(t, <<>>)
           /\ UNCHANGED <<gem, kfb, crtc, rec_ctx, ctx_cnt>>
  BY Zenon DEF GemMmapLeave
<1> QED
  <2> HIDE DEF g
  <2> QED
    BY <1>3, <1>4, <1>5, Zenon

\* The leave hook of GEM_CREATE: the new buffer is no framebuffer.
LEMMA CreateLeaveScreen ==
  ASSUME NEW t, Threads = {t}, ReplayInv(t), ReplayInv(t)', DisplayInv(t), UNCHANGED <<program, repVars>>,
         GemCreateLeave(t)
  PROVE  DisplayInv(t)'
<1>1. PICK f, o, id : f = call[t].file /\ o = call[t].obj /\ id = bos_cnt % IdMod
  OBVIOUS
<1>2. Hook(t, "create")
  BY Zenon DEF GemCreateLeave
<1>3. /\ call[t].op = "create" /\ out[t] = <<>> /\ f \in Files
      /\ DOMAIN call = Threads /\ DOMAIN out = Threads /\ IsTable(bos)
  BY <1>1, <1>2, FileOfCall, TablesAre DEF ReplayInv, RecordsInv
<1>4. f \in Recorded
  BY <1>1, <1>3 DEF ReplayInv, OpenInv
<1>5. rec_ctx[f] # NullCtx
  BY <1>4 DEF Recorded
<1>6. PICK x : x = [handle |-> call[t].handle, id |-> id, data |-> None,
                captured |-> FALSE, is_framebuffer |-> FALSE, fb_id |-> None,
                chksum |-> [p \in DOMAIN mem[o] |-> Zero]]
  OBVIOUS
<1>7. PICK c : c = BoRec(id, rec_ctx[f], Len(mem[o]))
  OBVIOUS
<1>8. /\ bos' = [bos EXCEPT ![f] = Append(bos[f], x)] /\ Finish(t, <<c>>)
      /\ UNCHANGED <<kernel, rec_ctx, ctx_cnt>>
  BY <1>1, <1>5, <1>6, <1>7, Zenon DEF GemCreateLeave, Listed
<1>9. x.fb_id = None /\ c.act \notin FbRecords
  BY <1>6, <1>7 DEF BoRec, FbRecords
<1>10. call'[t].op \in {"none", "return"} /\ out'[t] = <<c>>
  BY <1>1, <1>3, <1>8, FinishIs
<1>11. Fbs' = Fbs
  <2>1. \A e \in Files : \A k \in DOMAIN bos'[e] :
          (e = f /\ bos'[e][k] = x) \/ \E j \in DOMAIN bos[e] : bos'[e][k] = bos[e][j]
    BY <1>3, <1>8, AddedEntries
  <2>2. \A e \in Files : \A i \in DOMAIN bos[e] : \E j \in DOMAIN bos'[e] : bos'[e][j] = bos[e][i]
    <3>1. PICK s : s = bos[f]
      OBVIOUS
    <3>2. /\ s \in Seq(Range(s)) /\ bos'[f] = Append(s, x)
          /\ \A e \in Files : e # f => bos'[e] = bos[e]
      BY <1>3, <1>8, <3>1 DEF IsTable
    <3>3. /\ DOMAIN Append(s, x) = 1..Len(s) + 1 /\ Len(s) \in Nat
          /\ \A i \in 1..Len(s) : Append(s, x)[i] = s[i]
      BY <3>2, AppendList
    <3>4. DOMAIN s = 1..Len(s)
      BY <3>2, ListIs
    <3>5. \A i \in DOMAIN s : i \in DOMAIN bos'[f] /\ bos'[f][i] = s[i]
      BY <3>2, <3>3, <3>4
    <3> QED
      BY <3>1, <3>2, <3>5
  <2>3. \A e \in Files : \A i \in DOMAIN bos'[e] : bos'[e][i].fb_id # None =>
           \E j \in DOMAIN bos[e] : FbOf(e, bos'[e][i]) = FbOf(e, bos[e][j])
    BY <1>9, <2>1
  <2>4. \A e \in Files : \A i \in DOMAIN bos[e] : bos[e][i].fb_id # None =>
           \E j \in DOMAIN bos'[e] : FbOf(e, bos[e][i]) = FbOf(e, bos'[e][j])
    BY <2>2
  <2> QED
    BY ONLY <2>3, <2>4, FbsSame
<1>12. \A d \in Range(out'[t]) : d.act \notin FbRecords
  BY <1>9, <1>10, OtherRecords
<1>13. UNCHANGED <<gem, kfb, crtc, rec_ctx, ctx_cnt>>
  BY <1>8 DEF kernel
<1> QED
  BY <1>3, <1>10, <1>11, <1>12, <1>13, QuietScreen

\* The leave hook of GEM_CLOSE: the buffer that goes is no framebuffer.
LEMMA CloseLeaveScreen ==
  ASSUME NEW t, Threads = {t}, ReplayInv(t), ReplayInv(t)', DisplayInv(t), UNCHANGED <<program, repVars>>,
         GemCloseLeave(t)
  PROVE  DisplayInv(t)'
<1> DEFINE g == call[t].file
<1>1. IsTable(bos) /\ DOMAIN call = Threads /\ DOMAIN out = Threads
  BY TablesAre DEF ReplayInv, RecordsInv
<1>2. call[t].op = "close" /\ g \in Files /\ out[t] = <<>>
  <2>1. Hook(t, "close")
    BY Zenon DEF GemCloseLeave
  <2> QED
    BY <2>1, FileOfCall
<1>3. CASE Abort("invalid handle")
  BY <1>3, AbortScreen, Zenon
<1>4. ASSUME NEW i \in file_lookup_bo(g, call[t].handle), bos' = [bos EXCEPT ![g] = Unlisted(g, i)],
             NEW x, NEW y, Finish(t, <<Rec("BO_DESTROY", x, y)>>), UNCHANGED <<kernel, rec_ctx, ctx_cnt>>
      PROVE  DisplayInv(t)'
  <2>1. i \in DOMAIN bos[g] /\ bos[g][i].handle = call[t].handle
    BY <1>4 DEF file_lookup_bo, IndexOf
  <2>2. bos' = [bos EXCEPT ![g] = RemoveAt(bos[g], i)]
    BY <1>4 DEF Unlisted
  <2>3. PICK c : c = Rec("BO_DESTROY", x, y)
    OBVIOUS
  <2>4. c.act \notin FbRecords
    BY <2>3 DEF Rec, FbRecords
  <2>5. call'[t].op \in {"none", "return"} /\ out' = [out EXCEPT ![t] = <<c>>]
    <3>1. Finish(t, <<c>>)
      BY <1>4, <2>3
    <3> QED
      BY <1>1, <1>2, <3>1, FinishIs
  <2>6. bos[g][i].fb_id = None
    <3>1. \A e \in Fbs : e.file = g => e.handle # call[t].handle
      BY <1>2 DEF DisplayInv, KernelFbInv
    <3>2. PICK e : e = FbOf(g, bos[g][i])
      OBVIOUS
    <3>3. e.file = g /\ e.handle = call[t].handle
      BY <2>1, <3>2, FbFields
    <3>4. bos[g][i].fb_id # None => e \in Fbs
      BY <1>2, <2>1, <3>2, FbsAre DEF Fbs
    <3> QED
      BY <3>1, <3>3, <3>4
  <2> HIDE DEF g
  <2>7. \A e \in Files : \A k \in DOMAIN bos'[e] : \E j \in DOMAIN bos[e] : bos'[e][k] = bos[e][j]
    BY ONLY <1>1, <1>2, <2>1, <2>2, RemovedEntries
  <2>8. \A e \in Files : \A k \in DOMAIN bos[e] : bos[e][k].fb_id # None =>
          \E j \in DOMAIN bos'[e] : bos'[e][j] = bos[e][k]
    <3>1. PICK s : s = bos[g]
      OBVIOUS
    <3>2. /\ s \in Seq(Range(s)) /\ bos'[g] = RemoveAt(s, i) /\ i \in DOMAIN s /\ s[i].fb_id = None
          /\ \A e \in Files : e # g => bos'[e] = bos[e]
      BY <1>1, <1>2, <2>1, <2>2, <2>6, <3>1 DEF IsTable
    <3>3. /\ Len(s) \in Nat /\ DOMAIN RemoveAt(s, i) = 1..Len(s) - 1
          /\ \A k \in 1..Len(s) - 1 : RemoveAt(s, i)[k] = IF k < i THEN s[k] ELSE s[k + 1]
      BY <3>2, RemoveAtList
    <3>4. DOMAIN s = 1..Len(s)
      BY <3>2, ListIs
    <3>5. ASSUME NEW k \in DOMAIN s, s[k].fb_id # None
          PROVE  \E j \in DOMAIN bos'[g] : bos'[g][j] = s[k]
      <4>1. k # i
        BY <3>2, <3>5
      <4>2. CASE k < i
        <5>1. k \in 1..Len(s) - 1
          BY <3>2, <3>3, <3>4, <4>2
        <5> QED
          BY <3>2, <3>3, <4>2, <5>1
      <4>3. CASE k > i
        <5>1. k - 1 \in 1..Len(s) - 1 /\ ~(k - 1 < i) /\ (k - 1) + 1 = k
          BY <3>2, <3>3, <3>4, <4>3
        <5> QED
          BY <3>2, <3>3, <5>1
      <4> QED
        BY <3>2, <3>3, <3>4, <4>1, <4>2, <4>3
    <3> QED
      BY <3>1, <3>2, <3>5
  <2>9. Fbs' = Fbs
    <3>1. \A e \in Files : \A k \in DOMAIN bos'[e] : bos'[e][k].fb_id # None =>
             \E j \in DOMAIN bos[e] : FbOf(e, bos'[e][k]) = FbOf(e, bos[e][j])
      BY <2>7
    <3>2. \A e \in Files : \A k \in DOMAIN bos[e] : bos[e][k].fb_id # None =>
             \E j \in DOMAIN bos'[e] : FbOf(e, bos[e][k]) = FbOf(e, bos'[e][j])
      BY <2>8
    <3> QED
      BY ONLY <3>1, <3>2, FbsSame
  <2>10. \A d \in Range(out'[t]) : d.act \notin FbRecords
    <3>1. out'[t] = <<c>>
      BY <1>1, <2>5
    <3> QED
      BY <2>4, <3>1, OtherRecords
  <2>11. UNCHANGED <<gem, kfb, crtc, rec_ctx, ctx_cnt>>
    BY <1>4 DEF kernel
  <2> QED
    BY <1>2, <2>5, <2>9, <2>10, <2>11, QuietScreen
<1>5. \/ Abort("invalid handle")
      \/ \E i \in file_lookup_bo(g, call[t].handle) :
           /\ bos' = [bos EXCEPT ![g] = Unlisted(g, i)]
           /\ \E x, y : Finish(t, <<Rec("BO_DESTROY", x, y)>>)
           /\ UNCHANGED <<kernel, rec_ctx, ctx_cnt>>
  BY Zenon DEF GemCloseLeave
<1> QED
  <2> HIDE DEF g
  <2> QED
    BY <1>3, <1>4, <1>5, Zenon

\* SUBMIT: the captured buffers are framebuffers as before.
LEMMA SubmitScreen ==
  ASSUME NEW t, Threads = {t}, ReplayInv(t), ReplayInv(t)', SizesInv(t), DisplayInv(t),
         UNCHANGED <<program, repVars>>,
         NEW f \in Files, NEW c, NEW g, NEW T, NEW w, Submit(t, f, c, g, T, w)
  PROVE  DisplayInv(t)'
<1>1. out[t] = <<>> /\ call[t].op = "none" /\ DOMAIN call = Threads
  <2>1. Idle(t)
    BY Zenon DEF Submit
  <2> QED
    BY <2>1, IdleIs
<1> DEFINE hs == SetToSeq(T)
           At(h) == CHOOSE i \in DOMAIN bos[f] : i \in file_lookup_bo(f, h)
           named == {At(h) : h \in T \cup {g}}
           ids == [i \in DOMAIN hs |-> bos[f][At(hs[i])].id]
           a == FlattenSeq([i \in DOMAIN bos[f] |->
                              IF i \in named THEN Loads(f, bos[f][i]) ELSE <<>>])
           job(i) == [act |-> "JOB_SUBMIT", code |-> 13,
                      job_ctx_id |-> contexts[f][i].id, num_relocs |-> Len(hs)]
           gather == [act |-> "gathers", id |-> bos[f][At(g)].id, ctx_id |-> rec_ctx[f],
                      code |-> bos[f][At(g)].id]
           relocs == [act |-> "relocs", ids |-> ids, ctx_id |-> rec_ctx[f], write |-> w,
                      gather_id |-> bos[f][At(g)].id, code |-> 0]
<1>2. T \cup {g} \subseteq program.handles
  BY Zenon DEF Submit
<1>3. \/ Abort("invalid handle") \/ Abort("cmdbuf not mapped") \/ Abort("deflate failed")
      \/ \E i \in file_lookup_context(f, c) :
           /\ bos' = [bos EXCEPT ![f] =
                [j \in DOMAIN @ |-> IF j \in named THEN Captured(@[j]) ELSE @[j]]]
           /\ call' = [call EXCEPT ![t] = Submitting(f, c, T \cup {g}, w, hs)]
           /\ Write(t, a \o <<job(i), gather>> \o IF T = {} THEN <<>> ELSE <<relocs>>)
           /\ UNCHANGED <<kernel, rec_ctx, contexts, ctx_cnt, bos_cnt, job_ctx_cnt>>
  BY Zenon DEF Submit
<1>4. ASSUME NEW why, Abort(why)
      PROVE  DisplayInv(t)'
  BY <1>4, AbortScreen
<1>5. ASSUME NEW i \in file_lookup_context(f, c),
             bos' = [bos EXCEPT ![f] =
                [j \in DOMAIN @ |-> IF j \in named THEN Captured(@[j]) ELSE @[j]]],
             call' = [call EXCEPT ![t] = Submitting(f, c, T \cup {g}, w, hs)],
             Write(t, a \o <<job(i), gather>> \o IF T = {} THEN <<>> ELSE <<relocs>>),
             UNCHANGED <<kernel, rec_ctx, ctx_cnt>>
      PROVE  DisplayInv(t)'
  <2>1. Len(hs) \in Nat /\ (Len(hs) = 0 <=> T = {})
    <3>1. program \in Programs /\ IsFiniteSet(program.handles)
      BY ProgramsAssumption DEF SizesInv
    <3>2. IsFiniteSet(T)
      BY <1>2, <3>1, FS_Subset
    <3> QED
      BY <3>2, SetToSeqIs
  <2> HIDE DEF hs, At
  <2>2. /\ IsTable(bos) /\ DOMAIN out = Threads
        /\ \A k \in DOMAIN bos[f] : bos[f][k] = [x \in BoFields |-> bos[f][k][x]]
    BY TablesAre DEF ReplayInv, RecordsInv
  <2>3. LoadSeq(a, LiveIds(bos), program.compression)
    <3>1. \A k \in DOMAIN bos[f] : IsFiniteSet(DOMAIN bos[f][k].chksum)
      BY DEF SizesInv
    <3> HIDE DEF named
    <3> QED
      BY ONLY ReplayInv(t), f \in Files, <3>1, CapturesAre
  <2> HIDE DEF a, ids, named
  <2>4. PICK J, G, R, q :
          /\ J = job(i) /\ G = gather /\ R = relocs
          /\ q = IF T = {} THEN <<>> ELSE <<R>>
    OBVIOUS
  <2>5. /\ J.act = "JOB_SUBMIT" /\ J.num_relocs = Len(hs)
        /\ G.act = "gathers" /\ R.act = "relocs" /\ R.gather_id = G.id /\ R.ctx_id = G.ctx_id
    BY <2>4
  <2>6. WithRelocs(J) <=> T # {}
    BY <2>1, <2>5 DEF WithRelocs
  <2>7. (q = <<>> /\ ~WithRelocs(J)) \/ (q = <<R>> /\ WithRelocs(J))
    BY <2>4, <2>6
  <2>8. LET s == a \o <<J, G>> \o q IN
        \A d \in Range(s) : d \in Range(a) \/ d = J \/ d = G \/ (d = R /\ WithRelocs(J))
    BY ONLY <2>3, <2>5, <2>7, JobIs
  <2>9. out'[t] = a \o <<J, G>> \o q
    BY <1>5, <2>2, <2>4 DEF Write
  <2>10. \A d \in Range(out'[t]) : d.act \notin FbRecords
    <3>1. \A d \in Range(a) : d.act \in {"BO_LOAD_DATA", "page"}
      BY <2>3 DEF LoadSeq, Range
    <3>2. \A d \in Range(out'[t]) : d \in Range(a) \/ d = J \/ d = G \/ d = R
      BY <2>8, <2>9
    <3> QED
      BY <2>5, <3>1, <3>2 DEF FbRecords
  <2>11. Fbs' = Fbs
    <3>1. PICK r : r = [j \in DOMAIN bos[f] |-> IF j \in named THEN Captured(bos[f][j]) ELSE bos[f][j]]
      OBVIOUS
    <3>2. DOMAIN r = DOMAIN bos[f] /\ \A j \in DOMAIN bos[f] :
            r[j] = IF j \in named THEN Captured(bos[f][j]) ELSE bos[f][j]
      BY <3>1
    <3>3. bos'[f] = r /\ \A e \in Files : e # f => bos'[e] = bos[e]
      BY <1>5, <2>2, <3>1 DEF IsTable
    <3>4. ASSUME NEW k \in DOMAIN bos[f]
          PROVE  FbOf(f, r[k]) = FbOf(f, bos[f][k])
      <4>1. PICK b, d : b = bos[f][k] /\ d = Captured(b)
        OBVIOUS
      <4>2. b = [x \in BoFields |-> b[x]]
        BY <2>2, <4>1
      <4>3. d.id = b.id /\ d.fb_id = b.fb_id /\ d.handle = b.handle
        BY <4>1, <4>2, CapturedKeeps, CapturedIs
      <4>4. r[k] = b \/ r[k] = d
        BY <3>2, <4>1
      <4> QED
        BY <4>1, <4>3, <4>4 DEF FbOf
    <3>5. \A e \in Files : DOMAIN bos'[e] = DOMAIN bos[e] /\
            \A k \in DOMAIN bos[e] : FbOf(e, bos'[e][k]) = FbOf(e, bos[e][k])
      BY <3>2, <3>3, <3>4
    <3> QED
      BY ONLY <3>5, FbsSame
  <2>12. call'[t].op = "submit"
    BY <1>1, <1>5 DEF Submitting
  <2>13. UNCHANGED <<gem, kfb, crtc, rec_ctx, ctx_cnt>>
    BY <1>5 DEF kernel
  <2> QED
    BY <1>1, <2>10, <2>11, <2>12, <2>13, QuietScreen
<1> QED
  <2> HIDE DEF hs, named, a, job, gather, relocs
  <2> QED
    BY <1>3, <1>4, <1>5, Zenon

\* What the kernel knows of a framebuffer of libwrap
LEMMA FbBacked ==
  ASSUME NEW t, KernelFbInv(t), NEW e \in Fbs
  PROVE  /\ e.file \in Files /\ e.handle \in Handles /\ e.fb \in FbIds
         /\ kfb[e.fb].file = e.file /\ kfb[e.fb].obj = gem[e.file][e.handle]
         /\ kfb[e.fb] = [file |-> e.file, obj |-> gem[e.file][e.handle]]
         /\ kfb[e.fb] # NoFb /\ gem[e.file][e.handle] \in Objs
<1>1. /\ e.file \in Files /\ e.handle \in Handles /\ e.fb \in FbIds
      /\ kfb[e.fb] = [file |-> e.file, obj |-> gem[e.file][e.handle]]
      /\ kfb[e.fb] \in [file : Files, obj : Objs] \cup {NoFb}
  BY DEF KernelFbInv
<1>2. None \notin Files
  BY NoneAssumption
<1>3. kfb[e.fb].file = e.file /\ kfb[e.fb].obj = gem[e.file][e.handle]
  BY <1>1
<1>4. kfb[e.fb] # NoFb
  BY <1>1, <1>2, <1>3 DEF NoFb
<1> QED
  BY <1>1, <1>3, <1>4

\* A handle that is given out, or given back, is not that of a framebuffer.
LEMMA HandleScreen ==
  ASSUME NEW t, Threads = {t}, ShadowInv, ReplayInv(t), ReplayInv(t)', DisplayInv(t),
         UNCHANGED <<program, repVars, kfb, crtc, rec_ctx, ctx_cnt, bos, out>>, Idle(t),
         NEW f \in Files, NEW h \in Handles, NEW o, gem' = [gem EXCEPT ![f][h] = o],
         \A e \in Fbs : e.file # f \/ e.handle # h,
         NEW x, NEW u, NEW op \in {"create", "close"},
         call' = [call EXCEPT ![t] = Call(op, f, h, x, u)]
  PROVE  DisplayInv(t)'
<1>1. out[t] = <<>> /\ call[t].op = "none" /\ DOMAIN call = Threads
  BY IdleIs
<1>2. call'[t].op = op /\ call'[t].file = f /\ call'[t].handle = h
  BY <1>1, CallFields
<1>3. Fbs' = Fbs /\ LiveCtxs' = LiveCtxs
  BY FbsUnchanged DEF LiveCtxs, Recorded
<1>4. ContextIdsInv(t)'
  BY <1>2, <1>3 DEF DisplayInv, ContextIdsInv
<1>5. \A e \in Fbs : gem'[e.file][e.handle] = gem[e.file][e.handle]
  <2>1. \A e \in Fbs : e.file \in Files /\ e.handle \in Handles
    BY FbBacked DEF DisplayInv
  <2>2. DOMAIN gem = Files /\ \A e \in Files : DOMAIN gem[e] = Handles
    BY HandlesAre
  <2> QED
    BY <2>1, <2>2
<1>6. \A id : Gone(id) => Gone(id)'
  BY <1>3 DEF Gone
<1>7. \A c \in Range(out'[t]) : c.act \notin FbRecords
  BY <1>1, OtherRecords
<1>8. Calm(t)
  BY <1>1, <1>2, <1>3, <1>5, <1>6, <1>7, Zenon DEF Calm
<1> QED
  BY <1>4, <1>8, CalmStep

\* GEM_CREATE and GEM_CLOSE: the handle is not that of a framebuffer.
LEMMA HandleScreenSteps ==
  ASSUME NEW t, Threads = {t}, ShadowInv, ReplayInv(t), ReplayInv(t)', DisplayInv(t), program.keep_handles,
         UNCHANGED <<program, repVars>>, NEW f \in Files, NEW h \in Handles, NEW o,
         (o \in Objs /\ GemCreate(t, f, h, o)) \/ GemClose(t, f, h)
  PROVE  DisplayInv(t)'
<1>1. CASE o \in Objs /\ GemCreate(t, f, h, o)
  <2>1. /\ Idle(t) /\ gem[f][h] = None /\ gem' = [gem EXCEPT ![f][h] = o]
        /\ UNCHANGED <<kfb, crtc, rec_ctx, ctx_cnt, bos, out>>
        /\ call' = [call EXCEPT ![t] = Call("create", f, h, o, {h})]
    BY <1>1, Zenon DEF GemCreate, Entered, shadow, recorder
  <2>2. \A e \in Fbs : e.file # f \/ e.handle # h
    <3>1. None \notin Objs
      BY NoneAssumption
    <3> QED
      BY <2>1, <3>1, FbBacked DEF DisplayInv
  <2> QED
    BY <2>1, <2>2, HandleScreen
<1>2. CASE GemClose(t, f, h)
  <2>1. /\ Idle(t) /\ gem' = [gem EXCEPT ![f][h] = None]
        /\ UNCHANGED <<kfb, crtc, rec_ctx, ctx_cnt, bos, out>>
        /\ call' = [call EXCEPT ![t] = Call("close", f, h, None, {})]
        /\ \A b \in FbIds : kfb[b] # [file |-> f, obj |-> gem[f][h]]
    BY <1>2, Zenon DEF GemClose, Entered, shadow, recorder
  <2>2. \A e \in Fbs : e.file # f \/ e.handle # h
    BY <2>1, FbBacked DEF DisplayInv
  <2> QED
    BY <2>1, <2>2, HandleScreen
<1> QED
  BY <1>1, <1>2

\* A call of open(): the context that comes is not that of a framebuffer.
LEMMA OpenScreen ==
  ASSUME NEW t, Threads = {t}, ReplayInv(t), ReplayInv(t)', DisplayInv(t),
         UNCHANGED <<program, repVars, kfb, crtc, gem, bos>>, ContextIdsInv(t)', out[t] = <<>>,
         call[t].op \in {"none", "start", "counting"},
         call'[t].op \in {"none", "start", "counting", "opening"},
         \A f \in Files : rec_ctx[f] # None => rec_ctx'[f] = rec_ctx[f],
         \A id : Gone(id) => Gone(id)',
         \A c \in Range(out'[t]) : c.act \notin FbRecords
  PROVE  DisplayInv(t)'
<1>1. Fbs' = Fbs
  BY FbsUnchanged
<1>2. ASSUME NEW e \in Fbs
      PROVE  rec_ctx'[e.file] = rec_ctx[e.file]
  <2>1. PICK f \in Files : \E i \in DOMAIN bos[f] : bos[f][i].fb_id # None /\ e = FbOf(f, bos[f][i])
    BY FbsAre DEF Fbs
  <2>2. bos[f] # <<>> /\ e.file = f
    BY <2>1, FbFields
  <2>3. rec_ctx[f] # None
    BY <2>2, TablesAre
  <2> QED
    BY <2>2, <2>3
<1>3. Calm(t)
  BY <1>1, <1>2, Zenon DEF Calm
<1> QED
  BY <1>3, CalmStep

\* The steps of open()
LEMMA OpenScreenSteps ==
  ASSUME NEW t, Threads = {t}, ReplayInv(t), ReplayInv(t)', DisplayInv(t), UNCHANGED <<program, repVars>>,
         "close_file" \in program.ops => program.max_ids <= IdMod, program.max_ids \in Nat,
         NEW f \in Files, OpenFile(t, f) \/ Started(t) \/ Counted(t)
  PROVE  DisplayInv(t)'
<1>1. /\ DOMAIN call = Threads /\ DOMAIN out = Threads /\ DOMAIN rec_ctx = Files
      /\ ContextIdsInv(t) /\ ctx_cnt \in Nat
  BY TablesAre DEF ReplayInv, RecordsInv, DisplayInv
<1>2. ASSUME UNCHANGED <<kernel, bos, rec_ctx, ctx_cnt>>, out[t] = <<>>, call[t].op \in {"none", "start"},
             call'[t].op \in {"start", "counting"}, call'[t].op = "counting" => call'[t].count = ctx_cnt,
             ctx_cnt < program.max_ids,
             \A c \in Range(out'[t]) : c.act \notin FbRecords
      PROVE  DisplayInv(t)'
  <2>1. LiveCtxs' = LiveCtxs
    BY <1>2 DEF LiveCtxs, Recorded
  <2>2. \A id : Gone(id) => Gone(id)'
    BY <1>2, <2>1 DEF Gone
  <2>3. ContextIdsInv(t)'
    BY <1>1, <1>2, <2>1 DEF ContextIdsInv
  <2>4. UNCHANGED <<program, repVars, kfb, crtc, gem, bos>> /\ call[t].op \in {"none", "start", "counting"}
        /\ call'[t].op \in {"none", "start", "counting", "opening"}
        /\ \A e \in Files : rec_ctx[e] # None => rec_ctx'[e] = rec_ctx[e]
    BY <1>2 DEF kernel
  <2> QED
    BY <1>2, <2>2, <2>3, <2>4, OpenScreen
<1>3. CASE OpenFile(t, f)
  <2>1. Idle(t) /\ ctx_cnt < program.max_ids /\ UNCHANGED <<kernel, bos, ctx_cnt>>
    BY <1>3 DEF OpenFile
  <2>2. out[t] = <<>> /\ call[t].op = "none"
    BY <2>1, IdleIs
  <2>3. CASE NewContext(t, f) /\ UNCHANGED <<rec_ctx, out>>
    <3>1. call' = [call EXCEPT ![t] = Counting(f, ctx_cnt)] /\ out'[t] = <<>>
      BY <2>2, <2>3 DEF NewContext
    <3>2. call'[t].op = "counting" /\ call'[t].count = ctx_cnt
      BY <1>1, <3>1 DEF Counting
    <3>3. \A c \in Range(out'[t]) : c.act \notin FbRecords
      BY <3>1, OtherRecords
    <3> QED
      BY <1>2, <2>1, <2>2, <2>3, <3>2, <3>3
  <2>4. CASE record_start(t, f) /\ UNCHANGED rec_ctx
    <3>1. PICK x, y : x = [act |-> "START", code |-> 0]
                      /\ y = [act |-> "INFO", code |-> 1, drm |-> TRUE, compression |-> program.compression]
      OBVIOUS
    <3>2. out'[t] = <<x, y>> /\ call' = [call EXCEPT ![t] = Call("start", f, None, None, {})]
      BY <1>1, <2>4, <3>1 DEF record_start
    <3>3. call'[t].op = "start"
      BY <1>1, <3>2, CallFields
    <3>4. \A c \in Range(<<x, y>>) : c = x \/ c = y
      BY DEF Range
    <3>5. x.act = "START" /\ y.act = "INFO"
      BY <3>1
    <3>6. \A c \in Range(out'[t]) : c.act \notin FbRecords
      BY <3>2, <3>4, <3>5 DEF FbRecords
    <3> QED
      BY <1>2, <2>1, <2>2, <2>4, <3>3, <3>6
  <2>5. ~(inited /\ ~enabled)
    BY <2>2 DEF ReplayInv, StartInv
  <2>6. \/ NewContext(t, f) /\ UNCHANGED <<rec_ctx, out>>
        \/ record_start(t, f) /\ UNCHANGED rec_ctx
        \/ inited /\ ~enabled
    BY <1>3 DEF OpenFile
  <2> QED
    BY <2>3, <2>4, <2>5, <2>6
<1>4. CASE Started(t)
  <2>1. /\ UNCHANGED <<kernel, bos, rec_ctx, ctx_cnt>> /\ out' = out /\ out[t] = <<>> /\ call[t].op = "start"
        /\ call' = [call EXCEPT ![t] = Counting(call[t].file, ctx_cnt)]
    BY <1>4 DEF Started, NewContext, shadow
  <2>2. call'[t].op = "counting" /\ call'[t].count = ctx_cnt
    BY <1>1, <2>1 DEF Counting
  <2>3. \A c \in Range(out'[t]) : c.act \notin FbRecords
    BY <2>1, OtherRecords
  <2>4. ctx_cnt < program.max_ids
    BY <1>1, <2>1 DEF ContextIdsInv
  <2> QED
    BY <1>2, <2>1, <2>2, <2>3, <2>4
<1>5. CASE Counted(t)
  <2>1. PICK g, x, n : g = call[t].file /\ n = ctx_cnt /\ x = Rec("CTX_CREATE", n % IdMod, None)
    OBVIOUS
  <2>2. call[t].op = "counting" /\ call[t].count = n /\ n < program.max_ids /\ n \in Nat
    BY <1>1, <1>5, <2>1 DEF Counted, ContextIdsInv
  <2>3. /\ rec_ctx' = [rec_ctx EXCEPT ![g] = n % IdMod] /\ ctx_cnt' = n + 1
        /\ out' = [out EXCEPT ![t] = <<x>>]
        /\ call' = [call EXCEPT ![t] = Call("opening", g, None, None, {})]
        /\ UNCHANGED <<kernel, bos>>
    BY <1>5, <2>1, <2>2 DEF Counted
  <2>4. out[t] = <<>> /\ rec_ctx[g] = None /\ g \in Files
    BY <2>1, <2>2 DEF ReplayInv, OpenInv
  <2>5. call'[t].op = "opening" /\ out'[t] = <<x>> /\ x.act = "CTX_CREATE"
    BY <1>1, <2>1, <2>3, CallFields DEF Rec
  <2>6. LiveCtxs' \subseteq LiveCtxs \cup {n % IdMod}
    <3>1. \A e \in Files : rec_ctx'[e] = IF e = g THEN n % IdMod ELSE rec_ctx[e]
      BY <1>1, <2>3
    <3> QED
      BY <3>1 DEF LiveCtxs, Recorded
  <2>7. "close_file" \in program.ops => n % IdMod = n
    <3>1. IdMod \in Nat \ {0} /\ program.max_ids \in Nat
      BY FormatAssumption
    <3> QED
      BY <2>2, <3>1
  <2>8. "close_file" \in program.ops => LiveCtxs \subseteq 0..(n - 1)
    BY <1>1, <2>1 DEF ContextIdsInv
  <2>9. \A id : Gone(id) => Gone(id)'
    <3>1. ASSUME NEW id, Gone(id)
          PROVE  Gone(id)'
      <4>1. "close_file" \in program.ops /\ id \in 0..(n - 1) /\ id \notin LiveCtxs
        BY <2>1, <3>1 DEF Gone
      <4>2. id # n /\ id \in 0..(ctx_cnt' - 1)
        BY <2>2, <2>3, <4>1
      <4> QED
        BY <2>6, <2>7, <4>1, <4>2 DEF Gone
    <3> QED
      BY <3>1
  <2>10. ContextIdsInv(t)'
    <3>1. ctx_cnt' \in Nat /\ ctx_cnt' <= program.max_ids
      BY <2>2, <2>3
    <3>2. "close_file" \in program.ops => LiveCtxs' \subseteq 0..(ctx_cnt' - 1)
      BY <2>2, <2>3, <2>6, <2>7, <2>8
    <3> QED
      BY <2>5, <3>1, <3>2 DEF ContextIdsInv
  <2>11. \A c \in Range(out'[t]) : c.act \notin FbRecords
    <3>1. x.act \notin FbRecords
      BY <2>5 DEF FbRecords
    <3> QED
      BY <2>5, <3>1, OtherRecords
  <2>12. \A e \in Files : rec_ctx[e] # None => rec_ctx'[e] = rec_ctx[e]
    BY <1>1, <2>3, <2>4
  <2>13. UNCHANGED <<program, repVars, kfb, crtc, gem, bos>> /\ call[t].op \in {"none", "start", "counting"}
         /\ call'[t].op \in {"none", "start", "counting", "opening"}
    BY <2>2, <2>3, <2>5 DEF kernel
  <2> QED
    BY <2>4, <2>9, <2>10, <2>11, <2>12, <2>13, OpenScreen
<1> QED
  BY <1>3, <1>4, <1>5

\* The framebuffers of the replay are those of libwrap: no record of one is left.
FbMatch ==
    /\ \A i, j \in DOMAIN fb_list : fb_list[i].addr = fb_list[j].addr => i = j
    /\ \A c \in Range(fb_list) :
         /\ c.addr \in Addrs
         /\ \A d \in Range(fb_list) : SameFb(c, d) => c = d
         /\ (\E e \in Fbs : IsOn(c, e)) \/ Gone(c.ctx_id)
    /\ \A e \in Fbs : \E c \in Range(fb_list) : IsOn(c, e) /\ c.geom = e.fb

\* When no framebuffer is about to be made or removed, the two lists match.
LEMMA MatchRest ==
  ASSUME NEW t, ReplayFbInv(t),
         \A c \in Range(Unread(t)) : c.act # "ADD_FRAMEBUFFER" /\ c.act # "DEL_FRAMEBUFFER"
  PROVE  FbMatch
BY Zenon DEF ReplayFbInv, FbMatch

\* ... and after a step too.
LEMMA MatchNext ==
  ASSUME NEW t, FbMatch',
         \A c \in Range(Unread(t)') : c.act # "ADD_FRAMEBUFFER" /\ c.act # "DEL_FRAMEBUFFER"
                                     /\ (c.act = "DISP_FRAMEBUFFER" => Len(Unread(t)') = 1)
  PROVE  ReplayFbInv(t)'
<1>1. (Range(Unread(t)))' = Range(Unread(t)') /\ FbRecords' = FbRecords
  BY DEF FbRecords
<1>2. \A c \in Range(Unread(t)') : c.act \in FbRecords => Len(Unread(t)') = 1
  BY DEF FbRecords
<1> QED
  BY <1>1, <1>2, Zenon DEF ReplayFbInv, FbMatch

\* Nothing that the match is about has changed.
LEMMA MatchSame ==
  ASSUME FbMatch, UNCHANGED <<program, rec_ctx, ctx_cnt, fb_list>>, Fbs' = Fbs
  PROVE  FbMatch'
<1>1. LiveCtxs' = LiveCtxs
  BY DEF LiveCtxs, Recorded
<1>2. /\ \A id : Gone(id)' <=> Gone(id)
      /\ \A c, e : (IsOn(c, e)' <=> IsOn(c, e)) /\ (SameFb(c, e)' <=> SameFb(c, e))
      /\ (Range(fb_list))' = Range(fb_list)
  BY <1>1 DEF Gone, IsOn, SameFb
<1> QED
  BY <1>2, Zenon DEF FbMatch

\* Nothing is left to write: what is left is what comes.
LEMMA ScreenRest ==
  ASSUME NEW t, Threads = {t}, ReplayInv(t), ReplayInv(t)', DisplayInv(t), out[t] = <<>>,
         UNCHANGED pending
  PROVE  FbMatch /\ Unread(t) = <<>> /\ Unread(t)' = out'[t]
<1>1. pending = <<>> /\ Unread(t) = <<>>
  BY NothingUnread DEF ReplayInv
<1>2. out'[t] \in Seq(Range(out'[t]))
  BY DEF ReplayInv, RecordsInv
<1>3. Unread(t)' = <<>> \o out'[t]
  BY <1>1 DEF Unread
<1>4. \A c : c \notin Range(Unread(t))
  BY <1>1, NoRecord
<1>5. FbMatch
  BY <1>4, MatchRest DEF DisplayInv
<1> QED
  BY <1>1, <1>2, <1>3, <1>5

\* What the replay displays stays.
LEMMA OnScreenSame ==
  ASSUME UNCHANGED <<fb_list, rec_ctx, displayed_fb>>, Fbs' = Fbs
  PROVE  \A b : OnScreen(b)' <=> OnScreen(b)
<1>1. (Range(fb_list))' = Range(fb_list) /\ \A c, e : IsOn(c, e)' <=> IsOn(c, e)
  BY DEF IsOn
<1> QED
  BY <1>1, Zenon DEF OnScreen

\* A step that leaves the screens alone
LEMMA ScreensSame ==
  ASSUME NEW t, ScreenInv(t), call[t].op \notin {"rmfb", "display"},
         UNCHANGED <<fb_list, rec_ctx, displayed_fb, overlay, crtc>>, Fbs' = Fbs,
         crtc # None => kfb'[crtc] # NoFb, call'[t].op # "display"
  PROVE  ScreenInv(t)'
<1>1. /\ displayed_fb # None =>
           \E c \in Range(fb_list) :
               c.addr = displayed_fb /\ overlay = [bo_id |-> c.bo_id, geom |-> c.geom]
      /\ crtc # None => crtc \in FbIds
      /\ crtc \in OtherFbs \cup {None} \/ OnScreen(crtc)
  BY DEF ScreenInv
<1>2. (Range(fb_list))' = Range(fb_list) /\ NoFb' = NoFb
  BY DEF NoFb
<1>3. OnScreen(crtc) => OnScreen(crtc)'
  BY OnScreenSame
<1> QED
  BY <1>1, <1>2, <1>3, Zenon DEF ScreenInv

\* Two framebuffers on one buffer are one.
LEMMA FbIds1 ==
  ASSUME UniqueIds(bos), NEW d \in Fbs, NEW e \in Fbs, d.id = e.id
  PROVE  d = e
<1>1. PICK f \in Files : \E i \in DOMAIN bos[f] : bos[f][i].fb_id # None /\ d = FbOf(f, bos[f][i])
  BY FbsAre DEF Fbs
<1>2. PICK i \in DOMAIN bos[f] : d = FbOf(f, bos[f][i])
  BY <1>1
<1>3. PICK g \in Files : \E j \in DOMAIN bos[g] : bos[g][j].fb_id # None /\ e = FbOf(g, bos[g][j])
  BY FbsAre DEF Fbs
<1>4. PICK j \in DOMAIN bos[g] : e = FbOf(g, bos[g][j])
  BY <1>3
<1>5. bos[f][i].id = bos[g][j].id
  BY <1>2, <1>4, FbFields
<1>6. f = g /\ i = j
  BY <1>5 DEF UniqueIds
<1> QED
  BY <1>2, <1>4, <1>6

\* host1x_file_lookup_fb finds a framebuffer, and nothing else.
LEMMA FbFound ==
  ASSUME IsTable(bos), NEW f \in Files, NEW b \in FbIds
  PROVE  /\ \A i \in file_lookup_fb(f, b) :
              i \in DOMAIN bos[f] /\ bos[f][i].fb_id = b /\ FbOf(f, bos[f][i]) \in Fbs
         /\ \A e \in Fbs : e.file = f /\ e.fb = b => file_lookup_fb(f, b) # {}
<1> DEFINE T == {i \in DOMAIN bos[f] : bos[f][i].fb_id = b}
<1>1. Len(bos[f]) \in Nat /\ DOMAIN bos[f] = 1..Len(bos[f])
  BY ListIs DEF IsTable
<1>2. b # None
  BY NoneAssumption
<1>3. ASSUME NEW i \in file_lookup_fb(f, b)
      PROVE  i \in DOMAIN bos[f] /\ bos[f][i].fb_id = b /\ FbOf(f, bos[f][i]) \in Fbs
  <2>1. i \in DOMAIN bos[f] /\ bos[f][i].fb_id = b
    BY DEF file_lookup_fb, IndexOf
  <2>2. FbOf(f, bos[f][i]) \in Fbs
    BY <1>2, <2>1, FbsAre DEF Fbs
  <2> QED
    BY <2>1, <2>2
<1>4. ASSUME NEW e \in Fbs, e.file = f, e.fb = b
      PROVE  file_lookup_fb(f, b) # {}
  <2>1. PICK g \in Files : \E i \in DOMAIN bos[g] : bos[g][i].fb_id # None /\ e = FbOf(g, bos[g][i])
    BY FbsAre DEF Fbs
  <2>2. PICK i \in DOMAIN bos[g] : e = FbOf(g, bos[g][i])
    BY <2>1
  <2>3. g = f /\ i \in T
    BY <1>4, <2>2, FbFields
  <2>4. T \in SUBSET Nat
    BY <1>1
  <2>5. PICK m \in T : \A k \in T : m <= k
    BY <2>3, <2>4, LeastNat
  <2>6. m \in 1..Len(bos[f]) /\ bos[f][m].fb_id = b
    BY <1>1, <2>5
  <2>7. \A j \in 1..(m - 1) : j \in DOMAIN bos[f] /\ ~(m <= j)
    BY <1>1, <2>6
  <2>8. \A j \in 1..(m - 1) : ~(bos[f][j].fb_id = b)
    BY <2>5, <2>7
  <2>9. m \in file_lookup_fb(f, b)
    BY <1>1, <2>6, <2>8 DEF file_lookup_fb, IndexOf
  <2> QED
    BY <2>9
<1> QED
  BY <1>3, <1>4

-----------------------------------------------------------------------------
(* Making, removing and showing a framebuffer *)

\* ADDFB: the kernel has a framebuffer more.
LEMMA AddFbScreen ==
  ASSUME NEW t, Threads = {t}, ShadowInv, ReplayInv(t), ReplayInv(t)', DisplayInv(t), program.one_fb,
         UNCHANGED <<program, repVars>>, NEW f \in Files, NEW h \in Handles, NEW b \in FbIds,
         AddFb(t, f, h, b)
  PROVE  DisplayInv(t)'
<1>1. /\ Idle(t) /\ call' = [call EXCEPT ![t] = Call("addfb", f, h, b, {h})]
      /\ gem[f][h] # None /\ kfb[b] = NoFb /\ \A c \in FbIds : kfb[c].obj # gem[f][h]
      /\ kfb' = [kfb EXCEPT ![b] = [file |-> f, obj |-> gem[f][h]]]
      /\ UNCHANGED <<gem, crtc, rec_ctx, bos, ctx_cnt, out>>
  BY Zenon DEF AddFb, Entered, shadow, recorder
<1>2. out[t] = <<>> /\ call[t].op = "none" /\ DOMAIN call = Threads
  BY <1>1, IdleIs
<1>3. call'[t].op = "addfb" /\ call'[t].file = f /\ call'[t].handle = h /\ call'[t].obj = b
  BY <1>1, <1>2, CallFields
<1>4. Fbs' = Fbs /\ KernelFbInv(t) /\ ScreenInv(t) /\ ContextIdsInv(t)
  BY <1>1, FbsUnchanged DEF DisplayInv
<1>5. UNCHANGED <<fb_list, displayed_fb, overlay, pending>>
  BY DEF repVars, lists, screen
<1>6. ReplayFbInv(t)'
  <2>1. FbMatch /\ Unread(t)' = <<>>
    BY <1>1, <1>2, <1>5, ScreenRest
  <2>2. FbMatch'
    BY <1>1, <1>4, <1>5, <2>1, MatchSame
  <2>3. \A c : c \notin Range(Unread(t)')
    BY <2>1, NoRecord
  <2> QED
    BY <2>2, <2>3, MatchNext
<1>7. PICK k : k = [file |-> f, obj |-> gem[f][h]]
  OBVIOUS
<1>8. k \in [file : Files, obj : Objs] /\ k.file = f /\ k.obj = gem[f][h] /\ k # NoFb
  <2>1. gem[f][h] \in Objs
    BY <1>1, HandlesAre
  <2>2. None \notin Files
    BY NoneAssumption
  <2>3. k \in [file : Files, obj : Objs] /\ k.file = f /\ k.obj = gem[f][h]
    BY <1>7, <2>1
  <2>4. NoFb.file = None
    BY DEF NoFb
  <2> QED
    BY <2>2, <2>3, <2>4
<1>9. /\ kfb \in [FbIds -> [file : Files, obj : Objs] \cup {NoFb}]
      /\ \A e \in Fbs :
           /\ e.file \in Files /\ e.handle \in Handles /\ e.fb \in FbIds
           /\ kfb[e.fb] = [file |-> e.file, obj |-> gem[e.file][e.handle]]
           /\ \A d \in Fbs : d.fb = e.fb => d = e
      /\ \A c \in FbIds : kfb[c] # NoFb => c \in OtherFbs \/ \E e \in Fbs : e.fb = c
  BY <1>2, <1>4 DEF KernelFbInv
<1>10. kfb' \in [FbIds -> [file : Files, obj : Objs] \cup {NoFb}]
       /\ kfb'[b] = k /\ \A c \in FbIds : c # b => kfb'[c] = kfb[c]
  BY <1>1, <1>7, <1>8, <1>9
<1>11. \A e \in Fbs : e.fb # b /\ e.fb \in FbIds /\ kfb[e.fb].obj = gem[e.file][e.handle]
  BY <1>1, <1>4, FbBacked
<1>12. \A e \in Fbs : e.file = f => e.handle # h
  BY <1>1, <1>11
<1>13. KernelFbInv(t)'
  <2>1. \A e \in Fbs : kfb'[e.fb] = [file |-> e.file, obj |-> gem[e.file][e.handle]]
    BY <1>9, <1>10, <1>11
  <2>2. NoFb' = NoFb /\ gem' = gem
    BY <1>1 DEF NoFb
  <2>3. /\ call'[t].op \notin {"close", "rmfb", "display"}
        /\ kfb'[call'[t].obj].file = call'[t].file
        /\ kfb'[call'[t].obj].obj = gem[call'[t].file][call'[t].handle]
        /\ \A e \in Fbs : e.file = call'[t].file => e.handle # call'[t].handle
        /\ \A e \in Fbs : call'[t].obj # e.fb
        /\ call'[t].file \in Files /\ call'[t].obj \in FbIds /\ call'[t].handle \in Handles
    BY <1>3, <1>8, <1>10, <1>11, <1>12
  <2>4. \A c \in FbIds : kfb'[c] # NoFb => (call'[t].op = "addfb" /\ call'[t].obj = c) \/ c \in OtherFbs \/ \E e \in Fbs : e.fb = c
    BY <1>3, <1>9, <1>10
  <2> HIDE DEF KernelFbInv
  <2> QED
    BY ONLY <1>4, <1>9, <1>10, <2>1, <2>2, <2>3, <2>4, Zenon DEF KernelFbInv
<1>14. ContextIdsInv(t)'
  <2>1. LiveCtxs' = LiveCtxs
    BY <1>1 DEF LiveCtxs, Recorded
  <2> QED
    BY <1>1, <1>3, <1>4, <2>1 DEF ContextIdsInv
<1>15. ScreenInv(t)'
  <2>1. crtc # None => kfb'[crtc] # NoFb
    BY <1>1, <1>4, <1>8, <1>10 DEF ScreenInv
  <2> QED
    BY <1>1, <1>2, <1>3, <1>4, <1>5, <2>1, ScreensSame
<1>16. ShowsInv(t)'
  BY <1>1, <1>2, NoRecord DEF ShowsInv
<1> QED
  BY <1>6, <1>13, <1>14, <1>15, <1>16 DEF DisplayInv

\* One entry is edited: its framebuffer is another, or none.
LEMMA FbsEdited ==
  ASSUME IsTable(bos), UniqueIds(bos), NEW f \in Files, NEW i \in DOMAIN bos[f], NEW a, a = bos[f][i],
         NEW r, r.id = a.id, bos' = WithEntry(bos, f, i, r), NEW n, n = FbOf(f, r)
  PROVE  /\ \A e \in Fbs : e.id = a.id => a.fb_id # None /\ e = FbOf(f, a)
         /\ \A e \in Fbs : e.id # a.id => e \in Fbs'
         /\ \A e \in Fbs' : (e \in Fbs /\ e.id # a.id) \/ (r.fb_id # None /\ e = n)
         /\ r.fb_id # None => n \in Fbs'
<1>1. /\ bos'[f][i] = r /\ UniqueIds(bos')
      /\ \A e \in Files : DOMAIN bos'[e] = DOMAIN bos[e]
      /\ \A e \in Files : \A k \in DOMAIN bos[e] : e # f \/ k # i => bos'[e][k] = bos[e][k]
  <2>1. PICK T, U : T = bos /\ U = bos'
    OBVIOUS
  <2>2. IsTable(T) /\ UniqueIds(T) /\ i \in DOMAIN T[f] /\ r.id = T[f][i].id /\ U = WithEntry(T, f, i, r)
    BY <2>1
  <2> QED
    BY ONLY f \in Files, <2>1, <2>2, EditedEntries
<1>2. ASSUME NEW e \in Fbs
      PROVE  /\ e.id = a.id => a.fb_id # None /\ e = FbOf(f, a)
             /\ e.id # a.id => e \in Fbs'
  <2>1. PICK g \in Files : \E k \in DOMAIN bos[g] : bos[g][k].fb_id # None /\ e = FbOf(g, bos[g][k])
    BY FbsAre DEF Fbs
  <2>2. PICK k \in DOMAIN bos[g] : bos[g][k].fb_id # None /\ e = FbOf(g, bos[g][k])
    BY <2>1
  <2>3. e.id = bos[g][k].id
    BY <2>2, FbFields
  <2>4. ASSUME e.id = a.id
        PROVE  g = f /\ k = i
    <3>1. bos[g][k].id = bos[f][i].id
      BY <2>3, <2>4
    <3> QED
      BY ONLY UniqueIds(bos), f \in Files, g \in Files, i \in DOMAIN bos[f], k \in DOMAIN bos[g], <3>1
         DEF UniqueIds
  <2>5. ASSUME e.id # a.id
        PROVE  e \in Fbs'
    <3>1. bos'[g][k] = bos[g][k] /\ k \in DOMAIN bos'[g]
      BY <1>1, <2>3, <2>5
    <3> QED
      BY <2>2, <3>1, FbsAre DEF Fbs
  <2> QED
    BY <2>2, <2>4, <2>5
<1>3. ASSUME NEW e \in Fbs'
      PROVE  (e \in Fbs /\ e.id # a.id) \/ (r.fb_id # None /\ e = n)
  <2>1. PICK g \in Files : \E k \in DOMAIN bos'[g] : bos'[g][k].fb_id # None /\ e = FbOf(g, bos'[g][k])
    BY FbsAre DEF Fbs
  <2>2. PICK k \in DOMAIN bos'[g] : bos'[g][k].fb_id # None /\ e = FbOf(g, bos'[g][k])
    BY <2>1
  <2>3. CASE g = f /\ k = i
    BY <1>1, <2>2, <2>3
  <2>4. CASE g # f \/ k # i
    <3>1. bos'[g][k] = bos[g][k] /\ k \in DOMAIN bos[g]
      BY <1>1, <2>4
    <3>2. e \in Fbs
      BY <2>2, <3>1, FbsAre DEF Fbs
    <3>3. e.id = bos[g][k].id
      BY <2>2, <3>1, FbFields
    <3>4. e.id # a.id
      BY <2>4, <3>1, <3>3 DEF UniqueIds
    <3> QED
      BY <3>2, <3>4
  <2> QED
    BY <2>3, <2>4
<1>4. ASSUME r.fb_id # None
      PROVE  n \in Fbs'
  <2>1. i \in DOMAIN bos'[f]
    BY <1>1
  <2> QED
    BY <1>1, <1>4, <2>1, FbsAre DEF Fbs
<1> QED
  BY <1>2, <1>3, <1>4

\* What is left of the invariant of the kernel's framebuffers between calls
LEMMA KernelRest ==
  ASSUME NEW t, call'[t].op \notin {"addfb", "rmfb", "display", "close"},
         kfb' \in [FbIds -> [file : Files, obj : Objs] \cup {NoFb}],
         \A e \in Fbs' :
           /\ e.file \in Files /\ e.handle \in Handles /\ e.fb \in FbIds
           /\ kfb'[e.fb] = [file |-> e.file, obj |-> gem'[e.file][e.handle]]
           /\ \A d \in Fbs' : d.fb = e.fb => d = e,
         \A b \in FbIds : kfb'[b] # NoFb => b \in OtherFbs \/ \E e \in Fbs' : e.fb = b
  PROVE  KernelFbInv(t)'
<1>1. NoFb' = NoFb
  BY DEF NoFb
<1> QED
  BY <1>1, Zenon DEF KernelFbInv

\* KernelFbInv, with the facts about framebuffers apart from those about the call
LEMMA KernelIs ==
  ASSUME NEW t, KernelFbInv(t)
  PROVE  /\ kfb \in [FbIds -> [file : Files, obj : Objs] \cup {NoFb}]
         /\ \A e \in Fbs :
              /\ e.file \in Files /\ e.handle \in Handles /\ e.fb \in FbIds
              /\ kfb[e.fb] = [file |-> e.file, obj |-> gem[e.file][e.handle]]
              /\ call[t].op \in {"addfb", "rmfb"} => call[t].obj # e.fb
              /\ \A d \in Fbs : d.fb = e.fb => d = e
         /\ \A b \in FbIds : kfb[b] # NoFb =>
              (call[t].op \in {"addfb", "rmfb"} /\ call[t].obj = b) \/ b \in OtherFbs \/ \E e \in Fbs : e.fb = b
         /\ \A b \in FbIds : kfb[b].file \in Files =>
              kfb[b] # NoFb /\ kfb[b] = [file |-> kfb[b].file, obj |-> kfb[b].obj]
<1>1. kfb \in [FbIds -> [file : Files, obj : Objs] \cup {NoFb}]
  BY DEF KernelFbInv
<1>2. NoFb.file = None /\ None \notin Files
  BY NoneAssumption DEF NoFb
<1>3. ASSUME NEW b \in FbIds, kfb[b].file \in Files
      PROVE  kfb[b] # NoFb /\ kfb[b] = [file |-> kfb[b].file, obj |-> kfb[b].obj]
  <2>1. kfb[b] # NoFb
    BY <1>2, <1>3
  <2>2. kfb[b] \in [file : Files, obj : Objs]
    BY <1>1, <2>1
  <2> QED
    BY <2>1, <2>2
<1>4. /\ \A e \in Fbs :
           /\ e.file \in Files /\ e.handle \in Handles /\ e.fb \in FbIds
           /\ kfb[e.fb] = [file |-> e.file, obj |-> gem[e.file][e.handle]]
           /\ call[t].op \in {"addfb", "rmfb"} => call[t].obj # e.fb
           /\ \A d \in Fbs : d.fb = e.fb => d = e
      /\ \A b \in FbIds : kfb[b] # NoFb =>
           (call[t].op \in {"addfb", "rmfb"} /\ call[t].obj = b) \/ b \in OtherFbs \/ \E e \in Fbs : e.fb = b
  BY Zenon DEF KernelFbInv
<1> QED
  BY <1>1, <1>3, <1>4

\* record_add_framebuffer: libwrap knows of the kernel's new framebuffer, the replay is
\* about to.
LEMMA AddFbLeaveScreen ==
  ASSUME NEW t, Threads = {t}, ReplayInv(t), ReplayInv(t)', DisplayInv(t), UNCHANGED <<program, repVars>>,
         AddFbLeave(t)
  PROVE  DisplayInv(t)'
<1>1. PICK f, b, h : f = call[t].file /\ b = call[t].obj /\ h = call[t].handle
  OBVIOUS
<1>2. call[t].op = "addfb" /\ out[t] = <<>> /\ f \in Files /\ DOMAIN call = Threads
  <2>1. Hook(t, "addfb")
    BY Zenon DEF AddFbLeave
  <2> QED
    BY <1>1, <2>1, FileOfCall
<1>3. /\ IsTable(bos) /\ UniqueIds(bos) /\ DOMAIN out = Threads
      /\ \A e \in Files : \A k \in DOMAIN bos[e] : bos[e][k] = [x \in BoFields |-> bos[e][k][x]]
  BY TablesAre DEF ReplayInv, RecordsInv
<1>4. /\ b \in FbIds /\ h \in Handles /\ kfb[b].file = f /\ kfb[b].obj = gem[f][h]
      /\ \A e \in Fbs : e.file = f => e.handle # h
  BY <1>1, <1>2 DEF DisplayInv, KernelFbInv
<1>5. KernelFbInv(t) /\ ScreenInv(t) /\ ContextIdsInv(t)
  BY DEF DisplayInv
<1>6. CASE Abort("invalid handle")
  BY <1>6, AbortScreen, Zenon
<1>7. ASSUME NEW i \in file_lookup_bo(f, h),
             bos' = [bos EXCEPT ![f][i].fb_id = b, ![f][i].is_framebuffer = TRUE],
             Finish(t, <<FbRec("ADD_FRAMEBUFFER", bos[f][i], rec_ctx[f], b)>>),
             UNCHANGED <<kernel, rec_ctx, ctx_cnt>>
      PROVE  DisplayInv(t)'
  <2>1. i \in DOMAIN bos[f] /\ bos[f][i].handle = h
    BY <1>7 DEF file_lookup_bo, IndexOf
  <2>2. PICK a, r, x : /\ a = bos[f][i] /\ r = [[a EXCEPT !.fb_id = b] EXCEPT !.is_framebuffer = TRUE]
                       /\ x = FbRec("ADD_FRAMEBUFFER", a, rec_ctx[f], b)
    OBVIOUS
  <2>3. bos' = WithEntry(bos, f, i, r)
    BY <1>2, <1>3, <1>7, <2>1, <2>2 DEF WithEntry, IsTable
  <2>4. r.id = a.id /\ r.handle = h /\ r.fb_id = b
    <3>1. a = [y \in BoFields |-> a[y]]
      BY <1>2, <1>3, <2>1, <2>2
    <3>2. r.handle = a.handle
      BY ONLY <2>2, <3>1, KeepsHandle
    <3>3. r.id = a.id /\ r.fb_id = b
      BY ONLY <2>2, <3>1 DEF BoFields
    <3> QED
      BY <2>1, <2>2, <3>2, <3>3
  <2>5. b # None /\ a.fb_id = None
    <3>1. b # None
      BY <1>4, NoneAssumption
    <3>2. ASSUME a.fb_id # None
          PROVE  FALSE
      <4>1. PICK e : e = FbOf(f, a)
        OBVIOUS
      <4>2. e \in Fbs
        BY <1>2, <2>1, <2>2, <3>2, <4>1, FbsAre DEF Fbs
      <4>3. e.file = f /\ e.handle = h
        BY <2>1, <2>2, <4>1, FbFields
      <4> QED
        BY <1>4, <4>2, <4>3
    <3> QED
      BY <3>1, <3>2
  <2>6. PICK n : n = FbOf(f, r)
    OBVIOUS
  <2>7. n.file = f /\ n.handle = h /\ n.id = a.id /\ n.fb = b
    BY <2>4, <2>6, FbFields
  <2>8. /\ \A e \in Fbs : e.id # a.id /\ e \in Fbs'
        /\ \A e \in Fbs' : e \in Fbs \/ e = n
        /\ n \in Fbs'
    <3>1. /\ \A e \in Fbs : e.id = a.id => a.fb_id # None /\ e = FbOf(f, a)
          /\ \A e \in Fbs : e.id # a.id => e \in Fbs'
          /\ \A e \in Fbs' : (e \in Fbs /\ e.id # a.id) \/ (r.fb_id # None /\ e = n)
          /\ r.fb_id # None => n \in Fbs'
      <4>1. a = bos[f][i]
        BY <2>2
      <4> QED
        BY ONLY <1>2, <1>3, <2>1, <4>1, <2>3, <2>4, <2>6, FbsEdited
    <3> QED
      BY <2>4, <2>5, <3>1
  <2>9. x.act = "ADD_FRAMEBUFFER" /\ x.bo_id = a.id /\ x.ctx_id = rec_ctx[f] /\ x.geom = b
    BY <2>2 DEF FbRec
  <2>10. call'[t].op \in {"none", "return"} /\ out'[t] = <<x>>
    BY <1>1, <1>2, <1>3, <1>7, <2>2, FinishIs
  <2>11. UNCHANGED <<gem, kfb, crtc, rec_ctx, ctx_cnt, fb_list, displayed_fb, overlay, pending>>
    BY <1>7 DEF kernel, repVars, lists, screen
  <2>12. f \in Recorded /\ rec_ctx[f] \in LiveCtxs /\ LiveCtxs' = LiveCtxs
    <3>1. f \in Recorded
      <4>1. bos[f] # <<>>
        BY <2>1
      <4> QED
        BY <1>2, <4>1, RecordedEnabled
    <3> QED
      BY <2>11, <3>1 DEF LiveCtxs, Recorded
  <2>13. KernelFbInv(t)'
    <3>1. PICK F, G : F = Fbs /\ G = Fbs'
      OBVIOUS
    <3>2. /\ kfb \in [FbIds -> [file : Files, obj : Objs] \cup {NoFb}]
          /\ \A e \in F :
               /\ e.file \in Files /\ e.handle \in Handles /\ e.fb \in FbIds
               /\ kfb[e.fb] = [file |-> e.file, obj |-> gem[e.file][e.handle]]
               /\ b # e.fb
               /\ \A d \in F : d.fb = e.fb => d = e
          /\ \A c \in FbIds : kfb[c] # NoFb => b = c \/ c \in OtherFbs \/ \E e \in F : e.fb = c
          /\ kfb[b] = [file |-> f, obj |-> gem[f][h]]
      BY <1>1, <1>2, <1>4, <1>5, <3>1, KernelIs
    <3>3. (\A e \in F : e \in G) /\ (\A e \in G : e \in F \/ e = n) /\ n \in G
      BY <2>8, <3>1
    <3>4. ASSUME NEW e \in G
          PROVE  /\ e.file \in Files /\ e.handle \in Handles /\ e.fb \in FbIds
                 /\ kfb[e.fb] = [file |-> e.file, obj |-> gem[e.file][e.handle]]
                 /\ \A d \in G : d.fb = e.fb => d = e
      BY ONLY <1>2, <1>4, <2>7, <3>2, <3>3, <3>4
    <3>5. ASSUME NEW c \in FbIds, kfb[c] # NoFb
          PROVE  c \in OtherFbs \/ \E e \in G : e.fb = c
      BY <2>7, <3>2, <3>3, <3>5
    <3> QED
      BY <2>10, <2>11, <3>1, <3>2, <3>4, <3>5, KernelRest
  <2>14. ContextIdsInv(t)'
    BY <1>5, <2>10, <2>11, <2>12 DEF ContextIdsInv
  <2>15. ReplayFbInv(t)'
    <3>1. FbMatch /\ Unread(t)' = <<x>>
      BY <1>2, <2>10, <2>11, ScreenRest
    <3>2. /\ \A c, e : (IsOn(c, e)' <=> IsOn(c, e)) /\ (SameFb(c, e)' <=> SameFb(c, e))
          /\ \A id : Gone(id)' <=> Gone(id)
      BY <2>11, <2>12 DEF IsOn, SameFb, Gone
    <3>3. Range(Unread(t)') = {x} /\ Len(Unread(t)') = 1
      BY <3>1, OneRecord
    <3>4. /\ \A j, k \in DOMAIN fb_list : fb_list[j].addr = fb_list[k].addr => j = k
          /\ \A c \in Range(fb_list) :
               /\ c.addr \in Addrs
               /\ \A d \in Range(fb_list) : SameFb(c, d) => c = d
               /\ (\E e \in Fbs' : IsOn(c, e)) \/ Gone(c.ctx_id)
          /\ \A e \in Fbs : \E c \in Range(fb_list) : IsOn(c, e) /\ c.geom = e.fb
      BY <2>8, <3>1 DEF FbMatch
    <3>5. IsOn(x, n)
      BY <2>7, <2>9 DEF IsOn
    <3>6. ASSUME NEW d \in Range(fb_list)
          PROVE  ~SameFb(x, d)
      <4>1. (\E e \in Fbs : IsOn(d, e)) \/ Gone(d.ctx_id)
        BY <3>1 DEF FbMatch
      <4>2. ASSUME NEW e \in Fbs, IsOn(d, e)
            PROVE  d.bo_id # x.bo_id
        BY <2>8, <2>9, <4>2 DEF IsOn
      <4>3. ASSUME Gone(d.ctx_id)
            PROVE  d.ctx_id # x.ctx_id
        BY <2>9, <2>12, <4>3 DEF Gone
      <4> QED
        BY <4>1, <4>2, <4>3 DEF SameFb
    <3>7. /\ (Range(fb_list))' = Range(fb_list) /\ DOMAIN fb_list' = DOMAIN fb_list
          /\ (Range(Unread(t)))' = {x} /\ Len(Unread(t))' = 1
      BY <2>11, <3>3
    <3>8. \A e \in Fbs' : (\E c \in Range(fb_list) : IsOn(c, e) /\ c.geom = e.fb)
                          \/ (IsOn(x, e) /\ x.geom = e.fb)
      BY <2>7, <2>8, <2>9, <3>4, <3>5
    <3>9. x.act # "DEL_FRAMEBUFFER" /\ \E e \in Fbs' : IsOn(x, e)
      BY <2>8, <2>9, <3>5
    <3> QED
      BY ONLY <2>9, <2>11, <3>2, <3>4, <3>6, <3>7, <3>8, <3>9, Zenon DEF ReplayFbInv
  <2>16. ScreenInv(t)'
    <3>1. \A c, e : IsOn(c, e)' <=> IsOn(c, e)
      BY <2>11 DEF IsOn
    <3>2. (Range(fb_list))' = Range(fb_list) /\ NoFb' = NoFb /\ call'[t].op \notin {"display", "rmfb"}
      BY <2>10, <2>11 DEF NoFb
    <3>3. /\ displayed_fb # None =>
               \E c \in Range(fb_list) :
                   c.addr = displayed_fb /\ overlay = [bo_id |-> c.bo_id, geom |-> c.geom]
          /\ crtc # None => crtc \in FbIds /\ kfb[crtc] # NoFb
          /\ crtc \in OtherFbs \cup {None} \/ OnScreen(crtc)
      BY <1>2, <1>5 DEF ScreenInv
    <3>4. OnScreen(crtc) => OnScreen(crtc)'
      BY <2>8, <2>11, <3>1, <3>2, Zenon DEF OnScreen
    <3> QED
      BY ONLY <2>11, <3>2, <3>3, <3>4, Zenon DEF ScreenInv
  <2>17. ShowsInv(t)'
    <3>1. \A c \in Range(out'[t]) : c = x
      BY <2>10, OneRecord
    <3> QED
      BY <2>9, <3>1 DEF ShowsInv
  <2> QED
    BY <2>13, <2>14, <2>15, <2>16, <2>17 DEF DisplayInv
<1>9. CASE b \in OtherFbs /\ Finish(t, <<>>) /\ UNCHANGED <<kernel, shadow, ctx_cnt>>
  <2>1. call'[t].op \in {"none", "return"} /\ out'[t] = <<>>
    BY <1>1, <1>2, <1>3, <1>9, FinishIs
  <2>2. /\ UNCHANGED <<gem, kfb, crtc, rec_ctx, ctx_cnt, fb_list, displayed_fb, overlay, pending>>
        /\ Fbs' = Fbs
    BY <1>9, FbsUnchanged DEF kernel, shadow, repVars, lists, screen
  <2>3. KernelFbInv(t)'
    <3>1. /\ kfb \in [FbIds -> [file : Files, obj : Objs] \cup {NoFb}]
          /\ \A e \in Fbs :
               /\ e.file \in Files /\ e.handle \in Handles /\ e.fb \in FbIds
               /\ kfb[e.fb] = [file |-> e.file, obj |-> gem[e.file][e.handle]]
               /\ \A d \in Fbs : d.fb = e.fb => d = e
          /\ \A c \in FbIds : kfb[c] # NoFb => b = c \/ c \in OtherFbs \/ \E e \in Fbs : e.fb = c
      BY <1>1, <1>2, <1>5, KernelIs
    <3>2. \A c \in FbIds : kfb[c] # NoFb => c \in OtherFbs \/ \E e \in Fbs : e.fb = c
      BY <1>9, <3>1
    <3> QED
      BY <2>1, <2>2, <3>1, <3>2, KernelRest
  <2>4. ContextIdsInv(t)'
    <3>1. LiveCtxs' = LiveCtxs
      BY <2>2 DEF LiveCtxs, Recorded
    <3> QED
      BY <1>5, <2>1, <2>2, <3>1 DEF ContextIdsInv
  <2>5. ReplayFbInv(t)'
    <3>1. FbMatch /\ Unread(t)' = <<>>
      BY <1>2, <2>1, <2>2, ScreenRest
    <3>2. FbMatch'
      BY <2>2, <3>1, MatchSame
    <3>3. \A c : c \notin Range(Unread(t)')
      BY <3>1, NoRecord
    <3> QED
      BY <3>2, <3>3, MatchNext
  <2>6. ScreenInv(t)'
    <3>1. crtc # None => kfb'[crtc] # NoFb
      BY <1>5, <2>2 DEF ScreenInv
    <3> QED
      BY <1>2, <1>5, <2>1, <2>2, <3>1, ScreensSame
  <2>7. ShowsInv(t)'
    BY <2>1, NoRecord DEF ShowsInv
  <2> QED
    BY <2>3, <2>4, <2>5, <2>6, <2>7 DEF DisplayInv
<1>8. \/ Abort("invalid handle")
      \/ b \in OtherFbs /\ Finish(t, <<>>) /\ UNCHANGED <<kernel, shadow, ctx_cnt>>
      \/ \E i \in file_lookup_bo(f, h) :
           /\ bos' = [bos EXCEPT ![f][i].fb_id = b, ![f][i].is_framebuffer = TRUE]
           /\ Finish(t, <<FbRec("ADD_FRAMEBUFFER", bos[f][i], rec_ctx[f], b)>>)
           /\ UNCHANGED <<kernel, rec_ctx, ctx_cnt>>
  BY <1>1, Zenon DEF AddFbLeave
<1> QED
  BY <1>6, <1>7, <1>8, <1>9, Zenon

\* A framebuffer the kernel has is found between calls, if it is recorded.
LEMMA FbListed ==
  ASSUME NEW t, ReplayInv(t), KernelFbInv(t), call[t].op = "none",
         NEW f \in Files, NEW b \in FbIds, kfb[b].file = f
  PROVE  b \in OtherFbs \/ file_lookup_fb(f, b) # {}
<1>1. kfb[b] # NoFb
  BY KernelIs
<1>2. b \in OtherFbs \/ \E e \in Fbs : e.fb = b
  BY <1>1, KernelIs
<1>3. ASSUME NEW e \in Fbs, e.fb = b
      PROVE  file_lookup_fb(f, b) # {}
  <2>1. e.file = f
    BY <1>3, FbBacked
  <2>2. IsTable(bos)
    BY TablesAre
  <2> QED
    BY <1>3, <2>1, <2>2, FbFound
<1> QED
  BY <1>2, <1>3

\* RMFB of a framebuffer that libwrap does not know: nothing is recorded.
LEMMA RmOtherScreen ==
  ASSUME NEW t, Threads = {t}, ReplayInv(t), ReplayInv(t)', DisplayInv(t), UNCHANGED <<program, repVars>>,
         NEW f \in Files, NEW b \in FbIds, RmFb(t, f, b), file_lookup_fb(f, b) = {}
  PROVE  DisplayInv(t)'
<1>1. /\ Idle(t) /\ kfb[b].file = f /\ call' = [call EXCEPT ![t] = Call("rmfb", f, None, b, {})]
      /\ Write(t, <<>>) /\ UNCHANGED <<kernel, rec_ctx, bos, ctx_cnt>>
  BY Zenon DEF RmFb
<1>2. out[t] = <<>> /\ call[t].op = "none" /\ DOMAIN call = Threads
  BY <1>1, IdleIs
<1>3. IsTable(bos) /\ DOMAIN out = Threads
  BY TablesAre DEF ReplayInv, RecordsInv
<1>4. KernelFbInv(t) /\ ScreenInv(t) /\ ContextIdsInv(t)
  BY DEF DisplayInv
<1>5. b \in OtherFbs
  BY <1>1, <1>2, <1>4, FbListed
<1>6. \A e \in Fbs : e.fb # b
  <2>1. ASSUME NEW e \in Fbs, e.fb = b
        PROVE  FALSE
    <3>1. e.file = f
      BY <1>1, <1>4, <2>1, FbBacked
    <3> QED
      BY <1>3, <2>1, <3>1, FbFound
  <2> QED
    BY <2>1
<1>7. out'[t] = <<>>
  BY <1>1, <1>3 DEF Write
<1>8. call'[t].op = "rmfb" /\ call'[t].file = f /\ call'[t].obj = b
  BY <1>1, <1>2, CallFields
<1>9. /\ UNCHANGED <<gem, kfb, crtc, rec_ctx, ctx_cnt, fb_list, displayed_fb, overlay, pending>>
      /\ Fbs' = Fbs
  BY <1>1, FbsUnchanged DEF kernel, repVars, lists, screen
<1>10. KernelFbInv(t)'
  <2>1. /\ kfb \in [FbIds -> [file : Files, obj : Objs] \cup {NoFb}]
        /\ \A e \in Fbs :
             /\ e.file \in Files /\ e.handle \in Handles /\ e.fb \in FbIds
             /\ kfb[e.fb] = [file |-> e.file, obj |-> gem[e.file][e.handle]]
             /\ \A d \in Fbs : d.fb = e.fb => d = e
        /\ \A c \in FbIds : kfb[c] # NoFb => c \in OtherFbs \/ \E e \in Fbs : e.fb = c
    BY <1>2, <1>4, KernelIs
  <2>2. NoFb' = NoFb /\ kfb[b].file = f
    BY <1>1 DEF NoFb
  <2>3. /\ call'[t].op \notin {"addfb", "close", "display"} /\ call'[t].file \in Files
        /\ call'[t].obj \in FbIds /\ kfb[call'[t].obj].file = call'[t].file
        /\ \A e \in Fbs : call'[t].obj # e.fb
    BY ONLY f \in Files, b \in FbIds, <1>6, <1>8, <2>2
  <2> QED
    BY ONLY <1>9, <2>1, <2>2, <2>3, Zenon DEF KernelFbInv
<1>11. ContextIdsInv(t)'
  <2>1. LiveCtxs' = LiveCtxs
    BY <1>9 DEF LiveCtxs, Recorded
  <2> QED
    BY <1>4, <1>8, <1>9, <2>1 DEF ContextIdsInv
<1>12. ReplayFbInv(t)'
  <2>1. FbMatch /\ Unread(t)' = <<>>
    BY <1>2, <1>7, <1>9, ScreenRest
  <2>2. FbMatch'
    BY <1>9, <2>1, MatchSame
  <2>3. \A c : c \notin Range(Unread(t)')
    BY <2>1, NoRecord
  <2> QED
    BY <2>2, <2>3, MatchNext
<1>13. ScreenInv(t)'
  <2>1. crtc # None => kfb'[crtc] # NoFb
    BY <1>4, <1>9 DEF ScreenInv
  <2>2. call[t].op \notin {"rmfb", "display"} /\ call'[t].op # "display"
    BY <1>2, <1>8
  <2> QED
    BY <1>4, <1>9, <2>1, <2>2, ScreensSame
<1>14. ShowsInv(t)'
  BY <1>7, NoRecord DEF ShowsInv
<1> QED
  BY <1>10, <1>11, <1>12, <1>13, <1>14 DEF DisplayInv

\* record_del_framebuffer: libwrap forgets the framebuffer, the replay is about to.
LEMMA RmFbScreen ==
  ASSUME NEW t, Threads = {t}, ReplayInv(t), ReplayInv(t)', DisplayInv(t), UNCHANGED <<program, repVars>>,
         NEW f \in Files, NEW b \in FbIds, RmFb(t, f, b), file_lookup_fb(f, b) # {}
  PROVE  DisplayInv(t)'
<1>1. Idle(t) /\ kfb[b].file = f /\ call' = [call EXCEPT ![t] = Call("rmfb", f, None, b, {})]
      /\ UNCHANGED <<kernel, rec_ctx, ctx_cnt>>
  BY Zenon DEF RmFb
<1>2. out[t] = <<>> /\ call[t].op = "none" /\ DOMAIN call = Threads
  BY <1>1, IdleIs
<1>3. /\ IsTable(bos) /\ UniqueIds(bos) /\ DOMAIN out = Threads
      /\ \A e \in Files : \A k \in DOMAIN bos[e] : bos[e][k] = [x \in BoFields |-> bos[e][k][x]]
  BY TablesAre DEF ReplayInv, RecordsInv
<1>4. KernelFbInv(t) /\ ScreenInv(t) /\ ContextIdsInv(t)
  BY DEF DisplayInv
<1>6. PICK i \in file_lookup_fb(f, b) :
        /\ bos' = [bos EXCEPT ![f][i] = NoFramebuffer(@)]
        /\ Write(t, <<FbRec("DEL_FRAMEBUFFER", bos[f][i], rec_ctx[f], b)>>)
  BY Zenon DEF RmFb
<1>7. i \in DOMAIN bos[f] /\ bos[f][i].fb_id = b /\ FbOf(f, bos[f][i]) \in Fbs
  BY <1>3, FbFound
<1>8. PICK a, r, x, m : /\ a = bos[f][i] /\ r = NoFramebuffer(a) /\ m = FbOf(f, a)
                        /\ x = FbRec("DEL_FRAMEBUFFER", a, rec_ctx[f], b)
  OBVIOUS
<1>9. bos' = WithEntry(bos, f, i, r)
  BY <1>3, <1>6, <1>7, <1>8 DEF WithEntry, IsTable
<1>10. r.id = a.id /\ r.fb_id = None
  <2>1. a = [y \in BoFields |-> a[y]]
    BY <1>3, <1>7, <1>8
  <2> QED
    BY ONLY <1>8, <2>1 DEF NoFramebuffer, BoFields
<1>11. m.file = f /\ m.id = a.id /\ m.fb = b /\ m \in Fbs
  BY <1>7, <1>8, FbFields
<1>12. /\ \A e \in Fbs : e.id = a.id => e = m
       /\ \A e \in Fbs : e = m \/ e \in Fbs'
       /\ \A e \in Fbs' : e \in Fbs /\ e.id # a.id
  <2>1. PICK n : n = FbOf(f, r)
    OBVIOUS
  <2>2. a = bos[f][i]
    BY <1>8
  <2>3. /\ \A e \in Fbs : e.id = a.id => a.fb_id # None /\ e = FbOf(f, a)
        /\ \A e \in Fbs : e.id # a.id => e \in Fbs'
        /\ \A e \in Fbs' : (e \in Fbs /\ e.id # a.id) \/ (r.fb_id # None /\ e = n)
        /\ r.fb_id # None => n \in Fbs'
    BY ONLY f \in Files, <1>3, <1>7, <1>9, <1>10, <2>1, <2>2, FbsEdited
  <2> QED
    BY <1>8, <1>10, <2>3
<1>13. x.act = "DEL_FRAMEBUFFER" /\ x.bo_id = a.id /\ x.ctx_id = rec_ctx[f]
  BY <1>8 DEF FbRec
<1>14. out'[t] = <<x>>
  BY <1>3, <1>6, <1>8 DEF Write
<1>15. call'[t].op = "rmfb" /\ call'[t].file = f /\ call'[t].obj = b
  BY <1>1, <1>2, CallFields
<1>16. UNCHANGED <<gem, kfb, crtc, rec_ctx, ctx_cnt, fb_list, displayed_fb, overlay, pending>>
  BY <1>1 DEF kernel, repVars, lists, screen
<1>17. LiveCtxs' = LiveCtxs
  BY <1>16 DEF LiveCtxs, Recorded
<1>18. KernelFbInv(t)'
  <2>1. /\ kfb \in [FbIds -> [file : Files, obj : Objs] \cup {NoFb}]
        /\ \A e \in Fbs :
             /\ e.file \in Files /\ e.handle \in Handles /\ e.fb \in FbIds
             /\ kfb[e.fb] = [file |-> e.file, obj |-> gem[e.file][e.handle]]
             /\ \A d \in Fbs : d.fb = e.fb => d = e
        /\ \A c \in FbIds : kfb[c] # NoFb => c \in OtherFbs \/ \E e \in Fbs : e.fb = c
    BY <1>2, <1>4, KernelIs
  <2>2. \A e \in Fbs' : e.fb # b
    BY <1>11, <1>12, <2>1
  <2>3. \A c \in FbIds : kfb[c] # NoFb => b = c \/ c \in OtherFbs \/ \E e \in Fbs' : e.fb = c
    BY <1>11, <1>12, <2>1
  <2>4. NoFb' = NoFb /\ kfb[b].file = f /\ \A e \in Fbs' : e \in Fbs
    BY <1>1, <1>12 DEF NoFb
  <2>5. /\ call'[t].op \notin {"addfb", "close", "display"} /\ call'[t].file \in Files /\ call'[t].obj \in FbIds
        /\ kfb[call'[t].obj].file = call'[t].file
        /\ \A e \in Fbs' : call'[t].obj # e.fb
        /\ \A c \in FbIds : kfb[c] # NoFb =>
             (call'[t].op = "rmfb" /\ call'[t].obj = c) \/ c \in OtherFbs \/ \E e \in Fbs' : e.fb = c
    BY ONLY f \in Files, b \in FbIds, <1>15, <2>2, <2>3, <2>4
  <2> QED
    BY ONLY <1>16, <2>1, <2>4, <2>5, Zenon DEF KernelFbInv
<1>19. ContextIdsInv(t)'
  BY <1>4, <1>15, <1>16, <1>17 DEF ContextIdsInv
<1>20. /\ \A c, e : (IsOn(c, e)' <=> IsOn(c, e)) /\ (SameFb(c, e)' <=> SameFb(c, e))
       /\ \A id : Gone(id)' <=> Gone(id)
       /\ (Range(fb_list))' = Range(fb_list) /\ DOMAIN fb_list' = DOMAIN fb_list
  BY <1>16, <1>17 DEF IsOn, SameFb, Gone
<1>21. ReplayFbInv(t)'
  <2>1. FbMatch /\ Unread(t)' = <<x>>
    BY <1>2, <1>14, <1>16, ScreenRest
  <2>2. Range(Unread(t)') = {x} /\ Len(Unread(t)') = 1
    BY <2>1, OneRecord
  <2>3. /\ \A j, k \in DOMAIN fb_list : fb_list[j].addr = fb_list[k].addr => j = k
        /\ \A c \in Range(fb_list) :
             /\ c.addr \in Addrs
             /\ \A d \in Range(fb_list) : SameFb(c, d) => c = d
        /\ \A e \in Fbs' : \E c \in Range(fb_list) : IsOn(c, e) /\ c.geom = e.fb
    BY <1>12, <2>1 DEF FbMatch
  <2>4. ASSUME NEW c \in Range(fb_list)
        PROVE  (\E e \in Fbs' : IsOn(c, e)) \/ SameFb(c, x) \/ Gone(c.ctx_id)
    <3>1. (\E e \in Fbs : IsOn(c, e)) \/ Gone(c.ctx_id)
      BY <2>1 DEF FbMatch
    <3>2. IsOn(c, m) => SameFb(c, x)
      BY <1>11, <1>13 DEF IsOn, SameFb
    <3> QED
      BY <1>12, <3>1, <3>2
  <2>5. \A e \in Fbs' : ~IsOn(x, e)
    BY <1>12, <1>13 DEF IsOn
  <2>6. (Range(Unread(t)))' = {x} /\ Len(Unread(t))' = 1 /\ x.act # "ADD_FRAMEBUFFER"
    BY <1>13, <2>2
  <2>7. x.act = "DEL_FRAMEBUFFER"
    BY <1>13
  <2> QED
    BY ONLY <1>16, <1>20, <2>3, <2>4, <2>5, <2>6, <2>7, Zenon DEF ReplayFbInv
<1>22. ScreenInv(t)'
  <2>1. NoFb' = NoFb /\ call'[t].op # "display" /\ call'[t].op = "rmfb" /\ call'[t].obj = b
    BY <1>15 DEF NoFb
  <2>2. /\ displayed_fb # None =>
             \E c \in Range(fb_list) :
                 c.addr = displayed_fb /\ overlay = [bo_id |-> c.bo_id, geom |-> c.geom]
        /\ crtc # None => crtc \in FbIds /\ kfb[crtc] # NoFb
        /\ crtc \in OtherFbs \cup {None} \/ OnScreen(crtc)
    BY <1>2, <1>4 DEF ScreenInv
  <2>3. OnScreen(crtc) => crtc = b \/ OnScreen(crtc)'
    BY <1>11, <1>12, <1>16, <1>20, Zenon DEF OnScreen
  <2> QED
    BY ONLY <1>16, <1>20, <2>1, <2>2, <2>3, Zenon DEF ScreenInv
<1>23. ShowsInv(t)'
  <2>1. \A c \in Range(out'[t]) : c = x
    BY <1>14, OneRecord
  <2> QED
    BY <1>13, <2>1 DEF ShowsInv
<1> QED
  BY <1>18, <1>19, <1>21, <1>22, <1>23 DEF DisplayInv

\* record_display_framebuffer: the replay is about to show the framebuffer.
LEMMA DisplayScreen ==
  ASSUME NEW t, Threads = {t}, ReplayInv(t), ReplayInv(t)', DisplayInv(t), UNCHANGED <<program, repVars>>,
         NEW f \in Files, NEW b \in FbIds, Display(t, f, b)
  PROVE  DisplayInv(t)'
<1>1. Idle(t) /\ kfb[b].file = f /\ call' = [call EXCEPT ![t] = Call("display", f, None, b, {})]
      /\ UNCHANGED <<kernel, shadow, ctx_cnt>>
  BY Zenon DEF Display
<1>2. out[t] = <<>> /\ call[t].op = "none" /\ DOMAIN call = Threads
  BY <1>1, IdleIs
<1>3. IsTable(bos) /\ DOMAIN out = Threads
  BY TablesAre DEF ReplayInv, RecordsInv
<1>4. KernelFbInv(t) /\ ScreenInv(t) /\ ContextIdsInv(t)
  BY DEF DisplayInv
<1>5. b \in OtherFbs \/ file_lookup_fb(f, b) # {}
  BY <1>1, <1>2, <1>4, FbListed
<1>6. \/ b \in OtherFbs /\ out'[t] = <<>>
      \/ \E m \in Fbs : m.fb = b /\
           \E x : out'[t] = <<x>> /\ x.act = "DISP_FRAMEBUFFER" /\ IsOn(x, m)
  <2>1. CASE file_lookup_fb(f, b) = {}
    <3>1. Write(t, <<>>)
      BY <2>1, Zenon DEF Display
    <3>2. out'[t] = <<>>
      BY <1>3, <3>1 DEF Write
    <3> QED
      BY <1>5, <2>1, <3>2
  <2>2. CASE file_lookup_fb(f, b) # {}
    <3>1. PICK i \in file_lookup_fb(f, b) : Write(t, <<FbRec("DISP_FRAMEBUFFER", bos[f][i], rec_ctx[f], b)>>)
      BY <2>2, Zenon DEF Display
    <3>2. bos[f][i].fb_id = b /\ FbOf(f, bos[f][i]) \in Fbs
      BY <1>3, <3>1, FbFound
    <3>3. PICK m, x : m = FbOf(f, bos[f][i]) /\ x = FbRec("DISP_FRAMEBUFFER", bos[f][i], rec_ctx[f], b)
      OBVIOUS
    <3>4. m \in Fbs /\ m.file = f /\ m.id = bos[f][i].id /\ m.fb = b
      BY <3>2, <3>3, FbFields
    <3>5. x.act = "DISP_FRAMEBUFFER" /\ IsOn(x, m)
      BY <3>3, <3>4 DEF FbRec, IsOn
    <3>6. out'[t] = <<x>>
      BY <1>3, <3>1, <3>3 DEF Write
    <3> QED
      BY <3>4, <3>5, <3>6
  <2> QED
    BY <2>1, <2>2
<1>12. call'[t].op = "display" /\ call'[t].file = f /\ call'[t].obj = b
  BY <1>1, <1>2, CallFields
<1>13. /\ UNCHANGED <<gem, kfb, crtc, rec_ctx, ctx_cnt, fb_list, displayed_fb, overlay, pending>>
       /\ Fbs' = Fbs
  BY <1>1, FbsUnchanged DEF kernel, shadow, repVars, lists, screen
<1>14. KernelFbInv(t)'
  <2>1. /\ kfb \in [FbIds -> [file : Files, obj : Objs] \cup {NoFb}]
        /\ \A e \in Fbs :
             /\ e.file \in Files /\ e.handle \in Handles /\ e.fb \in FbIds
             /\ kfb[e.fb] = [file |-> e.file, obj |-> gem[e.file][e.handle]]
             /\ \A d \in Fbs : d.fb = e.fb => d = e
        /\ \A c \in FbIds : kfb[c] # NoFb => c \in OtherFbs \/ \E e \in Fbs : e.fb = c
    BY <1>2, <1>4, KernelIs
  <2>2. NoFb' = NoFb /\ kfb[b].file = f
    BY <1>1 DEF NoFb
  <2>3. /\ call'[t].op \notin {"addfb", "close", "rmfb"} /\ call'[t].file \in Files /\ call'[t].obj \in FbIds
        /\ kfb[call'[t].obj].file = call'[t].file
    BY ONLY f \in Files, b \in FbIds, <1>12, <2>2
  <2> QED
    BY ONLY <1>13, <2>1, <2>2, <2>3, Zenon DEF KernelFbInv
<1>15. ContextIdsInv(t)'
  <2>1. LiveCtxs' = LiveCtxs
    BY <1>13 DEF LiveCtxs, Recorded
  <2> QED
    BY <1>4, <1>12, <1>13, <2>1 DEF ContextIdsInv
<1>16. ReplayFbInv(t)'
  <2>1. FbMatch /\ Unread(t)' = out'[t]
    <3>1. CASE out'[t] = <<>>
      BY <1>2, <1>13, <3>1, ScreenRest
    <3>2. ASSUME NEW x, out'[t] = <<x>>
          PROVE  FbMatch /\ Unread(t)' = out'[t]
      BY <1>2, <1>13, <3>2, ScreenRest
    <3> QED
      BY <1>6, <3>1, <3>2
  <2>2. FbMatch'
    BY <1>13, <2>1, MatchSame
  <2>3. CASE out'[t] = <<>>
    <3>1. \A c : c \notin Range(Unread(t)')
      BY <2>1, <2>3, NoRecord
    <3> QED
      BY <2>2, <3>1, MatchNext
  <2>4. ASSUME NEW x, out'[t] = <<x>>, x.act = "DISP_FRAMEBUFFER"
        PROVE  ReplayFbInv(t)'
    <3>1. Range(Unread(t)') = {x} /\ Len(Unread(t)') = 1
      BY <2>1, <2>4, OneRecord
    <3> QED
      BY <2>2, <2>4, <3>1, MatchNext
  <2> QED
    BY <1>6, <2>3, <2>4
<1>17. ScreenInv(t)'
  <2>1. /\ displayed_fb # None =>
             \E c \in Range(fb_list) :
                 c.addr = displayed_fb /\ overlay = [bo_id |-> c.bo_id, geom |-> c.geom]
        /\ crtc # None => crtc \in FbIds /\ kfb[crtc] # NoFb
        /\ crtc \in OtherFbs \cup {None} \/ OnScreen(crtc)
    BY <1>2, <1>4 DEF ScreenInv
  <2>2. (Range(fb_list))' = Range(fb_list) /\ NoFb' = NoFb
    BY <1>13 DEF NoFb
  <2>3. OnScreen(crtc) => OnScreen(crtc)'
    BY <1>13, OnScreenSame
  <2>4. \/ out'[t] = <<>> /\ call'[t].obj \in OtherFbs
        \/ \E e \in Fbs : e.fb = call'[t].obj
             /\ \E c \in Range(out'[t]) :
                  out'[t] = <<c>> /\ c.act = "DISP_FRAMEBUFFER" /\ IsOn(c, e)'
    <3>1. ASSUME NEW m \in Fbs, m.fb = b,
                 NEW x, out'[t] = <<x>>, x.act = "DISP_FRAMEBUFFER", IsOn(x, m)
          PROVE  \E c \in Range(out'[t]) :
                   out'[t] = <<c>> /\ c.act = "DISP_FRAMEBUFFER" /\ IsOn(c, m)'
      <4>1. IsOn(x, m)'
        BY <1>13, <3>1 DEF IsOn
      <4>2. x \in Range(out'[t])
        BY <3>1, OneRecord
      <4> QED
        BY <3>1, <4>1, <4>2
    <3> QED
      BY <1>6, <1>12, <3>1
  <2> QED
    BY ONLY <1>13, <2>1, <2>2, <2>3, <2>4, Zenon DEF ScreenInv
<1>18. ShowsInv(t)'
  BY <1>12 DEF ShowsInv
<1> QED
  BY <1>14, <1>15, <1>16, <1>17, <1>18 DEF DisplayInv

\* The kernel's part of RMFB and of the calls that show a framebuffer
LEMMA FbKernelScreen ==
  ASSUME NEW t, Threads = {t}, ReplayInv(t), ReplayInv(t)', DisplayInv(t), UNCHANGED <<program, repVars>>,
         FbKernel(t)
  PROVE  DisplayInv(t)'
<1>1. PICK b, f : b = call[t].obj /\ f = call[t].file
  OBVIOUS
<1>2. /\ out[t] = <<>> /\ call' = [call EXCEPT ![t] = NoCall] /\ UNCHANGED <<gem, shadow, recorder, out>>
      /\ \/ call[t].op = "rmfb" /\ kfb' = [kfb EXCEPT ![b] = NoFb] /\ crtc' = IF crtc = b THEN None ELSE crtc
         \/ call[t].op = "display" /\ crtc' = b /\ UNCHANGED kfb
  BY <1>1, Zenon DEF FbKernel
<1>3. DOMAIN call = Threads
  BY TablesAre
<1>4. call'[t].op = "none"
  BY <1>2, <1>3, CallFields
<1>5. /\ UNCHANGED <<gem, rec_ctx, ctx_cnt, fb_list, displayed_fb, overlay, pending, out>>
      /\ Fbs' = Fbs
  BY <1>2, FbsUnchanged DEF shadow, recorder, repVars, lists, screen
<1>6. KernelFbInv(t) /\ ScreenInv(t) /\ ContextIdsInv(t)
  BY DEF DisplayInv
<1>7. b \in FbIds /\ f \in Files /\ kfb[b].file = f
  BY <1>1, <1>2, <1>6 DEF KernelFbInv
<1>8. ContextIdsInv(t)'
  <2>1. LiveCtxs' = LiveCtxs
    BY <1>5 DEF LiveCtxs, Recorded
  <2> QED
    BY <1>4, <1>5, <1>6, <2>1 DEF ContextIdsInv
<1>9. ReplayFbInv(t)'
  <2>1. FbMatch /\ Unread(t)' = <<>>
    BY <1>2, <1>5, ScreenRest
  <2>2. FbMatch'
    BY <1>2, <1>5, <2>1, MatchSame
  <2>3. \A c : c \notin Range(Unread(t)')
    BY <2>1, NoRecord
  <2> QED
    BY <2>2, <2>3, MatchNext
<1>10. /\ kfb \in [FbIds -> [file : Files, obj : Objs] \cup {NoFb}]
       /\ \A e \in Fbs :
            /\ e.file \in Files /\ e.handle \in Handles /\ e.fb \in FbIds
            /\ kfb[e.fb] = [file |-> e.file, obj |-> gem[e.file][e.handle]]
            /\ call[t].op = "rmfb" => b # e.fb
            /\ \A d \in Fbs : d.fb = e.fb => d = e
       /\ \A c \in FbIds : kfb[c] # NoFb => (call[t].op = "rmfb" /\ b = c) \/ c \in OtherFbs \/ \E e \in Fbs : e.fb = c
       /\ kfb[b] # NoFb
  <2>1. /\ kfb \in [FbIds -> [file : Files, obj : Objs] \cup {NoFb}]
        /\ \A e \in Fbs :
             /\ e.file \in Files /\ e.handle \in Handles /\ e.fb \in FbIds
             /\ kfb[e.fb] = [file |-> e.file, obj |-> gem[e.file][e.handle]]
             /\ call[t].op \in {"addfb", "rmfb"} => call[t].obj # e.fb
             /\ \A d \in Fbs : d.fb = e.fb => d = e
        /\ \A c \in FbIds : kfb[c] # NoFb =>
             (call[t].op \in {"addfb", "rmfb"} /\ call[t].obj = c) \/ c \in OtherFbs \/ \E e \in Fbs : e.fb = c
        /\ \A c \in FbIds : kfb[c].file \in Files => kfb[c] # NoFb
    BY <1>6, KernelIs
  <2>2. kfb[b] # NoFb
    BY ONLY <1>7, <2>1
  <2>3. call[t].op # "addfb"
    BY <1>2
  <2> QED
    BY ONLY <1>1, <2>1, <2>2, <2>3
<1>11. KernelFbInv(t)'
  <2>1. /\ kfb' \in [FbIds -> [file : Files, obj : Objs] \cup {NoFb}]
        /\ \A e \in Fbs : kfb'[e.fb] = kfb[e.fb]
        /\ \A c \in FbIds : kfb'[c] # NoFb => c \in OtherFbs \/ \E e \in Fbs : e.fb = c
    <3>1. CASE call[t].op = "rmfb" /\ kfb' = [kfb EXCEPT ![b] = NoFb]
      BY <1>7, <1>10, <3>1
    <3>2. CASE call[t].op = "display" /\ UNCHANGED kfb
      BY <1>10, <3>2
    <3> QED
      BY <1>2, <3>1, <3>2
  <2> QED
    BY <1>4, <1>5, <1>10, <2>1, KernelRest
<1>12. ScreenInv(t)'
  <2>1. displayed_fb # None =>
             \E c \in Range(fb_list) :
                 c.addr = displayed_fb /\ overlay = [bo_id |-> c.bo_id, geom |-> c.geom]
    BY <1>6 DEF ScreenInv
  <2>2. (Range(fb_list))' = Range(fb_list) /\ NoFb' = NoFb
    BY <1>5 DEF NoFb
  <2>3. \A c : OnScreen(c)' <=> OnScreen(c)
    BY <1>5, OnScreenSame
  <2>4. /\ crtc' # None => crtc' \in FbIds /\ kfb'[crtc'] # NoFb
        /\ crtc' \in OtherFbs \cup {None} \/ OnScreen(crtc')
    <3>1. CASE call[t].op = "rmfb" /\ kfb' = [kfb EXCEPT ![b] = NoFb] /\ crtc' = IF crtc = b THEN None ELSE crtc
      <4>1. /\ crtc # None => crtc \in FbIds /\ kfb[crtc] # NoFb
            /\ crtc \in OtherFbs \cup {None} \/ b = crtc \/ OnScreen(crtc)
        BY <1>1, <1>6, <3>1 DEF ScreenInv
      <4>2. crtc' # None => crtc' = crtc /\ crtc # b
        BY <3>1
      <4>3. crtc' # None => crtc' \in FbIds /\ kfb'[crtc'] # NoFb
        BY <1>10, <3>1, <4>1, <4>2
      <4> QED
        BY <4>1, <4>2, <4>3
    <3>2. CASE call[t].op = "display" /\ crtc' = b /\ UNCHANGED kfb
      <4>1. \A c : <<>> # <<c>>
        OBVIOUS
      <4>2. b \in OtherFbs \/ OnScreen(b)
        BY <1>1, <1>2, <1>6, <3>2, <4>1 DEF ScreenInv
      <4> QED
        BY <1>7, <1>10, <3>2, <4>2
    <3> QED
      BY <1>2, <3>1, <3>2
  <2>5. call'[t].op # "display"
    BY <1>4
  <2>6. crtc' \in OtherFbs \cup {None} \/ OnScreen(crtc)'
    <3>1. ASSUME OnScreen(crtc')
          PROVE  OnScreen(crtc)'
      <4>1. PICK c : c = crtc'
        OBVIOUS
      <4>2. OnScreen(c)'
        BY <2>3, <3>1, <4>1
      <4> QED
        BY <4>1, <4>2 DEF OnScreen
    <3> QED
      BY <2>4, <3>1
  <2> QED
    BY ONLY <1>5, <2>1, <2>2, <2>4, <2>5, <2>6, Zenon DEF ScreenInv
<1>13. ShowsInv(t)'
  BY <1>2, NoRecord DEF ShowsInv
<1> QED
  BY <1>8, <1>9, <1>11, <1>12, <1>13 DEF DisplayInv

\* host1x_file_release: the framebuffers of the file are gone, those of the replay stay.
LEMMA CloseFileScreen ==
  ASSUME NEW t, Threads = {t}, ShadowInv, ReplayInv(t), ReplayInv(t)', DisplayInv(t),
         UNCHANGED <<program, repVars>>, NEW f \in Files, CloseFile(t, f)
  PROVE  DisplayInv(t)'
<1>1. /\ out[t] = <<>> /\ call[t].op = "none" /\ DOMAIN call = Threads
      /\ IsTable(bos) /\ DOMAIN out = Threads /\ DOMAIN rec_ctx = Files
      /\ "close_file" \in program.ops /\ rec_ctx[f] \notin {None, NullCtx}
  <2>1. Idle(t) /\ "close_file" \in program.ops /\ IsOpen(f)
    BY Zenon DEF CloseFile
  <2>2. rec_ctx[f] # NullCtx
    BY DEF ReplayInv, ListsInv
  <2> QED
    BY <2>1, <2>2, IdleIs, TablesAre DEF ReplayInv, RecordsInv, IsOpen
<1>2. PICK s : s = Released(f)
  OBVIOUS
<1>3. /\ gem' = [gem EXCEPT ![f] = [h \in Handles |-> None]]
      /\ kfb' = [b \in FbIds |-> IF kfb[b].file = f THEN NoFb ELSE kfb[b]]
      /\ crtc' = IF crtc # None /\ kfb[crtc].file = f THEN None ELSE crtc
      /\ rec_ctx' = [rec_ctx EXCEPT ![f] = None]
      /\ bos' = [bos EXCEPT ![f] = <<>>]
      /\ out' = [out EXCEPT ![t] = s]
      /\ Return(t, f, {}, out'[t])
      /\ UNCHANGED recorder
  BY <1>1, <1>2, Zenon DEF CloseFile
<1>4. call'[t].op \in {"none", "return"}
  BY <1>1, <1>3, Returned
<1>5. KernelFbInv(t) /\ ScreenInv(t) /\ ContextIdsInv(t)
  BY DEF DisplayInv
<1>6. /\ UNCHANGED <<ctx_cnt, fb_list, displayed_fb, overlay, pending>>
      /\ \A e \in Files : e # f => rec_ctx'[e] = rec_ctx[e] /\ gem'[e] = gem[e]
      /\ rec_ctx'[f] = None /\ out'[t] = s
  BY <1>1, <1>3, HandlesAre DEF recorder, repVars, lists, screen
<1>7. /\ \A e \in Fbs : e.file # f => e \in Fbs'
      /\ \A e \in Fbs' : e \in Fbs /\ e.file # f
  <2>1. bos'[f] = <<>> /\ (\A e \in Files : e # f => bos'[e] = bos[e]) /\ DOMAIN <<>> = {}
    BY <1>1, <1>3 DEF IsTable
  <2>2. ASSUME NEW e \in Fbs, e.file # f
        PROVE  e \in Fbs'
    <3>1. PICK g \in Files : \E i \in DOMAIN bos[g] : bos[g][i].fb_id # None /\ e = FbOf(g, bos[g][i])
      BY FbsAre DEF Fbs
    <3>2. PICK i \in DOMAIN bos[g] : bos[g][i].fb_id # None /\ e = FbOf(g, bos[g][i])
      BY <3>1
    <3>3. bos'[g] = bos[g]
      BY <2>1, <2>2, <3>2, FbFields
    <3> QED
      BY <3>2, <3>3, FbsAre DEF Fbs
  <2>3. ASSUME NEW e \in Fbs'
        PROVE  e \in Fbs /\ e.file # f
    <3>1. PICK g \in Files : \E i \in DOMAIN bos'[g] : bos'[g][i].fb_id # None /\ e = FbOf(g, bos'[g][i])
      BY FbsAre DEF Fbs
    <3>2. PICK i \in DOMAIN bos'[g] : bos'[g][i].fb_id # None /\ e = FbOf(g, bos'[g][i])
      BY <3>1
    <3>3. bos'[g] = bos[g] /\ g # f
      BY <2>1
    <3>4. e.file = g
      BY <3>2, FbFields
    <3> QED
      BY <3>2, <3>3, <3>4, FbsAre DEF Fbs
  <2> QED
    BY <2>2, <2>3
<1>8. /\ kfb \in [FbIds -> [file : Files, obj : Objs] \cup {NoFb}]
      /\ \A e \in Fbs :
           /\ e.file \in Files /\ e.handle \in Handles /\ e.fb \in FbIds
           /\ kfb[e.fb] = [file |-> e.file, obj |-> gem[e.file][e.handle]]
           /\ \A d \in Fbs : d.fb = e.fb => d = e
      /\ \A b \in FbIds : kfb[b] # NoFb => b \in OtherFbs \/ \E e \in Fbs : e.fb = b
  BY <1>1, <1>5, KernelIs
<1>9. \A b \in FbIds : kfb'[b] = IF kfb[b].file = f THEN NoFb ELSE kfb[b]
  BY <1>3
<1>10. \A e \in Fbs : kfb[e.fb].file = e.file
  BY <1>5, FbBacked
<1>11. KernelFbInv(t)'
  <2>1. kfb' \in [FbIds -> [file : Files, obj : Objs] \cup {NoFb}]
    BY <1>3, <1>8
  <2>2. \A e \in Fbs' :
           /\ e.file \in Files /\ e.handle \in Handles /\ e.fb \in FbIds
           /\ kfb'[e.fb] = [file |-> e.file, obj |-> gem'[e.file][e.handle]]
           /\ \A d \in Fbs' : d.fb = e.fb => d = e
    <3>1. ASSUME NEW e \in Fbs'
          PROVE  kfb'[e.fb] = kfb[e.fb] /\ gem'[e.file] = gem[e.file]
      <4>1. /\ e \in Fbs /\ e.file # f /\ e.file \in Files /\ e.fb \in FbIds
            /\ kfb[e.fb].file = e.file
        BY ONLY <1>7, <1>8, <1>10, <3>1
      <4>2. kfb'[e.fb] = kfb[e.fb]
        BY ONLY <1>9, <4>1
      <4>3. gem'[e.file] = gem[e.file]
        BY ONLY <1>6, <4>1
      <4> QED
        BY <4>2, <4>3
    <3> QED
      BY ONLY <1>7, <1>8, <3>1
  <2>3. \A b \in FbIds : kfb'[b] # NoFb => b \in OtherFbs \/ \E e \in Fbs' : e.fb = b
    BY <1>7, <1>8, <1>9, <1>10
  <2> QED
    BY <1>4, <2>1, <2>2, <2>3, KernelRest
<1>12. LiveCtxs' \subseteq LiveCtxs /\ rec_ctx[f] \in LiveCtxs /\ rec_ctx[f] \notin LiveCtxs'
  <2>1. f \in Recorded /\ \A d, e \in Recorded : rec_ctx[d] = rec_ctx[e] => d = e
    BY <1>1 DEF Recorded, ReplayInv, ListsInv
  <2>2. \A e \in Recorded' : e \in Recorded /\ e # f /\ rec_ctx'[e] = rec_ctx[e]
    BY <1>6 DEF Recorded
  <2> QED
    BY <2>1, <2>2 DEF LiveCtxs
<1>13. \A id : Gone(id) \/ id = rec_ctx[f] => Gone(id)'
  <2>1. LiveCtxs \subseteq 0..(ctx_cnt - 1)
    BY <1>1, <1>5 DEF ContextIdsInv
  <2>2. "close_file" \in program'.ops
    BY <1>1
  <2> QED
    BY <1>6, <1>12, <2>1, <2>2 DEF Gone
<1>14. ContextIdsInv(t)'
  BY <1>4, <1>5, <1>6, <1>12 DEF ContextIdsInv
<1>15. \A e \in Fbs' : \A c : IsOn(c, e)' <=> IsOn(c, e)
  BY <1>6, <1>7, <1>8 DEF IsOn
<1>16. ReplayFbInv(t)'
  <2>1. FbMatch /\ Unread(t)' = s
    BY <1>1, <1>6, ScreenRest
  <2>2. FbMatch'
    <3>1. /\ (Range(fb_list))' = Range(fb_list) /\ DOMAIN fb_list' = DOMAIN fb_list
          /\ \A c, d : SameFb(c, d)' <=> SameFb(c, d)
      BY <1>6 DEF SameFb
    <3>2. /\ \A j, k \in DOMAIN fb_list : fb_list[j].addr = fb_list[k].addr => j = k
          /\ \A c \in Range(fb_list) :
               /\ c.addr \in Addrs
               /\ \A d \in Range(fb_list) : SameFb(c, d) => c = d
          /\ \A e \in Fbs' : \E c \in Range(fb_list) : IsOn(c, e)' /\ c.geom = e.fb
      BY <1>7, <1>15, <2>1 DEF FbMatch
    <3>3. ASSUME NEW c \in Range(fb_list)
          PROVE  (\E e \in Fbs' : IsOn(c, e)') \/ Gone(c.ctx_id)'
      <4>1. CASE Gone(c.ctx_id)
        BY <1>13, <4>1
      <4>2. ASSUME NEW e \in Fbs, IsOn(c, e)
            PROVE  (\E d \in Fbs' : IsOn(c, d)') \/ Gone(c.ctx_id)'
        <5>1. CASE e.file = f
          <6>1. c.ctx_id = rec_ctx[f]
            BY <4>2, <5>1 DEF IsOn
          <6> QED
            BY <1>13, <6>1
        <5>2. CASE e.file # f
          BY <1>7, <1>15, <4>2, <5>2
        <5> QED
          BY <5>1, <5>2
      <4> QED
        BY <2>1, <4>1, <4>2 DEF FbMatch
    <3> QED
      BY ONLY <1>6, <3>1, <3>2, <3>3, Zenon DEF FbMatch
  <2>3. \A c \in Range(s) : c.act \in {"BO_DESTROY", "JOB_CTX_DESTROY", "CTX_DESTROY"}
    BY <1>2, ReleasedIs DEF Range
  <2> QED
    BY <2>1, <2>2, <2>3, MatchNext
<1>17. ScreenInv(t)'
  <2>1. /\ displayed_fb # None =>
             \E c \in Range(fb_list) :
                 c.addr = displayed_fb /\ overlay = [bo_id |-> c.bo_id, geom |-> c.geom]
        /\ crtc # None => crtc \in FbIds /\ kfb[crtc] # NoFb
        /\ crtc \in OtherFbs \cup {None} \/ OnScreen(crtc)
    BY <1>1, <1>5 DEF ScreenInv
  <2>2. (Range(fb_list))' = Range(fb_list) /\ NoFb' = NoFb
    BY <1>6 DEF NoFb
  <2>3. crtc' # None => crtc' = crtc /\ kfb[crtc].file # f
    BY <1>3
  <2>4. crtc' # None => crtc' \in FbIds /\ kfb'[crtc'] # NoFb
    BY <1>9, <2>1, <2>3
  <2>5. ASSUME crtc' \notin OtherFbs \cup {None}
        PROVE  OnScreen(crtc)'
    <3>1. PICK e \in Fbs : e.fb = crtc /\ \E c \in Range(fb_list) : IsOn(c, e) /\ c.addr = displayed_fb
      BY <2>1, <2>3, <2>5 DEF OnScreen
    <3>2. e \in Fbs'
      BY <1>7, <1>10, <2>3, <2>5, <3>1
    <3>3. e.fb = crtc' /\ \E c \in (Range(fb_list))' : IsOn(c, e)' /\ c.addr = displayed_fb'
      BY <1>6, <1>15, <2>2, <2>3, <2>5, <3>1, <3>2
    <3> QED
      BY ONLY <3>2, <3>3, Zenon DEF OnScreen
  <2>6. call'[t].op # "display"
    BY <1>4
  <2> QED
    BY ONLY <1>6, <2>1, <2>2, <2>4, <2>5, <2>6, Zenon DEF ScreenInv
<1>18. ShowsInv(t)'
  <2>1. \A c \in Range(s) : c.act \in {"BO_DESTROY", "JOB_CTX_DESTROY", "CTX_DESTROY"}
    BY <1>2, ReleasedIs DEF Range
  <2> QED
    BY <1>6, <2>1 DEF ShowsInv
<1> QED
  BY <1>11, <1>14, <1>16, <1>17, <1>18 DEF DisplayInv

-----------------------------------------------------------------------------
(* What the replay reads of framebuffers *)

\* What reading a record leaves as it is
LEMMA WriteStays ==
  ASSUME NEW t, Threads = {t}, ReplayInv(t), DisplayInv(t), record_write_data(t)
  PROVE  /\ KernelFbInv(t)' /\ ContextIdsInv(t)' /\ ShowsInv(t)' /\ Fbs' = Fbs
         /\ UNCHANGED <<program, gem, kfb, crtc, rec_ctx, ctx_cnt>>
         /\ out[t] # <<>> /\ out'[t] = Tail(out[t])
         /\ call'[t] = call[t] \/ (call[t].op \in {"opening", "return"} /\ call'[t].op = "none")
<1>1. /\ UNCHANGED <<program, gem, kfb, crtc, rec_ctx, bos, ctx_cnt>> /\ out[t] # <<>>
      /\ out' = [out EXCEPT ![t] = Tail(@)]
      /\ call' = IF call[t].op \in {"opening", "return"} /\ Len(out[t]) = 1
                 THEN [call EXCEPT ![t] = NoCall] ELSE call
  BY DEF record_write_data, kernel, shadow, recorder
<1>2. DOMAIN out = Threads /\ DOMAIN call = Threads /\ out[t] \in Seq(Range(out[t]))
  BY DEF ReplayInv, RecordsInv, OpenInv
<1>3. out'[t] = Tail(out[t])
  BY <1>1, <1>2
<1>4. call'[t] = call[t] \/ (call[t].op \in {"opening", "return"} /\ call'[t].op = "none")
  BY <1>1, <1>2, CallFields
<1>5. Fbs' = Fbs
  BY <1>1, FbsUnchanged
<1>6. KernelFbInv(t) /\ ContextIdsInv(t) /\ ShowsInv(t)
  BY DEF DisplayInv
<1>7. KernelFbInv(t)'
  <2>1. NoFb' = NoFb
    BY DEF NoFb
  <2>2. CASE call'[t] = call[t]
    BY <1>1, <1>5, <1>6, <2>1, <2>2, Zenon DEF KernelFbInv
  <2>3. CASE call[t].op \in {"opening", "return"} /\ call'[t].op = "none"
    <3>1. /\ kfb \in [FbIds -> [file : Files, obj : Objs] \cup {NoFb}]
          /\ \A e \in Fbs :
               /\ e.file \in Files /\ e.handle \in Handles /\ e.fb \in FbIds
               /\ kfb[e.fb] = [file |-> e.file, obj |-> gem[e.file][e.handle]]
               /\ \A d \in Fbs : d.fb = e.fb => d = e
          /\ \A b \in FbIds : kfb[b] # NoFb => b \in OtherFbs \/ \E e \in Fbs : e.fb = b
      BY <1>6, <2>3, KernelIs
    <3> QED
      BY <1>1, <1>5, <2>3, <3>1, KernelRest
  <2> QED
    BY <1>4, <2>2, <2>3
<1>8. ContextIdsInv(t)'
  <2>1. LiveCtxs' = LiveCtxs
    BY <1>1 DEF LiveCtxs, Recorded
  <2> QED
    BY <1>1, <1>4, <1>6, <2>1 DEF ContextIdsInv
<1>9. ShowsInv(t)'
  <2>1. \A c \in Range(out'[t]) : c \in Range(out[t])
    <3>1. PICK s : s = out[t]
      OBVIOUS
    <3>2. s \in Seq(Range(s)) /\ s # <<>>
      BY <1>1, <1>2, <3>1
    <3>3. \A c \in Range(Tail(s)) : c \in Range(s)
      BY ONLY <3>2 DEF Range
    <3> QED
      BY <1>3, <3>1, <3>3
  <2>2. ASSUME NEW c \in Range(out'[t]), c.act = "DISP_FRAMEBUFFER"
        PROVE  call'[t].op = "display"
    <3>1. call[t].op = "display"
      BY <1>6, <2>1, <2>2 DEF ShowsInv
    <3> QED
      BY <1>4, <3>1
  <2> QED
    BY <2>2 DEF ShowsInv
<1> QED
  BY <1>1, <1>3, <1>4, <1>5, <1>7, <1>8, <1>9

\* A record of a framebuffer is alone.
LEMMA AloneRead ==
  ASSUME NEW t, Threads = {t}, ReplayInv(t), ReplayFbInv(t), record_write_data(t),
         NEW d \in Range(Unread(t)), d.act \in FbRecords
  PROVE  d = Head(out[t]) /\ Len(Unread(t)) = 1 /\ Len(pending) = 0 /\ out[t] = <<d>>
<1>1. PICK r : r = Unread(t)
  OBVIOUS
<1>2. /\ r \in Seq(Range(r)) /\ Len(pending) + 1 \in 1..Len(r) /\ r[Len(pending) + 1] = Head(out[t])
  BY <1>1, UnreadNext
<1>3. Len(r) = 1
  BY <1>1 DEF ReplayFbInv
<1>4. pending \in Seq(Range(pending)) /\ out[t] \in Seq(Range(out[t]))
  BY DEF ReplayInv, RecordsInv
<1>5. Len(pending) = 0
  BY <1>2, <1>3, <1>4, ListIs
<1>6. PICK k \in DOMAIN r : r[k] = d
  BY <1>1 DEF Range
<1>7. k = 1
  BY <1>2, <1>3, ListIs
<1>8. d = Head(out[t])
  BY <1>2, <1>5, <1>6, <1>7
<1>9. out[t] = <<d>>
  <2>1. pending = <<>>
    BY <1>4, <1>5
  <2>2. out[t] = r
    BY <1>1, <1>4, <2>1 DEF Unread
  <2> QED
    BY <1>2, <1>3, <1>6, <1>7, <2>2
<1> QED
  BY <1>1, <1>3, <1>5, <1>8, <1>9

\* What is left after a record has been read was left before.
LEMMA LeftAfter ==
  ASSUME NEW t, Threads = {t}, ReplayInv(t), record_write_data(t),
         pending' = <<>> \/ pending' = Append(pending, Head(out[t]))
  PROVE  /\ \A c \in Range(Unread(t)') : c \in Range(Unread(t))
         /\ Len(Unread(t)) = 1 /\ Len(pending) = 0 /\ pending' = <<>> =>
              \A c : c \notin Range(Unread(t)')
<1>1. PICK r : r = Unread(t)
  OBVIOUS
<1>2. /\ r \in Seq(Range(r)) /\ 0 \in 0..Len(r) /\ Len(pending) + 1 \in 0..Len(r)
      /\ pending' = <<>> => Unread(t)' = Drop(r, Len(pending) + 1)
      /\ pending' = Append(pending, Head(out[t])) => Unread(t)' = Drop(r, 0)
  BY <1>1, UnreadNext
<1>3. ASSUME NEW k \in 0..Len(r)
      PROVE  \A c \in Range(Drop(r, k)) : c \in Range(r)
  <2>1. PICK s : s = Drop(r, k)
    OBVIOUS
  <2>2. \A i \in DOMAIN s : i + k \in DOMAIN r /\ s[i] = r[i + k]
    BY <1>2, <2>1, DropList
  <2>3. \A c \in Range(s) : c \in Range(r)
    BY ONLY <2>2 DEF Range
  <2> QED
    BY <2>1, <2>3
<1>4. \A c \in Range(Unread(t)') : c \in Range(r)
  BY <1>2, <1>3
<1>5. ASSUME Len(r) = 1, Len(pending) = 0, pending' = <<>>
      PROVE  \A c : c \notin Range(Unread(t)')
  <2>1. 1 \in 0..Len(r) /\ Unread(t)' = Drop(r, 1)
    BY <1>2, <1>5
  <2>2. DOMAIN Drop(r, 1) = 1..Len(r) - 1
    BY <1>2, <2>1, DropList
  <2>3. DOMAIN Drop(r, 1) = {}
    BY <1>5, <2>2
  <2> QED
    BY <2>1, <2>3 DEF Range
<1> QED
  BY <1>1, <1>4, <1>5

\* Any other record than that of a framebuffer
LEMMA OtherRead ==
  ASSUME NEW t, Threads = {t}, ReplayInv(t), DisplayInv(t), record_write_data(t),
         UNCHANGED <<fb_list, displayed_fb, overlay>>, Head(out[t]).act \notin FbRecords,
         pending' = <<>> \/ pending' = Append(pending, Head(out[t]))
  PROVE  DisplayInv(t)'
<1>1. /\ KernelFbInv(t)' /\ ContextIdsInv(t)' /\ ShowsInv(t)' /\ Fbs' = Fbs
      /\ UNCHANGED <<program, gem, kfb, crtc, rec_ctx, ctx_cnt>>
      /\ out[t] # <<>>
      /\ call'[t] = call[t] \/ (call[t].op \in {"opening", "return"} /\ call'[t].op = "none")
  BY WriteStays
<1>2. ReplayFbInv(t) /\ ScreenInv(t)
  BY DEF DisplayInv
<1>3. \A d \in Range(Unread(t)) : d.act \notin FbRecords
  BY <1>2, AloneRead
<1>4. \A d \in Range(Unread(t)') : d.act \notin FbRecords
  <2>1. \A c \in Range(Unread(t)') : c \in Range(Unread(t))
    BY LeftAfter
  <2> QED
    BY <1>3, <2>1
<1>5. ReplayFbInv(t)'
  <2>1. FbMatch
    BY <1>2, <1>3, MatchRest DEF FbRecords
  <2>2. FbMatch'
    BY <1>1, <2>1, MatchSame
  <2> QED
    BY <1>4, <2>2, MatchNext DEF FbRecords
<1>6. ScreenInv(t)'
  <2>1. call[t].op # "display"
    <3>1. \A c : out[t] = <<c>> => Head(out[t]) = c
      OBVIOUS
    <3> QED
      BY <1>1, <1>2, <3>1 DEF ScreenInv, FbRecords
  <2>2. /\ displayed_fb # None =>
             \E c \in Range(fb_list) :
                 c.addr = displayed_fb /\ overlay = [bo_id |-> c.bo_id, geom |-> c.geom]
        /\ crtc # None => crtc \in FbIds /\ kfb[crtc] # NoFb
        /\ crtc \in OtherFbs \cup {None} \/ (call[t].op = "rmfb" /\ call[t].obj = crtc) \/ OnScreen(crtc)
    BY <1>2, <2>1 DEF ScreenInv
  <2>3. call'[t].op # "display" /\ (call[t].op = "rmfb" => call'[t] = call[t])
    BY <1>1, <2>1
  <2>4. (Range(fb_list))' = Range(fb_list) /\ NoFb' = NoFb
    BY DEF NoFb
  <2>5. OnScreen(crtc) => OnScreen(crtc)'
    BY <1>1, OnScreenSame
  <2>6. crtc \in OtherFbs \cup {None} \/ (call'[t].op = "rmfb" /\ call'[t].obj = crtc) \/ OnScreen(crtc)'
    BY <2>2, <2>3, <2>5
  <2> QED
    BY ONLY <1>1, UNCHANGED <<fb_list, displayed_fb, overlay>>, <2>2, <2>3, <2>4, <2>6, Zenon DEF ScreenInv
<1> QED
  BY <1>1, <1>5, <1>6 DEF DisplayInv

\* ADD_FRAMEBUFFER: the replay gets the framebuffer that was missing.
LEMMA AddRead ==
  ASSUME NEW t, Threads = {t}, ReplayInv(t), DisplayInv(t), record_write_data(t), status' = "running",
         pending = <<>>, NEW c, c = Head(out[t]), c.act = "ADD_FRAMEBUFFER", create_framebuffer(c)
  PROVE  DisplayInv(t)'
<1>1. /\ KernelFbInv(t)' /\ ContextIdsInv(t)' /\ ShowsInv(t)' /\ Fbs' = Fbs
      /\ UNCHANGED <<program, gem, kfb, crtc, rec_ctx, ctx_cnt>>
      /\ out[t] # <<>>
      /\ call'[t] = call[t] \/ (call[t].op \in {"opening", "return"} /\ call'[t].op = "none")
  BY WriteStays
<1>2. ReplayFbInv(t) /\ ScreenInv(t)
  BY DEF DisplayInv
<1>3. c \in Range(Unread(t)) /\ c.act \in FbRecords
  BY <1>1, UnreadIs DEF FbRecords
<1>4. Len(Unread(t)) = 1 /\ Len(pending) = 0 /\ out[t] = <<c>> /\ \A d \in Range(Unread(t)) : d = c
  <2>1. \A d \in Range(Unread(t)) : d.act \in FbRecords => d = c
    BY <1>2, AloneRead
  <2>2. Len(Unread(t)) = 1 /\ Len(pending) = 0 /\ out[t] = <<c>>
    BY <1>2, <1>3, AloneRead
  <2>3. Unread(t) \in Seq(Range(Unread(t)))
    BY <1>1, UnreadIs
  <2>4. DOMAIN Unread(t) = {1}
    BY <2>2, <2>3, ListIs
  <2>5. \A d \in Range(Unread(t)) : d = Unread(t)[1]
    BY <2>4 DEF Range
  <2> QED
    BY <1>3, <2>2, <2>5
<1>5. /\ \E a \in Addrs :
            /\ \A i \in DOMAIN fb_list : fb_list[i].addr # a
            /\ fb_list' = Append(fb_list, [addr |-> a, bo_id |-> c.bo_id,
                                           ctx_id |-> c.ctx_id, geom |-> c.geom])
      /\ pending' = <<>> /\ UNCHANGED <<displayed_fb, overlay>>
  <2>1. ~Asserted
    BY DEF Asserted
  <2> QED
    BY <2>1, Zenon DEF create_framebuffer, screen
<1>6. PICK a \in Addrs :
            /\ \A i \in DOMAIN fb_list : fb_list[i].addr # a
            /\ fb_list' = Append(fb_list, [addr |-> a, bo_id |-> c.bo_id,
                                           ctx_id |-> c.ctx_id, geom |-> c.geom])
  BY <1>5
<1>7. PICK y : y = [addr |-> a, bo_id |-> c.bo_id, ctx_id |-> c.ctx_id, geom |-> c.geom]
  OBVIOUS
<1>8. y.addr = a /\ y.bo_id = c.bo_id /\ y.ctx_id = c.ctx_id /\ y.geom = c.geom /\ SameFb(y, c)
  BY <1>7 DEF SameFb
<1>9. PICK n : n = Len(fb_list)
  OBVIOUS
<1>10. /\ n \in Nat /\ DOMAIN fb_list = 1..n /\ DOMAIN fb_list' = 1..n + 1
       /\ (\A i \in 1..n : fb_list'[i] = fb_list[i]) /\ fb_list'[n + 1] = y
  <2>1. fb_list \in Seq(Range(fb_list)) /\ fb_list' = Append(fb_list, y)
    BY <1>6, <1>7 DEF ReplayInv, ListsInv
  <2> QED
    BY <1>9, <2>1, ListIs, AppendList
<1>11. /\ \A d : d \in Range(fb_list') <=> d = y \/ d \in Range(fb_list)
       /\ \A d \in Range(fb_list) : d.addr # y.addr
  <2>1. \A d \in Range(fb_list') : d = y \/ d \in Range(fb_list)
    <3> SUFFICES ASSUME NEW i \in 1..n + 1
                 PROVE  fb_list'[i] = y \/ fb_list'[i] \in Range(fb_list)
      BY ONLY <1>10 DEF Range
    <3>1. i = n + 1 \/ i \in 1..n
      BY ONLY <1>10
    <3> QED
      BY ONLY <1>10, <3>1 DEF Range
  <2>2. y \in Range(fb_list')
    <3>1. n + 1 \in 1..n + 1
      BY ONLY <1>10
    <3> QED
      BY ONLY <1>10, <3>1 DEF Range
  <2>3. ASSUME NEW d \in Range(fb_list)
        PROVE  d \in Range(fb_list')
    <3>1. PICK i \in 1..n : d = fb_list[i]
      BY ONLY <1>10, <2>3 DEF Range
    <3>2. i \in 1..n + 1 /\ fb_list'[i] = d
      BY ONLY <1>10, <3>1
    <3> QED
      BY ONLY <1>10, <3>2 DEF Range
  <2>4. \A d \in Range(fb_list) : d.addr # y.addr
    BY <1>6, <1>8 DEF Range
  <2> QED
    BY <2>1, <2>2, <2>3, <2>4
<1>12. /\ \A i, j \in DOMAIN fb_list : fb_list[i].addr = fb_list[j].addr => i = j
       /\ \A e \in Range(fb_list) :
            /\ e.addr \in Addrs
            /\ \A d \in Range(fb_list) : SameFb(e, d) => e = d
            /\ (\E d \in Fbs : IsOn(e, d)) \/ Gone(e.ctx_id)
       /\ \A e \in Fbs : (\E d \in Range(fb_list) : IsOn(d, e) /\ d.geom = e.fb)
                         \/ (IsOn(c, e) /\ c.geom = e.fb)
       /\ \E e \in Fbs : IsOn(c, e)
       /\ \A d \in Range(fb_list) : ~SameFb(c, d)
  <2>1. c.act # "DEL_FRAMEBUFFER"
    OBVIOUS
  <2> QED
    BY ONLY c.act = "ADD_FRAMEBUFFER", <1>2, <1>3, <1>4, <2>1 DEF ReplayFbInv
<1>13. /\ \A d, e : SameFb(d, e)' <=> SameFb(d, e)
       /\ \A d, e : IsOn(d, e)' <=> IsOn(d, e)
       /\ \A id : Gone(id)' <=> Gone(id)
       /\ (\A d : SameFb(y, d) <=> SameFb(c, d)) /\ (\A d : SameFb(d, y) <=> SameFb(c, d))
       /\ \A e : IsOn(y, e) <=> IsOn(c, e)
  <2>1. LiveCtxs' = LiveCtxs
    BY <1>1 DEF LiveCtxs, Recorded
  <2> QED
    BY <1>1, <1>8, <2>1 DEF SameFb, IsOn, Gone
<1>14. FbMatch'
  <2>1. ASSUME NEW i \in 1..n + 1, NEW j \in 1..n + 1, fb_list'[i].addr = fb_list'[j].addr
        PROVE  i = j
    <3>1. (i = n + 1 \/ i \in 1..n) /\ (j = n + 1 \/ j \in 1..n)
      BY ONLY <1>10, <2>1
    <3>2. \A k \in 1..n : fb_list'[k] \in Range(fb_list)
      BY ONLY <1>10 DEF Range
    <3>3. CASE i \in 1..n /\ j \in 1..n
      BY ONLY <1>10, <1>12, <2>1, <3>3
    <3>4. CASE ~(i \in 1..n /\ j \in 1..n)
      BY ONLY <1>10, <1>11, <2>1, <3>1, <3>2, <3>4
    <3> QED
      BY <3>3, <3>4
  <2>2. ASSUME NEW e \in Range(fb_list')
        PROVE  /\ e.addr \in Addrs
               /\ \A d \in Range(fb_list') : SameFb(e, d) => e = d
               /\ (\E d \in Fbs : IsOn(e, d)) \/ Gone(e.ctx_id)
    <3>1. CASE e = y
      BY <1>8, <1>11, <1>12, <1>13, <3>1
    <3>2. CASE e \in Range(fb_list)
      BY <1>11, <1>12, <1>13, <3>2
    <3> QED
      BY <1>11, <2>2, <3>1, <3>2
  <2>3. ASSUME NEW e \in Fbs
        PROVE  \E d \in Range(fb_list') : IsOn(d, e) /\ d.geom = e.fb
    BY <1>8, <1>11, <1>12, <1>13
  <2>4. (Range(fb_list))' = Range(fb_list')
    OBVIOUS
  <2> QED
    BY ONLY <1>1, <1>10, <1>13, <2>1, <2>2, <2>3, <2>4, Zenon DEF FbMatch
<1>15. ReplayFbInv(t)'
  <2>1. \A d : d \notin Range(Unread(t)')
    BY <1>4, <1>5, LeftAfter
  <2> QED
    BY <1>14, <2>1, MatchNext
<1>16. ScreenInv(t)'
  <2>1. call[t].op # "display"
    <3>1. \A d : out[t] = <<d>> => d = c
      BY <1>4
    <3> QED
      BY <1>1, <1>2, <3>1 DEF ScreenInv
  <2>2. /\ displayed_fb # None =>
             \E d \in Range(fb_list) :
                 d.addr = displayed_fb /\ overlay = [bo_id |-> d.bo_id, geom |-> d.geom]
        /\ crtc # None => crtc \in FbIds /\ kfb[crtc] # NoFb
        /\ crtc \in OtherFbs \cup {None} \/ (call[t].op = "rmfb" /\ call[t].obj = crtc) \/ OnScreen(crtc)
    BY <1>2, <2>1 DEF ScreenInv
  <2>3. call'[t].op # "display" /\ (call[t].op = "rmfb" => call'[t] = call[t])
    BY <1>1, <2>1
  <2>4. (Range(fb_list))' = Range(fb_list') /\ NoFb' = NoFb
    BY DEF NoFb
  <2>5. OnScreen(crtc) => OnScreen(crtc)'
    BY ONLY <1>1, <1>5, <1>11, <1>13, <2>4, Zenon DEF OnScreen
  <2>6. crtc \in OtherFbs \cup {None} \/ (call'[t].op = "rmfb" /\ call'[t].obj = crtc) \/ OnScreen(crtc)'
    BY <2>2, <2>3, <2>5
  <2>7. displayed_fb # None =>
             \E d \in Range(fb_list') :
                 d.addr = displayed_fb /\ overlay = [bo_id |-> d.bo_id, geom |-> d.geom]
    BY <1>11, <2>2
  <2> QED
    BY ONLY <1>1, <1>5, <2>2, <2>3, <2>4, <2>6, <2>7, Zenon DEF ScreenInv
<1> QED
  BY <1>1, <1>15, <1>16 DEF DisplayInv

\* DEL_FRAMEBUFFER: the replay drops a framebuffer that libwrap has dropped.
LEMMA DelRead ==
  ASSUME NEW t, Threads = {t}, ReplayInv(t), DisplayInv(t), record_write_data(t), status' = "running",
         pending = <<>>, NEW c, c = Head(out[t]), c.act = "DEL_FRAMEBUFFER", destroy_framebuffer(c)
  PROVE  DisplayInv(t)'
<1>1. /\ KernelFbInv(t)' /\ ContextIdsInv(t)' /\ ShowsInv(t)' /\ Fbs' = Fbs
      /\ UNCHANGED <<program, gem, kfb, crtc, rec_ctx, ctx_cnt>>
      /\ out[t] # <<>>
      /\ call'[t] = call[t] \/ (call[t].op \in {"opening", "return"} /\ call'[t].op = "none")
  BY WriteStays
<1>2. ReplayFbInv(t) /\ ScreenInv(t)
  BY DEF DisplayInv
<1>3. c \in Range(Unread(t)) /\ c.act \in FbRecords
  BY <1>1, UnreadIs DEF FbRecords
<1>4. Len(Unread(t)) = 1 /\ Len(pending) = 0 /\ out[t] = <<c>> /\ \A d \in Range(Unread(t)) : d = c
  <2>2. Len(Unread(t)) = 1 /\ Len(pending) = 0 /\ out[t] = <<c>>
    BY <1>2, <1>3, AloneRead
  <2>3. Unread(t) \in Seq(Range(Unread(t)))
    BY <1>1, UnreadIs
  <2>4. DOMAIN Unread(t) = {1}
    BY <2>2, <2>3, ListIs
  <2>5. \A d \in Range(Unread(t)) : d = Unread(t)[1]
    BY <2>4 DEF Range
  <2> QED
    BY <1>3, <2>2, <2>5
<1>5. /\ \E i \in lookup_framebuffer(c.bo_id, c.ctx_id) :
            /\ fb_list' = RemoveAt(fb_list, i)
            /\ displayed_fb' = IF displayed_fb = fb_list[i].addr THEN None ELSE displayed_fb
      /\ pending' = <<>> /\ UNCHANGED overlay
  <2>1. ~Asserted
    BY DEF Asserted
  <2> QED
    BY <2>1, Zenon DEF destroy_framebuffer
<1>6. PICK k \in lookup_framebuffer(c.bo_id, c.ctx_id) :
            /\ fb_list' = RemoveAt(fb_list, k)
            /\ displayed_fb' = IF displayed_fb = fb_list[k].addr THEN None ELSE displayed_fb
  BY <1>5
<1>7. PICK y : y = fb_list[k]
  OBVIOUS
<1>8. k \in DOMAIN fb_list /\ y.bo_id = c.bo_id /\ y.ctx_id = c.ctx_id
  BY <1>7 DEF lookup_framebuffer
<1>9. PICK n : n = Len(fb_list)
  OBVIOUS
<1>10. /\ n \in Nat \ {0} /\ DOMAIN fb_list = 1..n /\ DOMAIN fb_list' = 1..n - 1
       /\ \A i \in 1..n - 1 : fb_list'[i] = IF i < k THEN fb_list[i] ELSE fb_list[i + 1]
  <2>1. fb_list \in Seq(Range(fb_list))
    BY DEF ReplayInv, ListsInv
  <2> QED
    BY <1>6, <1>8, <1>9, <2>1, ListIs, RemoveAtList
<1>11. /\ \A i, j \in 1..n : fb_list[i].addr = fb_list[j].addr => i = j
       /\ \A e \in Range(fb_list) :
            /\ e.addr \in Addrs
            /\ \A d \in Range(fb_list) : SameFb(e, d) => e = d
            /\ (\E d \in Fbs : IsOn(e, d)) \/ SameFb(e, c) \/ Gone(e.ctx_id)
       /\ \A e \in Fbs : \E d \in Range(fb_list) : IsOn(d, e) /\ d.geom = e.fb
       /\ \A e \in Fbs : ~IsOn(c, e)
  <2>1. c.act # "ADD_FRAMEBUFFER"
    OBVIOUS
  <2> QED
    BY ONLY c.act = "DEL_FRAMEBUFFER", <1>2, <1>3, <1>4, <1>10, <2>1 DEF ReplayFbInv
<1>12. /\ \A d : d \in Range(fb_list') <=> d \in Range(fb_list) /\ d # y
       /\ \A d \in Range(fb_list) : d.addr = y.addr => d = y
       /\ y \in Range(fb_list)
  <2>1. ASSUME NEW i \in 1..n - 1
        PROVE  fb_list'[i] \in Range(fb_list) /\ fb_list'[i] # y
    <3>1. PICK j \in 1..n : j # k /\ fb_list'[i] = fb_list[j]
      <4>1. CASE i < k
        <5>1. i \in 1..n
          BY ONLY <1>10, <2>1
        <5> QED
          BY ONLY <1>10, <2>1, <4>1, <5>1
      <4>2. CASE ~(i < k)
        <5>1. i + 1 \in 1..n /\ i + 1 # k
          BY ONLY <1>8, <1>10, <2>1, <4>2
        <5> QED
          BY ONLY <1>10, <2>1, <4>2, <5>1
      <4> QED
        BY <4>1, <4>2
    <3> QED
      BY ONLY <1>7, <1>8, <1>10, <1>11, <3>1 DEF Range
  <2>2. ASSUME NEW j \in 1..n, j # k
        PROVE  fb_list[j] \in Range(fb_list')
    <3>1. CASE j < k
      <4>1. j \in 1..n - 1 /\ fb_list'[j] = fb_list[j]
        BY ONLY <1>8, <1>10, <2>2, <3>1
      <4> QED
        BY ONLY <1>10, <4>1 DEF Range
    <3>2. CASE ~(j < k)
      <4>1. PICK i : i = j - 1
        OBVIOUS
      <4>2. i \in 1..n - 1 /\ ~(i < k) /\ i + 1 = j
        BY ONLY <1>8, <1>10, <2>2, <3>2, <4>1
      <4>3. fb_list'[i] = fb_list[j]
        BY ONLY <1>10, <4>2
      <4> QED
        BY ONLY <1>10, <4>2, <4>3 DEF Range
    <3> QED
      BY <3>1, <3>2
  <2>3. \A d \in Range(fb_list') : d \in Range(fb_list) /\ d # y
    BY ONLY <1>10, <2>1 DEF Range
  <2>4. \A d \in Range(fb_list) : d # y => d \in Range(fb_list')
    BY ONLY <1>7, <1>10, <2>2 DEF Range
  <2>5. \A d \in Range(fb_list) : d.addr = y.addr => d = y
    BY ONLY <1>7, <1>8, <1>10, <1>11 DEF Range
  <2>6. y \in Range(fb_list)
    BY ONLY <1>7, <1>8 DEF Range
  <2> QED
    BY <2>3, <2>4, <2>5, <2>6
<1>13. /\ \A d, e : SameFb(d, e)' <=> SameFb(d, e)
       /\ \A d, e : IsOn(d, e)' <=> IsOn(d, e)
       /\ \A id : Gone(id)' <=> Gone(id)
       /\ \A d : SameFb(d, c) => SameFb(d, y)
       /\ \A e : IsOn(y, e) => IsOn(c, e)
  <2>1. LiveCtxs' = LiveCtxs
    BY <1>1 DEF LiveCtxs, Recorded
  <2> QED
    BY <1>1, <1>8, <2>1 DEF SameFb, IsOn, Gone
<1>14. FbMatch'
  <2>1. ASSUME NEW i \in 1..n - 1, NEW j \in 1..n - 1, fb_list'[i].addr = fb_list'[j].addr
        PROVE  i = j
    <3>1. PICK a, b : a = (IF i < k THEN i ELSE i + 1) /\ b = (IF j < k THEN j ELSE j + 1)
      OBVIOUS
    <3>2. a \in 1..n /\ b \in 1..n /\ (a = b => i = j)
      BY ONLY <1>8, <1>10, <2>1, <3>1
    <3>3. fb_list'[i] = fb_list[a] /\ fb_list'[j] = fb_list[b]
      BY ONLY <1>10, <2>1, <3>1
    <3> QED
      BY ONLY <1>11, <2>1, <3>2, <3>3
  <2>2. ASSUME NEW e \in Range(fb_list')
        PROVE  /\ e.addr \in Addrs
               /\ \A d \in Range(fb_list') : SameFb(e, d) => e = d
               /\ (\E d \in Fbs : IsOn(e, d)) \/ Gone(e.ctx_id)
    BY ONLY <1>11, <1>12, <1>13, <2>2
  <2>3. ASSUME NEW e \in Fbs
        PROVE  \E d \in Range(fb_list') : IsOn(d, e) /\ d.geom = e.fb
    BY ONLY <1>11, <1>12, <1>13, <2>3
  <2>4. (Range(fb_list))' = Range(fb_list')
    OBVIOUS
  <2> QED
    BY ONLY <1>1, <1>10, <1>13, <2>1, <2>2, <2>3, <2>4, Zenon DEF FbMatch
<1>15. ReplayFbInv(t)'
  <2>1. \A d : d \notin Range(Unread(t)')
    BY <1>4, <1>5, LeftAfter
  <2> QED
    BY <1>14, <2>1, MatchNext
<1>16. ScreenInv(t)'
  <2>1. call[t].op # "display"
    <3>1. \A d : out[t] = <<d>> => d = c
      BY <1>4
    <3> QED
      BY <1>1, <1>2, <3>1 DEF ScreenInv
  <2>2. /\ displayed_fb # None =>
             \E d \in Range(fb_list) :
                 d.addr = displayed_fb /\ overlay = [bo_id |-> d.bo_id, geom |-> d.geom]
        /\ crtc # None => crtc \in FbIds /\ kfb[crtc] # NoFb
        /\ crtc \in OtherFbs \cup {None} \/ (call[t].op = "rmfb" /\ call[t].obj = crtc) \/ OnScreen(crtc)
    BY <1>2, <2>1 DEF ScreenInv
  <2>3. call'[t].op # "display" /\ (call[t].op = "rmfb" => call'[t] = call[t])
    BY <1>1, <2>1
  <2>4. (Range(fb_list))' = Range(fb_list') /\ NoFb' = NoFb
    BY DEF NoFb
  <2>5. OnScreen(crtc) => OnScreen(crtc)'
    <3> SUFFICES ASSUME NEW e \in Fbs, e.fb = crtc, NEW d \in Range(fb_list), IsOn(d, e), d.addr = displayed_fb
                 PROVE  OnScreen(crtc)'
      BY DEF OnScreen
    <3>1. d # y
      BY <1>11, <1>13
    <3>2. d \in Range(fb_list') /\ d.addr # y.addr
      BY <1>12, <3>1
    <3>3. displayed_fb' = displayed_fb
      BY <1>6, <1>7, <3>2
    <3> QED
      BY <1>1, <1>13, <2>4, <3>2, <3>3, Zenon DEF OnScreen
  <2>6. crtc \in OtherFbs \cup {None} \/ (call'[t].op = "rmfb" /\ call'[t].obj = crtc) \/ OnScreen(crtc)'
    BY <2>2, <2>3, <2>5
  <2>7. displayed_fb' # None =>
             \E d \in Range(fb_list') :
                 d.addr = displayed_fb' /\ overlay = [bo_id |-> d.bo_id, geom |-> d.geom]
    <3> SUFFICES ASSUME displayed_fb' # None
                 PROVE  \E d \in Range(fb_list') :
                          d.addr = displayed_fb' /\ overlay = [bo_id |-> d.bo_id, geom |-> d.geom]
      OBVIOUS
    <3>1. displayed_fb' = displayed_fb /\ displayed_fb # y.addr
      BY <1>6, <1>7
    <3>2. PICK d \in Range(fb_list) :
            d.addr = displayed_fb /\ overlay = [bo_id |-> d.bo_id, geom |-> d.geom]
      BY <2>2, <3>1
    <3>3. d # y
      BY <3>1, <3>2
    <3> QED
      BY <1>12, <3>1, <3>2, <3>3
  <2> QED
    BY ONLY <1>1, <1>5, <2>2, <2>3, <2>4, <2>6, <2>7, Zenon DEF ScreenInv
<1> QED
  BY <1>1, <1>15, <1>16 DEF DisplayInv

\* DISP_FRAMEBUFFER: the overlay shows the framebuffer that the kernel is about to show.
LEMMA DispRead ==
  ASSUME NEW t, Threads = {t}, ReplayInv(t), DisplayInv(t), record_write_data(t), status' = "running",
         pending = <<>>, NEW c, c = Head(out[t]), c.act = "DISP_FRAMEBUFFER", display_framebuffer(c)
  PROVE  DisplayInv(t)'
<1>1. /\ KernelFbInv(t)' /\ ContextIdsInv(t)' /\ ShowsInv(t)' /\ Fbs' = Fbs
      /\ UNCHANGED <<program, gem, kfb, crtc, rec_ctx, ctx_cnt>>
      /\ out[t] # <<>> /\ out'[t] = Tail(out[t])
      /\ call'[t] = call[t] \/ (call[t].op \in {"opening", "return"} /\ call'[t].op = "none")
  BY WriteStays
<1>2. ReplayFbInv(t) /\ ScreenInv(t) /\ ShowsInv(t)
  BY DEF DisplayInv
<1>3. c \in Range(Unread(t)) /\ c.act \in FbRecords
  BY <1>1, UnreadIs DEF FbRecords
<1>4. Len(Unread(t)) = 1 /\ Len(pending) = 0 /\ out[t] = <<c>> /\ \A d \in Range(Unread(t)) : d = c
  <2>2. Len(Unread(t)) = 1 /\ Len(pending) = 0 /\ out[t] = <<c>>
    BY <1>2, <1>3, AloneRead
  <2>3. Unread(t) \in Seq(Range(Unread(t)))
    BY <1>1, UnreadIs
  <2>4. DOMAIN Unread(t) = {1}
    BY <2>2, <2>3, ListIs
  <2>5. \A d \in Range(Unread(t)) : d = Unread(t)[1]
    BY <2>4 DEF Range
  <2> QED
    BY <1>3, <2>2, <2>5
<1>5. call[t].op = "display" /\ call'[t] = call[t] /\ out'[t] = <<>>
  <2>1. c \in Range(out[t])
    BY <1>4, OneRecord
  <2>2. call[t].op = "display"
    BY <1>2, <2>1 DEF ShowsInv
  <2> QED
    BY <1>1, <1>4, <2>2
<1>6. PICK e \in Fbs : e.fb = call[t].obj /\ IsOn(c, e)
  <2>1. \A d : out[t] = <<d>> => d = c
    BY <1>4
  <2> QED
    BY <1>1, <1>2, <1>5, <2>1 DEF ScreenInv
<1>7. /\ \E i \in lookup_framebuffer(c.bo_id, c.ctx_id) :
           /\ overlay' = IF displayed_fb = fb_list[i].addr THEN overlay
                         ELSE [bo_id |-> fb_list[i].bo_id, geom |-> fb_list[i].geom]
           /\ displayed_fb' = fb_list[i].addr
      /\ UNCHANGED <<fb_list, pending>>
  <2>1. ~Asserted
    BY DEF Asserted
  <2>2. UNCHANGED lists => UNCHANGED fb_list
    BY DEF lists
  <2> QED
    BY <2>1, <2>2, Zenon DEF display_framebuffer
<1>8. PICK k \in lookup_framebuffer(c.bo_id, c.ctx_id) :
           /\ overlay' = IF displayed_fb = fb_list[k].addr THEN overlay
                         ELSE [bo_id |-> fb_list[k].bo_id, geom |-> fb_list[k].geom]
           /\ displayed_fb' = fb_list[k].addr
  BY <1>7
<1>9. PICK y : y = fb_list[k]
  OBVIOUS
<1>10. k \in DOMAIN fb_list /\ y \in Range(fb_list) /\ y.bo_id = c.bo_id /\ y.ctx_id = c.ctx_id
  BY <1>9 DEF lookup_framebuffer, Range
<1>11. FbMatch
  BY <1>2, <1>4, MatchRest
<1>12. ReplayFbInv(t)'
  <2>1. FbMatch'
    BY <1>1, <1>7, <1>11, MatchSame
  <2>2. \A d : d \notin Range(Unread(t)')
    BY <1>4, <1>7, LeftAfter
  <2> QED
    BY <2>1, <2>2, MatchNext
<1>13. ScreenInv(t)'
  <2>1. /\ displayed_fb # None =>
             \E d \in Range(fb_list) :
                 d.addr = displayed_fb /\ overlay = [bo_id |-> d.bo_id, geom |-> d.geom]
        /\ crtc # None => crtc \in FbIds /\ kfb[crtc] # NoFb
    BY <1>2 DEF ScreenInv
  <2>2. (Range(fb_list))' = Range(fb_list) /\ NoFb' = NoFb
    BY <1>7 DEF NoFb
  <2>3. y.addr # None /\ \A d \in Range(fb_list) : d.addr = y.addr => d = y
    <3>1. y.addr \in Addrs /\ \A i, j \in DOMAIN fb_list : fb_list[i].addr = fb_list[j].addr => i = j
      BY <1>10, <1>11 DEF FbMatch
    <3> QED
      BY <1>9, <1>10, <3>1, AddrsAssumption DEF Range
  <2>4. displayed_fb' = y.addr /\ overlay' = [bo_id |-> y.bo_id, geom |-> y.geom]
    <3>1. CASE displayed_fb = y.addr
      <4>1. PICK d \in Range(fb_list) :
              d.addr = displayed_fb /\ overlay = [bo_id |-> d.bo_id, geom |-> d.geom]
        BY <2>1, <2>3, <3>1
      <4>2. d = y
        BY <2>3, <3>1, <4>1
      <4> QED
        BY <1>8, <1>9, <3>1, <4>1, <4>2
    <3>2. CASE displayed_fb # y.addr
      BY <1>8, <1>9, <3>2
    <3> QED
      BY <3>1, <3>2
  <2>5. \E d \in Range(fb_list) :
            d.addr = displayed_fb' /\ overlay' = [bo_id |-> d.bo_id, geom |-> d.geom]
    BY <1>10, <2>4
  <2>6. OnScreen(call[t].obj)'
    <3>1. PICK b : b = call[t].obj
      OBVIOUS
    <3>2. IsOn(y, e)'
      BY <1>1, <1>6, <1>10 DEF IsOn
    <3>3. OnScreen(b)'
      BY ONLY <1>1, <1>6, <1>10, <2>2, <2>4, <3>1, <3>2, Zenon DEF OnScreen
    <3>4. call'[t].obj = b
      BY <1>5, <3>1
    <3> QED
      BY <1>5, <3>1, <3>3 DEF OnScreen
  <2>7. call'[t].op = "display" /\ call'[t].obj = call[t].obj
    BY <1>5
  <2>8. OnScreen(call[t].obj)' => out'[t] = <<>> /\ OnScreen(call[t].obj)'
    BY <1>5
  <2> QED
    BY ONLY <1>1, <1>5, <1>7, <2>1, <2>2, <2>5, <2>6, <2>7, Zenon DEF ScreenInv
<1> QED
  BY <1>1, <1>12, <1>13 DEF DisplayInv

\* A header or a record without payload
LEMMA HandleRead ==
  ASSUME NEW t, Threads = {t}, ReplayInv(t), DisplayInv(t), record_write_data(t), status' = "running",
         pending = <<>>, NEW c, c = Head(out[t]), handle(c)
  PROVE  DisplayInv(t)'
<1>1. /\ ~Asserted /\ ~Stopped
  BY DEF Asserted, Stopped
<1>2. \/ c.act = "START" /\ UNCHANGED <<lists, screen, pending>>
      \/ c.act = "INFO" /\ info(c)
      \/ c.act = "CTX_CREATE" /\ create_context(c)
      \/ c.act = "CTX_DESTROY" /\ destroy_context(c)
      \/ c.act = "BO_CREATE" /\ create_bo(c)
      \/ c.act = "BO_DESTROY" /\ destroy_bo(c)
      \/ c.act = "BO_SET_FLAGS" /\ set_bo_flags(c)
      \/ c.act = "ADD_FRAMEBUFFER" /\ create_framebuffer(c)
      \/ c.act = "DEL_FRAMEBUFFER" /\ destroy_framebuffer(c)
      \/ c.act = "DISP_FRAMEBUFFER" /\ display_framebuffer(c)
      \/ c.act = "JOB_CTX_CREATE" /\ create_job_context(c)
      \/ c.act = "JOB_CTX_DESTROY" /\ destroy_job_context(c)
      \/ c.act \in {"BO_LOAD_DATA", "JOB_SUBMIT"} /\ expect(c)
  BY <1>1, Zenon DEF handle
<1>3. \/ c.act = "ADD_FRAMEBUFFER" /\ create_framebuffer(c)
      \/ c.act = "DEL_FRAMEBUFFER" /\ destroy_framebuffer(c)
      \/ c.act = "DISP_FRAMEBUFFER" /\ display_framebuffer(c)
      \/ /\ c.act \notin FbRecords /\ UNCHANGED <<fb_list, displayed_fb, overlay>>
         /\ pending' = <<>> \/ pending' = <<c>>
  <2>1. CASE c.act = "START" /\ UNCHANGED <<lists, screen, pending>>
    BY <2>1 DEF lists, screen, FbRecords
  <2>2. CASE c.act = "INFO" /\ info(c)
    BY <1>1, <2>2 DEF info, lists, screen, FbRecords
  <2>3. CASE c.act = "CTX_CREATE" /\ create_context(c)
    BY <2>3 DEF create_context, screen, FbRecords
  <2>4. CASE c.act = "CTX_DESTROY" /\ destroy_context(c)
    BY <1>1, <2>4 DEF destroy_context, screen, FbRecords
  <2>5. CASE c.act = "BO_CREATE" /\ create_bo(c)
    BY <1>1, <2>5 DEF create_bo, screen, FbRecords
  <2>6. CASE c.act = "BO_DESTROY" /\ destroy_bo(c)
    BY <1>1, <2>6 DEF destroy_bo, screen, FbRecords
  <2>7. CASE c.act = "BO_SET_FLAGS" /\ set_bo_flags(c)
    BY <1>1, <2>7 DEF set_bo_flags, lists, screen, FbRecords
  <2>8. CASE c.act = "JOB_CTX_CREATE" /\ create_job_context(c)
    BY <2>8 DEF create_job_context, screen, FbRecords
  <2>9. CASE c.act = "JOB_CTX_DESTROY" /\ destroy_job_context(c)
    BY <1>1, <2>9 DEF destroy_job_context, screen, FbRecords
  <2>10. CASE c.act \in {"BO_LOAD_DATA", "JOB_SUBMIT"} /\ expect(c)
    BY <1>1, <2>10 DEF expect, lists, screen, FbRecords
  <2> QED
    BY <1>2, <2>1, <2>2, <2>3, <2>4, <2>5, <2>6, <2>7, <2>8, <2>9, <2>10
<1>4. CASE /\ c.act \notin FbRecords /\ UNCHANGED <<fb_list, displayed_fb, overlay>>
           /\ pending' = <<>> \/ pending' = <<c>>
  <2>1. pending' = <<c>> => pending' = Append(pending, Head(out[t]))
    OBVIOUS
  <2> QED
    BY <1>4, <2>1, OtherRead
<1> QED
  BY <1>3, <1>4, AddRead, DelRead, DispRead

\* A payload
LEMMA PayloadRead ==
  ASSUME NEW t, Threads = {t}, ReplayInv(t), DisplayInv(t), record_write_data(t), status' = "running",
         pending # <<>>, NEW c, c = Head(out[t]), NEW h, h = Head(pending),
         \/ h.act = "BO_LOAD_DATA" /\ load_bo(c)
         \/ h.act = "JOB_SUBMIT" /\ Len(pending) = 1 /\ read_gathers(c)
         \/ h.act = "JOB_SUBMIT" /\ Len(pending) = 2 /\ submit_job(c)
  PROVE  DisplayInv(t)'
<1>1. /\ ~Asserted /\ ~Stopped
  BY DEF Asserted, Stopped
<1>2. CASE h.act = "BO_LOAD_DATA" /\ load_bo(c)
  <2>1. pending' = <<>> /\ UNCHANGED <<fb_list, screen>>
    BY <1>1, <1>2 DEF load_bo
  <2>2. c.act \notin FbRecords
    BY <1>2, PayloadIs DEF FbRecords
  <2> QED
    BY <2>1, <2>2, OtherRead DEF screen
<1>3. CASE h.act = "JOB_SUBMIT" /\ Len(pending) = 1 /\ read_gathers(c)
  <2>1. pending = <<h>> /\ c.act = "gathers"
    BY <1>3, PayloadIs
  <2>2. UNCHANGED <<fb_list, screen>> /\ pending' = IF h.num_relocs > 0 THEN <<h, c>> ELSE <<>>
    BY <1>1, <1>3 DEF read_gathers, lists
  <2>3. pending' = <<>> \/ pending' = Append(pending, Head(out[t]))
    BY <2>1, <2>2, AppendOne
  <2>4. c.act \notin FbRecords
    BY <2>1 DEF FbRecords
  <2> QED
    BY <2>2, <2>3, <2>4, OtherRead DEF screen
<1>4. CASE h.act = "JOB_SUBMIT" /\ Len(pending) = 2 /\ submit_job(c)
  <2>1. pending' = <<>> /\ UNCHANGED <<fb_list, screen>>
    BY <1>1, <1>4 DEF submit_job
  <2>2. c.act \notin FbRecords
    BY <1>4, PayloadIs DEF FbRecords
  <2> QED
    BY <2>1, <2>2, OtherRead DEF screen
<1> QED
  BY <1>2, <1>3, <1>4

\* Every record the replay reads keeps what is known of the framebuffers.
LEMMA WriteScreen ==
  ASSUME NEW t, Threads = {t}, ReplayInv(t), DisplayInv(t), record_write_data(t)
  PROVE  DisplayInv(t)'
<1>1. status = "running" /\ status' = "running"
  BY ReadStep DEF ReplayInv
<1>2. Consume(Head(out[t]))
  BY DEF record_write_data
<1>3. CASE pending = <<>>
  BY <1>1, <1>2, <1>3, HandleRead DEF Consume
<1>4. CASE pending # <<>>
  <2>1. \/ Head(pending).act = "BO_LOAD_DATA" /\ load_bo(Head(out[t]))
        \/ Head(pending).act = "JOB_SUBMIT" /\ Len(pending) = 1 /\ read_gathers(Head(out[t]))
        \/ Head(pending).act = "JOB_SUBMIT" /\ Len(pending) = 2 /\ submit_job(Head(out[t]))
    BY <1>1, <1>2, <1>4 DEF Consume
  <2> QED
    BY <1>1, <1>4, <2>1, PayloadRead
<1> QED
  BY <1>3, <1>4

-----------------------------------------------------------------------------
(* Every step *)

\* Every step of libwrap keeps what is known of the framebuffers.
LEMMA NextScreen ==
  ASSUME NEW t, Threads = {t}, ShadowInv, "bad" \notin program.ops, Displayable,
         ReplayInv(t), ReplayInv(t)', SizesInv(t), DisplayInv(t), UNCHANGED <<program, repVars>>, RecorderNext
  PROVE  DisplayInv(t)'
<1>0. /\ program.keep_handles /\ program.one_fb
      /\ "close_file" \in program.ops => program.max_ids <= IdMod
      /\ program.max_ids \in Nat
  BY ProgramsAssumption DEF Displayable, SizesInv
<1>1. ASSUME NEW s \in Threads, NEW f \in Files,
             \/ OpenFile(s, f) \/ CloseFile(s, f) \/ CloseFd(s, f)
             \/ \E h \in Handles :
                 \/ GemMmap(s, f, h) \/ GemClose(s, f, h) \/ SetFlags(s, f, h)
                 \/ BadHandle(s, f, h)
                 \/ \E o \in Objs : GemCreate(s, f, h, o)
                 \/ \E b \in FbIds : AddFb(s, f, h, b)
             \/ \E b \in FbIds : RmFb(s, f, b) \/ Display(s, f, b)
             \/ \E c \in Chans :
                 \/ OpenChannel(s, f, c) \/ CloseChannel(s, f, c)
                 \/ \E g \in Handles, T \in SUBSET Handles :
                     \E w \in Jobs(T) : Submit(s, f, c, g, T, w)
      PROVE  DisplayInv(t)'
  <2>0. s = t
    OBVIOUS
  <2>1. CASE OpenFile(s, f)
    BY <1>0, <2>0, <2>1, OpenScreenSteps
  <2>2. CASE CloseFile(s, f)
    BY <2>0, <2>2, CloseFileScreen
  <2>3. ASSUME NEW h \in Handles, GemMmap(s, f, h) \/ SetFlags(s, f, h)
        PROVE  DisplayInv(t)'
    BY <2>0, <2>3, QuietScreenSteps, Zenon
  <2>4. ASSUME NEW h \in Handles, GemClose(s, f, h)
        PROVE  DisplayInv(t)'
    BY <1>0, <2>0, <2>4, HandleScreenSteps
  <2>5. ASSUME NEW h \in Handles, NEW o \in Objs, GemCreate(s, f, h, o)
        PROVE  DisplayInv(t)'
    BY <1>0, <2>0, <2>5, HandleScreenSteps
  <2>6. ASSUME NEW h \in Handles, NEW b \in FbIds, AddFb(s, f, h, b)
        PROVE  DisplayInv(t)'
    BY <1>0, <2>0, <2>6, AddFbScreen
  <2>7. ASSUME NEW b \in FbIds, RmFb(s, f, b)
        PROVE  DisplayInv(t)'
    BY <2>0, <2>7, RmFbScreen, RmOtherScreen, Zenon
  <2>8. ASSUME NEW b \in FbIds, Display(s, f, b)
        PROVE  DisplayInv(t)'
    BY <2>0, <2>8, DisplayScreen
  <2>9. ASSUME NEW c \in Chans, OpenChannel(s, f, c) \/ CloseChannel(s, f, c)
        PROVE  DisplayInv(t)'
    BY <2>0, <2>9, QuietScreenSteps, Zenon
  <2>10. ASSUME NEW c \in Chans, NEW g \in Handles, NEW T \in SUBSET Handles, NEW w \in Jobs(T),
                Submit(s, f, c, g, T, w)
         PROVE  DisplayInv(t)'
    BY <2>0, <2>10, SubmitScreen
  <2>11. ASSUME NEW h \in Handles, BadHandle(s, f, h)
         PROVE  DisplayInv(t)'
    BY <2>11 DEF BadHandle
  <2>12. CASE CloseFd(s, f)
    BY <2>0, <2>12, QuietScreenSteps, Zenon
  <2> QED
    BY <1>1, <2>1, <2>2, <2>3, <2>4, <2>5, <2>6, <2>7, <2>8, <2>9, <2>10, <2>11, <2>12, Zenon
<1>2. ASSUME NEW s \in Threads,
             \/ Started(s) \/ Counted(s) \/ GemCreateLeave(s) \/ GemMmapLeave(s) \/ GemCloseLeave(s)
             \/ AddFbLeave(s) \/ FbKernel(s) \/ OpenChannelLeave(s) \/ CloseChannelLeave(s)
             \/ SubmitKernel(s) \/ DiskFull(s)
      PROVE  DisplayInv(t)'
  <2>0. s = t
    OBVIOUS
  <2>1. CASE Started(s) \/ Counted(s)
    <3>1. call[t].op \in {"start", "counting"}
      BY <2>0, <2>1 DEF Started, Counted
    <3>2. call[t].file \in Files
      BY <3>1 DEF ReplayInv, OpenInv
    <3> QED
      BY <1>0, <2>0, <2>1, <3>2, OpenScreenSteps
  <2>2. CASE OpenChannelLeave(s) \/ CloseChannelLeave(s) \/ SubmitKernel(s)
    BY <2>0, <2>2, QuietScreenSteps, Zenon
  <2>3. CASE GemCreateLeave(s) \/ GemMmapLeave(s)
    BY <2>0, <2>3, CreateLeaveScreen, MmapLeaveScreen
  <2>4. CASE GemCloseLeave(s) \/ AddFbLeave(s)
    BY <2>0, <2>4, CloseLeaveScreen, AddFbLeaveScreen
  <2>5. CASE FbKernel(s)
    BY <2>0, <2>5, FbKernelScreen
  <2>6. CASE DiskFull(s)
    BY <2>0, <2>6, AbortScreen, Zenon DEF DiskFull
  <2> QED
    BY <1>2, <2>1, <2>2, <2>3, <2>4, <2>5, <2>6
<1>3. ASSUME NEW s \in Threads, NEW f \in Files, NEW h \in Handles, NEW p \in PageNos, NEW v \in Values,
             CpuWrite(s, f, h, p, v)
      PROVE  DisplayInv(t)'
  <2>1. CpuWrite(t, f, h, p, v)
    BY <1>3
  <2> QED
    BY <2>1, QuietScreenSteps, Zenon
<1> QED
  BY <1>1, <1>2, <1>3, Zenon DEF RecorderNext

\* At the start there is no framebuffer.
LEMMA InitScreen ==
  ASSUME NEW t, Threads = {t}, Init
  PROVE  DisplayInv(t)
<1>1. /\ program \in Programs /\ bos = [f \in Files |-> <<>>] /\ call[t].op = "none"
      /\ out[t] = <<>> /\ pending = <<>> /\ fb_list = <<>> /\ displayed_fb = None /\ crtc = None
      /\ kfb = [b \in FbIds |-> NoFb] /\ ctx_cnt = 0 /\ rec_ctx = [f \in Files |-> None]
  BY CallFields DEF Init, RecorderInit, ReplayInit
<1>2. DOMAIN <<>> = {} /\ \A c : c \notin Range(<<>>)
  BY NoRecord
<1>3. \A e : e \notin Fbs
  <2>1. \A f \in Files : DOMAIN bos[f] = {}
    BY <1>1, <1>2
  <2> QED
    BY <2>1, FbsAre DEF Fbs
<1>4. Unread(t) = <<>>
  BY <1>1 DEF Unread
<1>5. KernelFbInv(t)
  BY <1>1, <1>3 DEF KernelFbInv
<1>6. ContextIdsInv(t)
  <2>1. LiveCtxs = {}
    BY <1>1 DEF LiveCtxs, Recorded
  <2>2. program.max_ids \in Nat
    BY <1>1, ProgramsAssumption
  <2> QED
    BY <1>1, <2>1, <2>2 DEF ContextIdsInv
<1>7. ReplayFbInv(t)
  <2>1. DOMAIN fb_list = {} /\ \A c : c \notin Range(fb_list)
    BY <1>1, <1>2
  <2>2. \A c : c \notin Range(Unread(t))
    BY <1>2, <1>4
  <2> QED
    BY ONLY <1>3, <2>1, <2>2 DEF ReplayFbInv
<1>8. ScreenInv(t)
  BY <1>1 DEF ScreenInv
<1>9. ShowsInv(t)
  BY <1>1, <1>2 DEF ShowsInv
<1> QED
  BY <1>5, <1>6, <1>7, <1>8, <1>9 DEF DisplayInv

\* In every state that a program of one thread reaches, if it has one framebuffer on a
\* buffer, whose handle it keeps, the framebuffers of the replay are those of the kernel
\* once the record that is left is carried out, but for those of a format that libwrap
\* does not record, and the replay believes that it displays the one that the kernel
\* shows, if it is a recorded one.
THEOREM ScreenInvariant ==
  ASSUME NEW t, Threads = {t}
  PROVE  Spec => []DInv
<1>1. Init => DInv
  BY InitScreen DEF DInv
<1>2. RInv /\ RInv' /\ IInv /\ DInv /\ [Next]_vars => DInv'
  <2> SUFFICES ASSUME RInv, RInv', IInv, DInv, [Next]_vars, Displayable'
               PROVE  DisplayInv(t)'
    BY DEF DInv
  <2>1. ReplayInv(t) /\ ReplayInv(t)' /\ SizesInv(t)
    BY DEF RInv
  <2>2. program' = program
    BY DEF Next, StartOver, record_write_data, vars, recVars
  <2>3. Displayable /\ "bad" \notin program.ops /\ ShadowInv /\ DisplayInv(t)
    BY <2>2 DEF IInv, DInv, Displayable
  <2>4. CASE RecorderNext /\ UNCHANGED <<program, repVars>>
    BY <2>1, <2>3, <2>4, NextScreen
  <2>5. ASSUME NEW s \in Threads, NEW f \in Files, StartOver(s, f)
        PROVE  FALSE
    <3>1. s = t /\ Idle(s) /\ \E r \in Threads : call[r].op = "start"
      BY <2>5 DEF StartOver, StartAgain
    <3> QED
      BY <2>1, <3>1, IdleIs
  <2>6. ASSUME NEW s \in Threads, record_write_data(s)
        PROVE  DisplayInv(t)'
    <3>1. s = t
      OBVIOUS
    <3> QED
      BY <2>1, <2>3, <2>6, <3>1, WriteScreen
  <2>7. CASE UNCHANGED vars
    <3>1. UNCHANGED <<program, repVars, gem, kfb, crtc, rec_ctx, bos, ctx_cnt, call, out>>
      BY <2>7 DEF vars, recVars, kernel, shadow, recorder
    <3> QED
      BY <2>3, <3>1, StillScreen
  <2> QED
    BY <2>4, <2>5, <2>6, <2>7 DEF Next
<1>3. Spec => []RInv
  BY ReplayInvariant
<1>4. Spec => []IInv
  BY InductiveInvariant
<1> QED
  BY <1>1, <1>2, <1>3, <1>4, PTL DEF Spec

\* Between the calls of such a program, while the kernel shows a framebuffer of a format
\* that libwrap records, the overlay of the replay shows it too, with its geometry.
THEOREM DisplayCorrect ==
  ASSUME NEW t, Threads = {t}
  PROVE  Spec => [](Displayable => DisplayFollows)
<1>1. RInv /\ DInv => (Displayable => DisplayFollows)
  <2> SUFFICES ASSUME RInv, DInv, Displayable, Quiescent, crtc \notin OtherFbs \cup {None}
               PROVE  \E i \in DOMAIN bos[kfb[crtc].file] :
                          LET b == bos[kfb[crtc].file][i] IN
                          b.fb_id = crtc /\ overlay = [bo_id |-> b.id, geom |-> crtc]
    BY DEF DisplayFollows
  <2>1. ReplayInv(t) /\ KernelFbInv(t) /\ ReplayFbInv(t) /\ ScreenInv(t)
    BY DEF RInv, DInv, DisplayInv
  <2>2. call[t].op = "none" /\ out[t] = <<>>
    BY CallFields DEF Quiescent
  <2>3. Unread(t) = <<>>
    BY <2>1, <2>2, NothingUnread DEF ReplayInv
  <2>4. FbMatch
    <3>1. \A c : c \notin Range(Unread(t))
      BY <2>3, NoRecord
    <3> QED
      BY <2>1, <3>1, MatchRest
  <2>5. OnScreen(crtc)
    BY <2>1, <2>2 DEF ScreenInv
  <2>6. PICK e \in Fbs : e.fb = crtc /\ \E c \in Range(fb_list) : IsOn(c, e) /\ c.addr = displayed_fb
    BY <2>5 DEF OnScreen
  <2>7. PICK c \in Range(fb_list) : IsOn(c, e) /\ c.addr = displayed_fb
    BY <2>6
  <2>8. displayed_fb # None
    BY <2>4, <2>7, AddrsAssumption DEF FbMatch
  <2>9. PICK d \in Range(fb_list) :
          d.addr = displayed_fb /\ overlay = [bo_id |-> d.bo_id, geom |-> d.geom]
    BY <2>1, <2>8 DEF ScreenInv
  <2>10. d = c
    <3>1. \A i, j \in DOMAIN fb_list : fb_list[i].addr = fb_list[j].addr => i = j
      BY <2>4 DEF FbMatch
    <3> QED
      BY <2>7, <2>9, <3>1 DEF Range
  <2>11. c.geom = e.fb
    <3>1. PICK x \in Range(fb_list) : IsOn(x, e) /\ x.geom = e.fb
      BY <2>4 DEF FbMatch
    <3>2. SameFb(c, x)
      BY <2>7, <3>1 DEF IsOn, SameFb
    <3>3. c = x
      BY <2>4, <3>2 DEF FbMatch
    <3> QED
      BY <3>1, <3>3
  <2>12. PICK f \in Files : \E i \in DOMAIN bos[f] : bos[f][i].fb_id # None /\ e = FbOf(f, bos[f][i])
    BY FbsAre DEF Fbs
  <2>13. PICK i \in DOMAIN bos[f] : e = FbOf(f, bos[f][i])
    BY <2>12
  <2>14. e.file = f /\ e.id = bos[f][i].id /\ e.fb = bos[f][i].fb_id
    BY <2>13, FbFields
  <2>15. kfb[crtc].file = f
    BY <2>1, <2>6, <2>14, FbBacked
  <2>16. bos[f][i].fb_id = crtc /\ overlay = [bo_id |-> bos[f][i].id, geom |-> crtc]
    BY <2>6, <2>7, <2>9, <2>10, <2>11, <2>14 DEF IsOn
  <2> QED
    BY <2>15, <2>16
<1>2. Spec => []RInv
  BY ReplayInvariant
<1>3. Spec => []DInv
  BY ScreenInvariant
<1> QED
  BY <1>1, <1>2, <1>3, PTL
=============================================================================
