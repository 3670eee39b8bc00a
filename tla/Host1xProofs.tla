---------------------------- MODULE Host1xProofs ----------------------------
(***************************************************************************)
(* Proofs about libhost1x, for any number of buffers, handles, channels    *)
(* and jobs, any sizes, and whichever calls the kernel refuses.            *)
(***************************************************************************)
EXTENDS Host1x, FiniteSetTheorems, SequenceTheorems, TLAPS

-----------------------------------------------------------------------------
(* Frames *)

\* What is known of the buffers depends on nothing else.
LEMMA BuffersFrame ==
  ASSUME BuffersInv, UNCHANGED <<setup, gem, maps, bos>>
  PROVE  BuffersInv'
BY DEF BuffersInv, HandleInv, MappingInv, PointerInv, WrappedInside, OwnerOf, Live, Object, Nvhost

\* Between two jobs, what is known of them does not depend on the buffers.
LEMMA JobsFrame ==
  ASSUME JobsInv, Idle, UNCHANGED <<setup, queue, syncpt, max, fence, cmds, call, gaveUp>>
  PROVE  JobsInv'
BY DEF JobsInv, CallInv, JobsHitTheirTargets, SyncptInv, FenceInv, WordsInv, QuietInv, CommandsIntact,
       Idle, NoCall, Nvhost, NewUapi

\* The type of a buffer.
LEMMA BoType ==
  ASSUME TypeOK, NEW b \in Bos, Live(b)
  PROVE  /\ bos[b] \in IF Nvhost THEN NvhostBo ELSE DrmBo
         /\ bos[b].handle \in Handles /\ bos[b].wrapped \in Bos \cup {None}
         /\ bos[b].offset \in Nat /\ bos[b].size \in Nat /\ bos[b].ptr \in Objs \cup {None}
         /\ Nvhost => bos[b].mapped \in Objs \cup {None}
         /\ ~Nvhost => /\ bos[b].mappings \in [Slots -> [channel : Chans \cup {None}, id : MapIds \cup {None}]]
                       /\ \A s \in Slots : /\ bos[b].mappings[s].channel \in Chans \cup {None}
                                           /\ bos[b].mappings[s].id \in MapIds \cup {None}
<1>1. bos[b] \in IF Nvhost THEN NvhostBo ELSE DrmBo
  BY DEF TypeOK, Live
<1> QED
  BY <1>1 DEF DrmBo, NvhostBo

-----------------------------------------------------------------------------
(* Buffer objects *)

\* A new owner of a handle that was free.
LEMMA NewOwner ==
  ASSUME IInv, NEW b \in Bos, NEW h \in Handles, NEW o \in Objs, NEW r,
         ~Live(b), gem[h] = None,
         r \in IF Nvhost THEN NvhostBo ELSE DrmBo,
         r.handle = h, r.wrapped = None, r.ptr = None,
         Nvhost => r.mapped = None,
         ~Nvhost => \A s \in Slots : r.mappings[s] = [channel |-> None, id |-> None],
         gem' = [gem EXCEPT ![h] = o], bos' = [bos EXCEPT ![b] = r],
         UNCHANGED <<setup, maps>>
  PROVE  BuffersInv' /\ bos' \in [Bos -> (IF Nvhost' THEN NvhostBo ELSE DrmBo) \cup {None}]
                     /\ gem' \in [Handles -> Objs \cup {None}]
<1> USE NoneAssumption DEF IInv, BuffersInv
<1>1. /\ bos' \in [Bos -> (IF Nvhost' THEN NvhostBo ELSE DrmBo) \cup {None}]
      /\ gem' \in [Handles -> Objs \cup {None}]
  BY DEF TypeOK, Nvhost
<1>2. /\ bos'[b] = r /\ Live(b)' /\ \A x \in Bos \ {b} : bos'[x] = bos[x] /\ (Live(x)' <=> Live(x))
      /\ gem'[h] = o /\ \A g \in Handles \ {h} : gem'[g] = gem[g]
      /\ (Nvhost' <=> Nvhost) /\ o # None
  BY DEF TypeOK, Live, Nvhost
<1>3. \A x \in Bos : Live(x) => /\ bos[x].handle \in Handles \ {h}
                                /\ x # b /\ bos[x].wrapped # b
  BY BoType DEF HandleInv, OwnerOf
<1>4. HandleInv'
  <2>1. \A x \in Bos \ {b} : \A k : OwnerOf(x, k)' <=> OwnerOf(x, k)
    BY <1>2 DEF OwnerOf
  <2>2. \A k : OwnerOf(b, k)' <=> k = h
    BY <1>2 DEF OwnerOf
  <2>3. /\ \A x \in Bos : ~OwnerOf(x, h)
        /\ \A k : ~OwnerOf(b, k)
    BY <1>3 DEF OwnerOf
  <2>4. \A x \in Bos : Live(x)' => gem'[bos'[x].handle] # None
    BY <1>2, <1>3 DEF HandleInv
  <2>5. \A k \in Handles : gem'[k] # None => \E x \in Bos : OwnerOf(x, k)'
    BY <1>2, <2>1, <2>2, <2>3 DEF HandleInv
  <2>6. \A k \in Handles : \A x, y \in Bos : OwnerOf(x, k)' /\ OwnerOf(y, k)' => x = y
    BY <2>1, <2>2, <2>3 DEF HandleInv
  <2>7. \A w \in Bos : (Live(w) /\ bos[w].wrapped # None => OwnerOf(bos[w].wrapped, bos[w].handle))'
    <3> SUFFICES ASSUME NEW w \in Bos, Live(w)', bos'[w].wrapped # None
                 PROVE  OwnerOf(bos[w].wrapped, bos[w].handle)'
      OBVIOUS
    <3>1. w # b /\ Live(w) /\ bos'[w] = bos[w] /\ bos[w].wrapped \in Bos \ {b}
      BY <1>2, <1>3, BoType
    <3>2. OwnerOf(bos[w].wrapped, bos[w].handle)
      BY <3>1, <1>2 DEF HandleInv
    <3> QED
      BY <3>1, <3>2, <2>1
  <2> QED
    BY <2>4, <2>5, <2>6, <2>7 DEF HandleInv
<1>5. \A x \in Bos \ {b} : Live(x) => Object(x)' = Object(x)
  BY <1>2, <1>3 DEF Object
<1>6. MappingInv'
  BY <1>2, <1>3, <1>5 DEF MappingInv
<1>7. PointerInv'
  BY <1>2, <1>3, <1>5 DEF PointerInv
<1>8. WrappedInside'
  BY <1>2, <1>3 DEF WrappedInside, HandleInv, OwnerOf
<1> QED
  BY <1>1, <1>4, <1>6, <1>7, <1>8

LEMMA bo_createInv ==
  ASSUME IInv, NEW b \in Bos, NEW h \in Handles, NEW o \in Objs, NEW n \in Sizes, NEW g \in Guards,
         bo_create(b, h, o, n, g)
  PROVE  IInv'
<1> USE NoneAssumption DEF bo_create
<1>1. n + 2 * g \in Nat /\ g \in Nat
  BY SizesAssumption
<1> DEFINE r == IF Nvhost THEN nvhost_bo(h, n + 2 * g, g) ELSE drm_bo(h, n + 2 * g, g)
<1>2. /\ r \in IF Nvhost THEN NvhostBo ELSE DrmBo
      /\ r.handle = h /\ r.wrapped = None /\ r.ptr = None
      /\ Nvhost => r.mapped = None
      /\ ~Nvhost => \A s \in Slots : r.mappings[s] = [channel |-> None, id |-> None]
  BY <1>1 DEF nvhost_bo, drm_bo, NvhostBo, DrmBo
<1> HIDE DEF r
<1>3. bos' = [bos EXCEPT ![b] = r]
  BY DEF r
<1>4. BuffersInv' /\ bos' \in [Bos -> (IF Nvhost' THEN NvhostBo ELSE DrmBo) \cup {None}]
                  /\ gem' \in [Handles -> Objs \cup {None}]
  BY <1>2, <1>3, NewOwner
<1>5. TypeOK'
  BY <1>4 DEF IInv, TypeOK, told, Nvhost
<1>6. JobsInv'
  BY JobsFrame DEF IInv, told
<1> QED
  BY <1>4, <1>5, <1>6 DEF IInv

\* Another handle of an object: a buffer of its own.
LEMMA bo_importInv ==
  ASSUME IInv, NEW b \in Bos, NEW h \in Handles, NEW src \in Bos, bo_import(b, h, src)
  PROVE  IInv'
<1> USE NoneAssumption DEF bo_import
<1>1. Object(src) \in Objs
  BY BoType DEF IInv, TypeOK, BuffersInv, HandleInv, Object
<1> DEFINE r == drm_bo(h, 0, 0)
<1>2. /\ r \in IF Nvhost THEN NvhostBo ELSE DrmBo
      /\ r.handle = h /\ r.wrapped = None /\ r.ptr = None
      /\ \A s \in Slots : r.mappings[s] = [channel |-> None, id |-> None]
  BY DEF drm_bo, DrmBo
<1> HIDE DEF r
<1>3. bos' = [bos EXCEPT ![b] = r]
  BY DEF r
<1>4. BuffersInv' /\ bos' \in [Bos -> (IF Nvhost' THEN NvhostBo ELSE DrmBo) \cup {None}]
                  /\ gem' \in [Handles -> Objs \cup {None}]
  BY <1>1, <1>2, <1>3, NewOwner
<1>5. TypeOK'
  BY <1>4 DEF IInv, TypeOK, told, Nvhost
<1>6. JobsInv'
  BY JobsFrame DEF IInv, told
<1> QED
  BY <1>4, <1>5, <1>6 DEF IInv

\* A part of a buffer, or of the buffer it is a part of.
LEMMA bo_wrapInv ==
  ASSUME IInv, NEW w \in Bos, NEW b \in Bos, NEW off \in {0} \cup Sizes, NEW n \in Sizes, bo_wrap(w, b, off, n)
  PROVE  IInv'
<1> USE NoneAssumption DEF bo_wrap, IInv, BuffersInv
<1> DEFINE o == Orig(b)
           shift == (IF bos[b].wrapped # None THEN bos[b].size ELSE 0) + off
           r == [bos[b] EXCEPT !.offset = @ + shift, !.wrapped = o, !.size = n, !.ptr = None]
<1>1. n \in Nat /\ off \in Nat
  BY SizesAssumption
<1>2. OwnerOf(o, bos[b].handle) /\ o \in Bos
  BY BoType DEF Orig, HandleInv, OwnerOf
<1>3. /\ bos[b] \in IF Nvhost THEN NvhostBo ELSE DrmBo
      /\ bos[b].offset + shift \in Nat
  BY <1>1, BoType
<1>4. /\ r \in IF Nvhost THEN NvhostBo ELSE DrmBo
      /\ r.handle = bos[b].handle /\ r.wrapped = o /\ r.ptr = None
      /\ r.offset = bos[b].offset + shift /\ r.size = n
      /\ Nvhost => r.mapped = bos[b].mapped
      /\ ~Nvhost => r.mappings = bos[b].mappings
  BY <1>1, <1>2, <1>3 DEF NvhostBo, DrmBo
<1>5. bos[b].offset + shift + n <= bos[o].size
  BY <1>1, <1>2, BoType DEF WrapEnd
<1>6. bos' = [bos EXCEPT ![w] = r]
  <2>1. bos[b].offset + (IF bos[b].wrapped # None THEN bos[b].size ELSE 0) + off = bos[b].offset + shift
    BY <1>1, BoType
  <2> QED
    BY <2>1
<1> HIDE DEF o, r, shift
<1>7. bos' \in [Bos -> (IF Nvhost' THEN NvhostBo ELSE DrmBo) \cup {None}]
  BY <1>4, <1>6 DEF TypeOK, Nvhost, kernel
<1>8. TypeOK'
  BY <1>7 DEF TypeOK, told, Nvhost, kernel
<1>9. /\ bos'[w] = r /\ Live(w)' /\ \A x \in Bos \ {w} : bos'[x] = bos[x] /\ (Live(x)' <=> Live(x))
      /\ UNCHANGED <<setup, gem, maps>> /\ (Nvhost' <=> Nvhost)
      /\ w # b /\ w # o
  BY <1>2, <1>4, <1>6 DEF TypeOK, Live, Nvhost, kernel, OwnerOf
<1>10. \A x \in Bos : Live(x) => bos[x].wrapped \in (Bos \ {w}) \cup {None}
  BY BoType DEF HandleInv, OwnerOf
<1>11. \A x \in Bos \ {w} : \A k : OwnerOf(x, k)' <=> OwnerOf(x, k)
  BY <1>9 DEF OwnerOf
<1>12. HandleInv'
  <2>1. \A k : ~OwnerOf(w, k) /\ ~OwnerOf(w, k)'
    BY <1>2, <1>4, <1>9 DEF OwnerOf
  <2>2. \A x \in Bos : Live(x)' => gem'[bos'[x].handle] # None
    BY <1>9, <1>4 DEF HandleInv
  <2>3. \A x \in Bos : (Live(x) /\ bos[x].wrapped # None => OwnerOf(bos[x].wrapped, bos[x].handle))'
    <3>1. (OwnerOf(bos[w].wrapped, bos[w].handle))'
      BY <1>2, <1>4, <1>9, <1>11
    <3>2. ASSUME NEW x \in Bos \ {w}, Live(x), bos[x].wrapped # None
          PROVE  (OwnerOf(bos[x].wrapped, bos[x].handle))'
      <4>1. bos'[x] = bos[x] /\ bos[x].wrapped \in Bos \ {w}
        BY <1>9, <1>10, <3>2
      <4>2. OwnerOf(bos[x].wrapped, bos[x].handle)
        BY <3>2 DEF HandleInv
      <4> QED
        BY <4>1, <4>2, <1>11
    <3> QED
      BY <3>1, <3>2, <1>9
  <2> QED
    BY <1>9, <1>11, <2>1, <2>2, <2>3 DEF HandleInv
<1>13. \A x \in Bos \ {w} : Object(x)' = Object(x)
  BY <1>9 DEF Object
<1>14. Object(w)' = Object(b)
  BY <1>9, <1>4 DEF Object
<1>15. MappingInv'
  BY <1>4, <1>9, <1>13, <1>14 DEF MappingInv
<1>16. PointerInv'
  BY <1>4, <1>9, <1>13, <1>14 DEF PointerInv
<1>17. WrappedInside'
  <2>1. r.offset + r.size <= bos[o].size
    BY <1>4, <1>5
  <2>2. (bos[w].offset + bos[w].size <= bos[bos[w].wrapped].size)'
    BY <2>1, <1>4, <1>9, <1>2
  <2>3. \A x \in Bos \ {w} : (Live(x) /\ bos[x].wrapped # None =>
                                 bos[x].offset + bos[x].size <= bos[bos[x].wrapped].size)'
    BY <1>9, <1>10 DEF WrappedInside
  <2> QED
    BY <2>2, <2>3 DEF WrappedInside
<1>18. JobsInv'
  BY JobsFrame DEF told, kernel
<1> QED
  BY <1>8, <1>12, <1>15, <1>16, <1>17, <1>18

\* A step that leaves the buffers their handles and ranges.
LEMMA KeepsRanges ==
  ASSUME IInv, UNCHANGED <<setup, gem>>,
         \A x \in Bos : /\ Live(x)' <=> Live(x)
                        /\ Live(x) => /\ bos'[x].handle = bos[x].handle /\ bos'[x].wrapped = bos[x].wrapped
                                      /\ bos'[x].offset = bos[x].offset /\ bos'[x].size = bos[x].size
  PROVE  /\ HandleInv' /\ WrappedInside'
         /\ \A x \in Bos : Live(x) => Object(x)' = Object(x)
<1> USE NoneAssumption DEF IInv, BuffersInv
<1>1. \A x \in Bos : \A k : OwnerOf(x, k)' <=> OwnerOf(x, k)
  BY DEF OwnerOf
<1>2. ASSUME NEW x \in Bos, Live(x), bos[x].wrapped # None
      PROVE  /\ bos[x].wrapped \in Bos /\ Live(bos[x].wrapped)
             /\ OwnerOf(bos[x].wrapped, bos[x].handle)
  BY <1>2, BoType DEF HandleInv, OwnerOf
<1>3. HandleInv'
  <2>1. \A x \in Bos : (Live(x) /\ bos[x].wrapped # None => OwnerOf(bos[x].wrapped, bos[x].handle))'
    BY <1>1, <1>2
  <2> QED
    BY <1>1, <2>1 DEF HandleInv
<1>4. WrappedInside'
  BY <1>2 DEF WrappedInside
<1> QED
  BY <1>3, <1>4 DEF Object

\* A mapping shows the object of the buffer and of its original.
LEMMA bo_mmapInv ==
  ASSUME IInv, NEW b \in Bos, bo_mmap(b)
  PROVE  IInv'
<1> USE NoneAssumption DEF bo_mmap, IInv, BuffersInv
<1> DEFINE o == Orig(b)
           BoOf == IF Nvhost THEN NvhostBo ELSE DrmBo
<1>1. o \in Bos /\ Live(o) /\ bos[o].handle = bos[b].handle /\ Object(b) \in Objs /\ Object(o) = Object(b)
  BY BoType DEF Orig, HandleInv, OwnerOf, Object, TypeOK
<1> HIDE DEF o
<1>2. UNCHANGED <<setup, gem, maps>> /\ (Nvhost' <=> Nvhost) /\ (NewUapi' <=> NewUapi)
  BY DEF kernel, Nvhost, NewUapi
<1>3. /\ bos' \in [Bos -> BoOf \cup {None}]
      /\ \A x \in Bos : /\ Live(x)' <=> Live(x)
                        /\ Live(x) => /\ bos'[x].handle = bos[x].handle /\ bos'[x].wrapped = bos[x].wrapped
                                      /\ bos'[x].offset = bos[x].offset /\ bos'[x].size = bos[x].size
                                      /\ ~Nvhost => bos'[x].mappings = bos[x].mappings
                                      /\ bos'[x].ptr \in {None, Object(x)}
                                      /\ Nvhost => bos'[x].mapped \in {None, Object(x)}
  <2>1. CASE drm_bo_mmap(b)
    <3> DEFINE p == IF bos[o].ptr # None THEN bos[o].ptr ELSE Object(b)
    <3>1. ~Nvhost /\ p = Object(b) /\ p \in Objs
      BY <2>1, <1>1 DEF drm_bo_mmap, PointerInv
    <3>2. bos' = [x \in Bos |-> IF x \in {o, b} THEN [bos[x] EXCEPT !.ptr = p] ELSE bos[x]]
      BY <2>1 DEF drm_bo_mmap, o
    <3> HIDE DEF p
    <3>3. \A x \in Bos : Live(x) => bos[x] \in DrmBo
      BY <3>1, BoType
    <3>4. \A x \in {o, b} : /\ bos'[x] \in DrmBo /\ bos'[x].ptr = Object(x)
                            /\ bos'[x].handle = bos[x].handle /\ bos'[x].wrapped = bos[x].wrapped
                            /\ bos'[x].offset = bos[x].offset /\ bos'[x].size = bos[x].size
                            /\ bos'[x].mappings = bos[x].mappings
      BY <1>1, <3>1, <3>2, <3>3 DEF DrmBo
    <3>5. \A x \in Bos \ {o, b} : bos'[x] = bos[x]
      BY <3>2
    <3>6. bos' \in [Bos -> BoOf \cup {None}]
      <4>1. \A x \in Bos : bos'[x] \in BoOf \cup {None}
        BY <3>1, <3>4, <3>5 DEF TypeOK
      <4> QED
        BY <4>1, <3>2
    <3> QED
      BY <1>1, <3>1, <3>4, <3>5, <3>6 DEF PointerInv, Live
  <2>2. CASE nvhost_bo_mmap(b)
    <3> DEFINE p == IF bos[o].mapped # None THEN bos[o].mapped ELSE Object(b)
               noted == [bos EXCEPT ![o].mapped = p]
    <3>1. Nvhost /\ p = Object(b) /\ p \in Objs
      BY <2>2, <1>1 DEF nvhost_bo_mmap, PointerInv
    <3>2. bos' = [noted EXCEPT ![b].ptr = p]
      BY <2>2 DEF nvhost_bo_mmap, o
    <3> HIDE DEF p
    <3>3. \A x \in Bos : Live(x) => bos[x] \in NvhostBo
      BY <3>1, BoType
    <3>4. /\ noted[o] \in NvhostBo /\ noted[o].mapped = p /\ noted[o].ptr = bos[o].ptr
          /\ noted[o].handle = bos[o].handle /\ noted[o].wrapped = bos[o].wrapped
          /\ noted[o].offset = bos[o].offset /\ noted[o].size = bos[o].size
          /\ DOMAIN noted = Bos /\ \A x \in Bos \ {o} : noted[x] = bos[x]
      BY <1>1, <3>1, <3>3 DEF NvhostBo, TypeOK
    <3> HIDE DEF noted
    <3>5. /\ bos'[b] \in NvhostBo /\ bos'[b].ptr = p /\ bos'[b].mapped = noted[b].mapped
          /\ bos'[b].handle = bos[b].handle /\ bos'[b].wrapped = bos[b].wrapped
          /\ bos'[b].offset = bos[b].offset /\ bos'[b].size = bos[b].size
          /\ DOMAIN bos' = Bos /\ \A x \in Bos \ {b} : bos'[x] = noted[x]
      BY <3>1, <3>2, <3>3, <3>4 DEF NvhostBo
    <3>6. \A x \in Bos \ {o, b} : bos'[x] = bos[x]
      BY <3>4, <3>5
    <3>7. bos' \in [Bos -> BoOf \cup {None}]
      <4>1. \A x \in Bos : bos'[x] \in BoOf \cup {None}
        BY <3>1, <3>4, <3>5, <3>6, <1>1 DEF TypeOK
      <4>2. bos' = [x \in Bos |-> bos'[x]]
        BY <3>2, <3>5 DEF noted
      <4> QED
        BY <4>1, <4>2
    <3> QED
      BY <1>1, <3>1, <3>4, <3>5, <3>6, <3>7 DEF PointerInv, Live
  <2> QED
    BY <2>1, <2>2
<1>4. HandleInv' /\ WrappedInside' /\ \A x \in Bos : Live(x) => Object(x)' = Object(x)
  BY <1>2, <1>3, KeepsRanges
<1>5. MappingInv'
  BY <1>2, <1>3, <1>4 DEF MappingInv
<1>6. PointerInv'
  BY <1>2, <1>3, <1>4 DEF PointerInv
<1>7. TypeOK'
  BY <1>2, <1>3 DEF TypeOK, told, kernel, Nvhost
<1>8. JobsInv'
  BY JobsFrame DEF told, kernel
<1> QED
  BY <1>4, <1>5, <1>6, <1>7, <1>8

\* The handle and the mappings of an original go with it; nobody else has them.
LEMMA bo_freeInv ==
  ASSUME IInv, NEW b \in Bos, bo_free(b)
  PROVE  IInv'
<1> USE NoneAssumption DEF bo_free, IInv, BuffersInv
<1>1. /\ bos' = [bos EXCEPT ![b] = None] /\ ~Live(b)'
      /\ \A x \in Bos \ {b} : bos'[x] = bos[x] /\ (Live(x)' <=> Live(x))
      /\ UNCHANGED setup /\ (Nvhost' <=> Nvhost)
  BY DEF TypeOK, Live, Nvhost
<1>2. \A x \in Bos : Live(x) => bos[x].wrapped \in (Bos \ {b}) \cup {None}
  BY BoType
<1>3. \A x \in Bos \ {b} : \A k : OwnerOf(x, k)' <=> OwnerOf(x, k)
  BY <1>1 DEF OwnerOf
<1>4. ASSUME OwnsKernelObjects(b), NEW x \in Bos \ {b}, Live(x)
      PROVE  bos[x].handle # bos[b].handle
  <2>1. OwnerOf(b, bos[b].handle) /\ bos[b].handle \in Handles
    BY <1>4, BoType DEF OwnerOf, OwnsKernelObjects
  <2>2. CASE bos[x].wrapped = None
    BY <1>4, <2>1, <2>2 DEF HandleInv, OwnerOf
  <2>3. CASE bos[x].wrapped # None
    BY <1>2, <1>4, <2>1, <2>3 DEF HandleInv
  <2> QED
    BY <2>2, <2>3
<1>5. gem' = IF OwnsKernelObjects(b) THEN [gem EXCEPT ![bos[b].handle] = None] ELSE gem
  BY DEF drm_bo_free, nvhost_bo_free, Closed
<1>6. \A x \in Bos \ {b} : Live(x) => gem'[bos[x].handle] = gem[bos[x].handle]
  BY <1>4, <1>5, BoType DEF TypeOK
<1>7. \A x \in Bos \ {b} : Live(x) => Object(x)' = Object(x)
  BY <1>1, <1>6 DEF Object
<1>8. HandleInv'
  <2>1. \A x \in Bos : (Live(x) => gem[bos[x].handle] # None)'
    BY <1>1, <1>6 DEF HandleInv
  <2>2. \A k \in Handles : (gem[k] # None => \E x \in Bos : OwnerOf(x, k))'
    <3> SUFFICES ASSUME NEW k \in Handles, gem'[k] # None
                 PROVE  \E x \in Bos : OwnerOf(x, k)'
      OBVIOUS
    <3>1. gem[k] # None /\ (OwnsKernelObjects(b) => k # bos[b].handle)
      BY <1>5 DEF TypeOK
    <3>2. PICK x \in Bos : OwnerOf(x, k)
      BY <3>1 DEF HandleInv
    <3>3. x # b
      BY <3>1, <3>2 DEF OwnerOf, OwnsKernelObjects
    <3> QED
      BY <3>2, <3>3, <1>3
  <2>3. \A k \in Handles : \A x, y \in Bos : OwnerOf(x, k)' /\ OwnerOf(y, k)' => x = y
    BY <1>1, <1>3 DEF HandleInv, OwnerOf
  <2>4. \A x \in Bos : (Live(x) /\ bos[x].wrapped # None => OwnerOf(bos[x].wrapped, bos[x].handle))'
    BY <1>1, <1>2, <1>3 DEF HandleInv
  <2> QED
    BY <2>1, <2>2, <2>3, <2>4 DEF HandleInv
<1>9. MappingInv'
  <2> SUFFICES ASSUME ~Nvhost, NEW x \in Bos \ {b}, Live(x), NEW s \in Slots
               PROVE  LET m == bos[x].mappings[s] IN
                      /\ m.channel = None <=> m.id = None
                      /\ m.id # None => /\ maps'[m.channel][m.id] = Object(x)
                                        /\ \A a \in Bos \ {b} : Live(a) => \A r \in Slots :
                                             bos[a].mappings[r] = m => bos[a].handle = bos[x].handle
    BY <1>1, <1>7 DEF MappingInv
  <2> DEFINE m == bos[x].mappings[s]
  <2>1. /\ m.channel = None <=> m.id = None
        /\ m.id # None => /\ maps[m.channel][m.id] = Object(x)
                          /\ \A a \in Bos : Live(a) => \A r \in Slots :
                               bos[a].mappings[r] = m => bos[a].handle = bos[x].handle
    BY DEF MappingInv
  <2>2. ASSUME m.id # None
        PROVE  maps'[m.channel][m.id] = maps[m.channel][m.id]
    <3>1. m.channel \in Chans /\ m.id \in MapIds /\ m = [channel |-> m.channel, id |-> m.id]
      BY <2>1, <2>2, BoType
    <3>2. CASE OwnsKernelObjects(b)
      <4>1. \A r \in Slots : bos[b].mappings[r] # m
        BY <1>4, <2>1, <2>2, <3>2
      <4>2. maps' = [c \in Chans |-> [i \in MapIds |->
                       IF \E r \in Unmapped(b) : bos[b].mappings[r] = [channel |-> c, id |-> i]
                       THEN None ELSE maps[c][i]]]
        BY <3>2 DEF drm_bo_free, nvhost_bo_free
      <4>3. Unmapped(b) \subseteq Slots
        BY DEF Unmapped
      <4> QED
        BY <3>1, <4>1, <4>2, <4>3
    <3>3. CASE ~OwnsKernelObjects(b)
      BY <3>3 DEF drm_bo_free, nvhost_bo_free
    <3> QED
      BY <3>2, <3>3
  <2> QED
    BY <2>1, <2>2
<1>10. PointerInv'
  BY <1>1, <1>7 DEF PointerInv
<1>11. WrappedInside'
  BY <1>1, <1>2 DEF WrappedInside
<1>12. TypeOK'
  <2>1. bos' \in [Bos -> (IF Nvhost' THEN NvhostBo ELSE DrmBo) \cup {None}]
    BY <1>1 DEF TypeOK
  <2>2. gem' \in [Handles -> Objs \cup {None}]
    BY <1>5 DEF TypeOK
  <2>3. maps' \in [Chans -> [MapIds -> Objs \cup {None}]]
    <3>1. CASE UNCHANGED maps
      BY <3>1 DEF TypeOK
    <3>2. CASE maps' = [c \in Chans |-> [i \in MapIds |->
                          IF \E t \in Unmapped(b) : bos[b].mappings[t] = [channel |-> c, id |-> i]
                          THEN None ELSE maps[c][i]]]
      BY <3>2 DEF TypeOK
    <3> QED
      BY <3>1, <3>2 DEF drm_bo_free, nvhost_bo_free
  <2> QED
    BY <2>1, <2>2, <2>3 DEF TypeOK, told
<1>13. JobsInv'
  BY JobsFrame DEF told
<1> QED
  BY <1>8, <1>9, <1>10, <1>11, <1>12, <1>13

-----------------------------------------------------------------------------
(* Jobs *)

\* The object of a buffer.
LEMMA ObjectType ==
  ASSUME IInv, NEW b \in Bos, Live(b)
  PROVE  Object(b) \in Objs
BY BoType DEF IInv, TypeOK, BuffersInv, HandleInv, Object

\* The fields of a call.
LEMMA CallType ==
  ASSUME TypeOK
  PROVE  /\ call.op \in {"none", "submit", "flush", "wait"}
         /\ call.op = "none" => call = NoCall
         /\ call.op # "none" => call.chan \in Chans
         /\ call.op = "submit" => /\ call \in [op : {"submit"}, chan : Chans, job : Nat, wanted : SUBSET Objs,
                                               todo : SUBSET Bos, objs : SUBSET Objs]
                                  /\ call.job \in Nat
                                  /\ call.wanted \in SUBSET Objs /\ call.todo \in SUBSET Bos /\ call.objs \in SUBSET Objs
         /\ call.op = "wait" => call.fence \in Nat
BY DEF TypeOK, Calls, NoCall

\* The counters of the channels.
LEMMA CounterType ==
  ASSUME TypeOK
  PROVE  /\ syncpt \in [Chans -> Nat] /\ max \in [Chans -> Nat] /\ fence \in [Chans -> Nat]
         /\ cmds \in [Chans -> Nat] /\ accepted \in [Chans -> Nat] /\ answered \in [Chans -> Nat]
         /\ queue \in [Chans -> Seq(Jobs)] /\ gaveUp \in SUBSET Chans
BY DEF TypeOK

\* The fields of a job in a queue.
LEMMA JobType ==
  ASSUME TypeOK, NEW c \in Chans, NEW k \in DOMAIN queue[c]
  PROVE  /\ queue[c] \in Seq(Jobs) /\ queue[c][k] \in Jobs
         /\ queue[c][k].job \in Nat /\ queue[c][k].words \in Nat \cup {None}
<1>1. queue[c] \in Seq(Jobs)
  BY DEF TypeOK
<1>2. queue[c][k] \in Jobs
  BY <1>1
<1> QED
  BY <1>1, <1>2 DEF Jobs

\* A job is built when the queue of its channel is empty, or its words are copied.
LEMMA BuildInv ==
  ASSUME IInv, NEW c \in Chans, NEW T \in Targets, Build(c, T)
  PROVE  IInv'
<1> USE NoneAssumption DEF Build, IInv
<1>1. BuffersInv' /\ UNCHANGED <<setup, gem, bos, queue, syncpt, max, fence, gaveUp>> /\ (Nvhost' <=> Nvhost) /\ (NewUapi' <=> NewUapi)
  BY BuffersFrame DEF kernel, told, Nvhost, NewUapi
<1>2. T \in SUBSET Bos /\ \A b \in T : Live(b) /\ Live(b)' /\ Object(b) \in Objs /\ Object(b)' = Object(b)
  BY <1>1, ObjectType DEF Targets, Live, Object
<1>3. jobs + 1 \in 0..setup.max_jobs /\ jobs + 1 \in Nat
  BY SetupsAssumption DEF TypeOK
<1>4. cmds' \in [Chans -> Nat] /\ cmds'[c] = jobs + 1 /\ \A d \in Chans \ {c} : cmds'[d] = cmds[d]
  BY <1>3 DEF TypeOK
<1>5. /\ call' \in [op : {"submit"}, chan : Chans, job : Nat, wanted : SUBSET Objs, todo : SUBSET Bos, objs : SUBSET Objs]
      /\ call'.op = "submit" /\ call'.chan = c /\ call'.job = jobs + 1
      /\ call'.wanted = {Object(b) : b \in T} /\ call'.todo = T /\ call'.objs = {}
  BY <1>2, <1>3
<1>6. TypeOK'
  BY <1>1, <1>3, <1>4, <1>5 DEF TypeOK, Calls, told, kernel, Nvhost
<1>7. CallInv'
  BY <1>2, <1>4, <1>5 DEF CallInv
<1>8. JobsHitTheirTargets' /\ SyncptInv' /\ WordsInv'
  BY <1>1 DEF JobsInv, JobsHitTheirTargets, SyncptInv, WordsInv
<1>9. FenceInv'
  BY <1>1, <1>5 DEF JobsInv, FenceInv
<1>10. ~NewUapi => \A d \in Chans \ gaveUp : queue[d] = <<>>
  BY DEF JobsInv, QuietInv, Idle, NoCall
<1>11. QuietInv'
  BY <1>1, <1>10 DEF QuietInv
<1>12. CommandsIntact'
  <2> SUFFICES ASSUME NEW d \in Chans \ gaveUp, NEW k \in DOMAIN queue[d]
               PROVE  queue[d][k].job = IF queue[d][k].words = None THEN cmds'[d] ELSE queue[d][k].words
    BY <1>1 DEF CommandsIntact
  <2>1. NewUapi
    BY <1>10
  <2> QED
    BY <2>1, JobType DEF JobsInv, WordsInv
<1> QED
  BY <1>1, <1>6, <1>7, <1>8, <1>9, <1>11, <1>12 DEF JobsInv

\* A step on the job under construction that leaves the kernel's queues alone.
LEMMA StillBuilding ==
  ASSUME IInv, call.op = "submit", call'.op = "submit", CallInv',
         UNCHANGED <<setup, queue, syncpt, max, fence, cmds, gaveUp>>
  PROVE  JobsInv'
<1> USE DEF IInv, JobsInv, Nvhost, NewUapi
<1>1. JobsHitTheirTargets' /\ SyncptInv' /\ WordsInv' /\ CommandsIntact'
  BY DEF JobsHitTheirTargets, SyncptInv, WordsInv, CommandsIntact
<1>2. FenceInv' /\ QuietInv'
  BY DEF FenceInv, QuietInv
<1> QED
  BY <1>1, <1>2

\* A step that gives the job up before it is in a queue.
LEMMA GivenUp ==
  ASSUME IInv, call.op = "submit", call' = NoCall,
         UNCHANGED <<setup, queue, syncpt, max, fence, cmds, gaveUp>>
  PROVE  JobsInv'
<1> USE DEF IInv, JobsInv, Nvhost, NewUapi, NoCall
<1>1. JobsHitTheirTargets' /\ SyncptInv' /\ WordsInv' /\ CommandsIntact' /\ CallInv'
  BY DEF JobsHitTheirTargets, SyncptInv, WordsInv, CommandsIntact, CallInv
<1>2. FenceInv' /\ QuietInv'
  BY DEF FenceInv, QuietInv
<1> QED
  BY <1>1, <1>2

\* The job after another target: one buffer less to name, its object named.
LEMMA NamesObject ==
  ASSUME IInv, NEW b \in call.todo, call.op = "submit", UNCHANGED cmds,
         call' = [call EXCEPT !.todo = @ \ {b}, !.objs = @ \cup {Object(b)}],
         \A x \in call.todo : Live(x)' /\ Object(x)' = Object(x)
  PROVE  call' \in Calls /\ CallInv' /\ call'.op = "submit"
<1> USE DEF IInv, JobsInv
<1>1. b \in Bos /\ Object(b) \in Objs
  BY CallType, ObjectType DEF CallInv
<1>2. /\ call' \in [op : {"submit"}, chan : Chans, job : Nat, wanted : SUBSET Objs, todo : SUBSET Bos, objs : SUBSET Objs]
      /\ call'.op = "submit" /\ call'.chan = call.chan /\ call'.job = call.job
      /\ call'.wanted = call.wanted /\ call'.todo = call.todo \ {b} /\ call'.objs = call.objs \cup {Object(b)}
  BY <1>1, CallType
<1>3. call.wanted = call.objs \cup {Object(x) : x \in call.todo} /\ call.job = cmds[call.chan]
  BY DEF CallInv
<1>4. call'.wanted = call'.objs \cup {Object(x)' : x \in call'.todo}
  BY <1>2, <1>3
<1>5. call'.job = cmds'[call'.chan] /\ \A x \in call'.todo : Live(x)'
  BY <1>2, <1>3
<1> QED
  BY <1>2, <1>4, <1>5 DEF Calls, CallInv

\* Both ways to name a target.
LEMMA RelocateInv ==
  ASSUME IInv, NEW b \in Bos, Relocate(b)
  PROVE  IInv'
<1> USE NoneAssumption DEF Relocate, IInv
<1> DEFINE named == [call EXCEPT !.todo = @ \ {b}, !.objs = @ \cup {Object(b)}]
<1>1. /\ call.op = "submit" /\ b \in call.todo /\ Live(b) /\ Object(b) \in Objs
      /\ call.chan \in Chans
  BY CallType, ObjectType DEF JobsInv, CallInv
<1>2. CASE Target(b)
  <2>1. UNCHANGED <<setup, kernel, bos, fence, cmds, jobs, told>> /\ call' = named
    BY <1>2 DEF Target
  <2>2. BuffersInv'
    BY <2>1, BuffersFrame DEF kernel
  <2>3. call' \in Calls /\ CallInv' /\ call'.op = "submit"
    <3>1. \A x \in call.todo : Live(x)' /\ Object(x)' = Object(x)
      BY <2>1, <1>1 DEF CallInv, JobsInv, Live, Object, kernel
    <3> QED
      BY <3>1, <2>1, <1>1, NamesObject
  <2>4. TypeOK'
    BY <2>1, <2>3 DEF TypeOK, kernel, told, Nvhost
  <2> QED
    BY <1>1, <2>1, <2>2, <2>3, <2>4, StillBuilding DEF kernel, told
<1>3. CASE bo_map(b)
  <2> DEFINE c == call.chan
  <2>1. NewUapi /\ ~Nvhost /\ UNCHANGED <<setup, gem, queue, syncpt, max, fence, cmds, jobs, told>>
    BY <1>3 DEF bo_map, NewUapi, Nvhost
  <2>2. CASE /\ call' = named
             /\ UNCHANGED <<bos, maps>>
    <3>1. BuffersInv'
      BY <2>1, <2>2, BuffersFrame
    <3>2. call' \in Calls /\ CallInv' /\ call'.op = "submit"
      <4>1. \A x \in call.todo : Live(x)' /\ Object(x)' = Object(x)
        BY <2>1, <2>2, <1>1 DEF CallInv, JobsInv, Live, Object
      <4> QED
        BY <4>1, <2>1, <2>2, <1>1, NamesObject
    <3>3. TypeOK'
      BY <2>1, <2>2, <3>2 DEF TypeOK, told, Nvhost
    <3> QED
      BY <1>1, <2>1, <3>1, <3>2, <3>3, StillBuilding DEF told
  <2>3. ASSUME NEW s \in Slots, NEW i \in MapIds, Cached(b, c) = {},
               bos[b].mappings[s].id = None, maps[c][i] = None,
               maps' = [maps EXCEPT ![c][i] = Object(b)],
               bos' = [bos EXCEPT ![b].mappings[s] = [channel |-> c, id |-> i]],
               call' = named
        PROVE  IInv'
    <3> DEFINE m == [channel |-> c, id |-> i]
               r == [bos[b] EXCEPT !.mappings[s] = m]
    <3>1. bos[b] \in DrmBo /\ bos' = [bos EXCEPT ![b] = r]
      BY <1>1, <2>1, <2>3, BoType
    <3>2. /\ r \in DrmBo /\ r.handle = bos[b].handle /\ r.wrapped = bos[b].wrapped
          /\ r.offset = bos[b].offset /\ r.size = bos[b].size /\ r.ptr = bos[b].ptr
          /\ r.mappings[s] = m /\ \A t \in Slots \ {s} : r.mappings[t] = bos[b].mappings[t]
      BY <1>1, <3>1 DEF DrmBo
    <3> HIDE DEF r
    <3>3. /\ bos' \in [Bos -> DrmBo \cup {None}] /\ bos'[b] = r
          /\ \A x \in Bos \ {b} : bos'[x] = bos[x]
      BY <2>1, <3>1, <3>2 DEF TypeOK
    <3>4. \A x \in Bos : /\ Live(x)' <=> Live(x)
                         /\ Live(x) => /\ bos'[x].handle = bos[x].handle /\ bos'[x].wrapped = bos[x].wrapped
                                       /\ bos'[x].offset = bos[x].offset /\ bos'[x].size = bos[x].size
      BY <1>1, <3>2, <3>3 DEF Live
    <3>5. HandleInv' /\ WrappedInside' /\ \A x \in Bos : Live(x) => Object(x)' = Object(x)
      BY <2>1, <3>4, KeepsRanges
    <3>6. /\ maps' \in [Chans -> [MapIds -> Objs \cup {None}]]
          /\ maps'[c][i] = Object(b)
          /\ \A d \in Chans, j \in MapIds : <<d, j>> # <<c, i>> => maps'[d][j] = maps[d][j]
      BY <1>1, <2>3 DEF TypeOK
    <3>7. \A x \in Bos : Live(x) => \A t \in Slots :
             /\ bos[x].mappings[t] # m
             /\ bos[x].mappings[t].id # None =>
                  /\ bos[x].mappings[t].channel \in Chans /\ bos[x].mappings[t].id \in MapIds
                  /\ <<bos[x].mappings[t].channel, bos[x].mappings[t].id>> # <<c, i>>
      <4> SUFFICES ASSUME NEW x \in Bos, Live(x), NEW t \in Slots, bos[x].mappings[t].id # None
                   PROVE  /\ bos[x].mappings[t].channel \in Chans /\ bos[x].mappings[t].id \in MapIds
                          /\ <<bos[x].mappings[t].channel, bos[x].mappings[t].id>> # <<c, i>>
        OBVIOUS
      <4>1. bos[x].mappings[t].channel \in Chans /\ bos[x].mappings[t].id \in MapIds
        BY <2>1, BoType DEF BuffersInv, MappingInv
      <4>2. maps[bos[x].mappings[t].channel][bos[x].mappings[t].id] # None
        BY <2>1, ObjectType DEF BuffersInv, MappingInv
      <4> QED
        BY <4>1, <4>2, <2>3
    <3>8. MappingInv'
      <4> SUFFICES ASSUME NEW x \in Bos, Live(x), NEW t \in Slots
                   PROVE  LET n == bos'[x].mappings[t] IN
                          /\ n.channel = None <=> n.id = None
                          /\ n.id # None => /\ maps'[n.channel][n.id] = Object(x)
                                            /\ \A a \in Bos : Live(a) => \A u \in Slots :
                                                 bos'[a].mappings[u] = n => bos[a].handle = bos[x].handle
        BY <3>4, <3>5 DEF MappingInv
      <4>1. /\ bos[x].mappings[t].channel = None <=> bos[x].mappings[t].id = None
            /\ bos[x].mappings[t].id # None =>
                 /\ maps[bos[x].mappings[t].channel][bos[x].mappings[t].id] = Object(x)
                 /\ \A a \in Bos : Live(a) => \A u \in Slots :
                      bos[a].mappings[u] = bos[x].mappings[t] => bos[a].handle = bos[x].handle
        BY <2>1 DEF BuffersInv, MappingInv
      <4>2. \A a \in Bos : Live(a) => \A u \in Slots :
               \/ a = b /\ u = s /\ bos'[a].mappings[u] = m
               \/ (a # b \/ u # s) /\ bos'[a].mappings[u] = bos[a].mappings[u]
        BY <3>2, <3>3
      <4>3. CASE x = b /\ t = s
        <5>1. bos'[x].mappings[t] = m /\ m.channel # None /\ m.id # None
          BY <4>2, <4>3, <1>1
        <5>2. maps'[m.channel][m.id] = Object(x)
          BY <3>6, <4>3
        <5> QED
          BY <5>1, <5>2, <3>7, <4>2, <4>3
      <4>4. CASE x # b \/ t # s
        <5>1. bos'[x].mappings[t] = bos[x].mappings[t]
          BY <4>2, <4>4
        <5>2. bos[x].mappings[t].id # None =>
                maps'[bos[x].mappings[t].channel][bos[x].mappings[t].id] = Object(x)
          BY <3>6, <3>7, <4>1
        <5> QED
          BY <5>1, <5>2, <4>1, <4>2, <3>7
      <4> QED
        BY <4>3, <4>4
    <3>9. PointerInv'
      BY <2>1, <3>2, <3>3, <3>4, <3>5 DEF BuffersInv, PointerInv, Nvhost
    <3>10. call' \in Calls /\ CallInv' /\ call'.op = "submit"
      <4>1. \A x \in call.todo : x \in Bos /\ Live(x) /\ Live(x)' /\ Object(x)' = Object(x)
        BY <1>1, <3>4, <3>5, CallType DEF CallInv, JobsInv
      <4> QED
        BY <4>1, <2>1, <2>3, <1>1, NamesObject
    <3>11. TypeOK'
      BY <2>1, <3>3, <3>6, <3>10 DEF TypeOK, told, Nvhost
    <3> QED
      BY <1>1, <2>1, <3>5, <3>8, <3>9, <3>10, <3>11, StillBuilding DEF BuffersInv, told
  <2>4. CASE Failed /\ UNCHANGED <<bos, maps>>
    <3>1. BuffersInv'
      BY <2>1, <2>4, BuffersFrame
    <3>2. TypeOK'
      BY <2>1, <2>4 DEF TypeOK, told, Nvhost, Failed, Calls
    <3> QED
      BY <1>1, <2>1, <2>4, <3>1, <3>2, GivenUp DEF told, Failed
  <2>5. \A s \in Cached(b, c) : maps[c][bos[b].mappings[s].id] = Object(b)
    BY <1>1, <2>1 DEF Cached, BuffersInv, MappingInv
  <2> QED
    BY <1>3, <2>2, <2>3, <2>4, <2>5 DEF bo_map, FreeSlot
<1> QED
  BY <1>2, <1>3

\* The kernel takes the job.
LEMMA SubmitInv ==
  ASSUME IInv, Submit
  PROVE  IInv' /\ max' = [max EXCEPT ![call.chan] = @ + 1] /\ accepted' = [accepted EXCEPT ![call.chan] = @ + 1]
<1> USE NoneAssumption DEF IInv
<1> DEFINE c == call.chan
           words == IF NewUapi THEN cmds[c] ELSE None
           job == [job |-> call.job, wanted |-> call.wanted, objs |-> call.objs, words |-> words]
<1>1. /\ call.op = "submit" /\ call.todo = {}
      /\ UNCHANGED <<setup, gem, maps, syncpt, bos, cmds, jobs, answered, gaveUp>>
      /\ (Nvhost' <=> Nvhost) /\ (NewUapi' <=> NewUapi)
      /\ accepted' = [accepted EXCEPT ![c] = @ + 1] /\ call' = [op |-> "flush", chan |-> c]
  BY DEF Submit, Told, Nvhost, NewUapi
<1>2. /\ c \in Chans /\ job \in Jobs
      /\ call.objs = call.wanted /\ call.job = cmds[c]
  <2>1. c \in Chans /\ call.job \in Nat /\ call.wanted \in SUBSET Objs /\ call.objs \in SUBSET Objs
    BY <1>1, CallType
  <2>2. words \in Nat \cup {None}
    BY <2>1, CounterType
  <2>3. call.objs = call.wanted /\ call.job = cmds[c]
    BY <1>1 DEF JobsInv, CallInv
  <2> QED
    BY <2>1, <2>2, <2>3 DEF Jobs
<1>3. Enqueue(c, words)
  BY SetupsAssumption, <1>1 DEF Submit, drm_channel_submit, drm_channel_submit2, nvhost_client_submit, NewUapi, Nvhost, TypeOK
<1>4. /\ max' = [max EXCEPT ![c] = @ + 1]
      /\ queue' = [queue EXCEPT ![c] = Append(@, job)]
  BY <1>3 DEF Enqueue
<1> HIDE DEF job
<1>5. /\ max' \in [Chans -> Nat] /\ max'[c] = max[c] + 1 /\ \A d \in Chans \ {c} : max'[d] = max[d]
      /\ queue' \in [Chans -> Seq(Jobs)] /\ queue'[c] = Append(queue[c], job)
      /\ \A d \in Chans \ {c} : queue'[d] = queue[d]
  BY <1>2, <1>4 DEF TypeOK
<1>6. /\ Len(queue'[c]) = Len(queue[c]) + 1 /\ Len(queue[c]) \in Nat
      /\ DOMAIN queue'[c] = 1..(Len(queue[c]) + 1)
      /\ queue'[c][Len(queue[c]) + 1] = job
      /\ \A k \in 1..Len(queue[c]) : queue'[c][k] = queue[c][k] /\ k \in DOMAIN queue[c]
  BY <1>2, <1>5 DEF TypeOK
<1>7. fence' = IF Nvhost THEN fence ELSE [fence EXCEPT ![c] = max[c] + 1]
  BY <1>1, <1>5, SetupsAssumption DEF Submit, drm_channel_submit, drm_channel_submit2, nvhost_client_submit, Fence, Nvhost, TypeOK
<1>8. BuffersInv'
  BY <1>1, BuffersFrame
<1>9. TypeOK'
  <2>1. call' \in Calls
    BY <1>1, <1>2 DEF Calls
  <2>2. fence' \in [Chans -> Nat] /\ accepted' \in [Chans -> Nat]
    BY <1>1, <1>2, <1>7, CounterType
  <2> QED
    BY <1>1, <1>5, <2>1, <2>2 DEF TypeOK, Nvhost
<1>10. \A d \in Chans : \A k \in DOMAIN queue'[d] :
          queue'[d][k] = job \/ (k \in DOMAIN queue[d] /\ queue'[d][k] = queue[d][k])
  <2> SUFFICES ASSUME NEW d \in Chans, NEW k \in DOMAIN queue'[d]
               PROVE  queue'[d][k] = job \/ (k \in DOMAIN queue[d] /\ queue'[d][k] = queue[d][k])
    OBVIOUS
  <2>1. CASE d = c /\ k = Len(queue[c]) + 1
    BY <2>1, <1>6
  <2>2. CASE d = c /\ k # Len(queue[c]) + 1
    <3>1. k \in 1..Len(queue[c])
      BY <2>2, <1>6
    <3> QED
      BY <3>1, <2>2, <1>6
  <2>3. CASE d # c
    BY <2>3, <1>5
  <2> QED
    BY <2>1, <2>2, <2>3
<1>11. JobsHitTheirTargets'
  <2>1. job.objs = job.wanted
    BY <1>2 DEF job
  <2> QED
    BY <2>1, <1>10 DEF JobsHitTheirTargets, JobsInv
<1>12. SyncptInv'
  <2>1. syncpt[c] \in Nat /\ max[c] \in Nat /\ syncpt[c] + Len(queue[c]) = max[c]
    BY <1>2, CounterType DEF SyncptInv, JobsInv
  <2>2. max'[c] = max[c] + 1 /\ Len(queue'[c]) = Len(queue[c]) + 1 /\ Len(queue[c]) \in Nat
    BY <1>5, <1>6
  <2>3. syncpt[c] + Len(queue'[c]) = max'[c]
    BY <2>1, <2>2
  <2> QED
    BY <2>3, <1>1, <1>5 DEF SyncptInv, JobsInv
<1>13. FenceInv' /\ CallInv'
  BY <1>1, <1>2, <1>5, <1>7 DEF FenceInv, CallInv, JobsInv, TypeOK
<1>14. WordsInv'
  <2>1. job.words = IF NewUapi THEN job.job ELSE None
    BY <1>2 DEF job
  <2> QED
    BY <2>1, <1>1, <1>10 DEF WordsInv, JobsInv
<1>15. ~NewUapi => \A d \in Chans \ gaveUp : queue[d] = <<>>
  BY <1>1 DEF JobsInv, QuietInv
<1>16. QuietInv'
  BY <1>1, <1>5, <1>15 DEF QuietInv
<1>17. CommandsIntact'
  <2> SUFFICES ASSUME NEW d \in Chans \ gaveUp, NEW k \in DOMAIN queue'[d]
               PROVE  queue'[d][k].job = IF queue'[d][k].words = None THEN cmds[d] ELSE queue'[d][k].words
    BY <1>1 DEF CommandsIntact
  <2>1. CASE NewUapi
    <3>1. queue'[d][k] \in Jobs
      BY <1>5
    <3>2. queue'[d][k].words = queue'[d][k].job
      BY <1>1, <1>14, <2>1 DEF WordsInv
    <3> QED
      BY <3>1, <3>2 DEF Jobs
  <2>2. CASE ~NewUapi
    <3>1. d = c /\ k = Len(queue[c]) + 1 /\ queue'[d][k] = job
      BY <1>5, <1>6, <1>15, <2>2
    <3> QED
      BY <1>2, <2>2, <3>1 DEF job
  <2> QED
    BY <2>1, <2>2
<1> QED
  BY <1>1, <1>4, <1>8, <1>9, <1>11, <1>12, <1>13, <1>14, <1>16, <1>17 DEF JobsInv

\* The kernel refuses the job: every target had an object, so only the call is to blame.
LEMMA SubmitRefusedInv ==
  ASSUME IInv, SubmitRefused
  PROVE  /\ IInv' /\ UNCHANGED <<max, syncpt, answered>> /\ Refuses("submit")
         /\ ~NewUapi => UNCHANGED accepted
<1> USE NoneAssumption DEF IInv
<1>1. /\ call.op = "submit" /\ call.chan \in Chans
      /\ UNCHANGED <<setup, kernel, bos, fence, cmds, jobs, answered, gaveUp>>
      /\ call' = NoCall \/ (NewUapi /\ call' = [op |-> "flush", chan |-> call.chan])
      /\ accepted' = accepted \/ (NewUapi /\ accepted' = [accepted EXCEPT ![call.chan] = @ + 1])
  BY CallType DEF SubmitRefused, Told, Failed
<1>2. Refuses("submit")
  BY <1>1, CallType DEF SubmitRefused
<1>3. BuffersInv'
  BY <1>1, BuffersFrame DEF kernel
<1>4. TypeOK'
  <2>1. call' \in Calls
    BY <1>1 DEF Calls
  <2>2. accepted' \in [Chans -> Nat]
    <3>1. accepted \in [Chans -> Nat]
      BY CounterType
    <3>2. CASE accepted' = [accepted EXCEPT ![call.chan] = @ + 1]
      BY <1>1, <3>1, <3>2
    <3> QED
      BY <1>1, <3>1, <3>2
  <2> QED
    BY <1>1, <2>1, <2>2 DEF TypeOK, kernel, Nvhost
<1>5. CASE call' = NoCall
  BY <1>1, <1>2, <1>3, <1>4, <1>5, GivenUp DEF kernel, SubmitRefused, Failed
<1>6. CASE NewUapi /\ call' = [op |-> "flush", chan |-> call.chan]
  <2>1. JobsHitTheirTargets' /\ SyncptInv' /\ WordsInv' /\ CommandsIntact' /\ CallInv'
    BY <1>1, <1>6 DEF JobsInv, JobsHitTheirTargets, SyncptInv, WordsInv, CommandsIntact, CallInv, kernel, NewUapi
  <2>2. FenceInv' /\ QuietInv'
    BY <1>1, <1>6 DEF JobsInv, FenceInv, QuietInv, kernel, NewUapi, Nvhost
  <2> QED
    BY <1>1, <1>2, <1>3, <1>4, <1>6, <2>1, <2>2 DEF JobsInv, kernel
<1> QED
  BY <1>1, <1>5, <1>6

\* The wait is for the last job of the channel.
LEMMA FlushInv ==
  ASSUME IInv, Flush
  PROVE  IInv' /\ UNCHANGED <<max, syncpt, accepted, answered>>
<1> USE NoneAssumption DEF IInv
<1> DEFINE c == call.chan
<1>1. /\ call.op = "flush" /\ c \in Chans /\ max[c] \in Nat
      /\ UNCHANGED <<setup, kernel, bos, fence, cmds, jobs, accepted, answered>>
      /\ (Nvhost' <=> Nvhost) /\ (NewUapi' <=> NewUapi)
  BY CallType DEF Flush, Nvhost, NewUapi, TypeOK
<1>2. \/ call' = [op |-> "wait", chan |-> c, fence |-> max[c]] /\ UNCHANGED gaveUp
      \/ call' = NoCall /\ gaveUp' = gaveUp \cup {c}
  BY <1>1 DEF Flush, drm_channel_flush, nvhost_client_flush, JobsInv, FenceInv
<1>3. BuffersInv'
  BY <1>1, BuffersFrame DEF kernel
<1>4. TypeOK'
  <2>1. call' \in Calls /\ gaveUp' \in SUBSET Chans
    BY <1>1, <1>2, CounterType DEF Calls
  <2> QED
    BY <1>1, <2>1 DEF TypeOK, kernel
<1>5. JobsHitTheirTargets' /\ SyncptInv' /\ WordsInv'
  BY <1>1 DEF JobsInv, JobsHitTheirTargets, SyncptInv, WordsInv, kernel
<1>6. CommandsIntact' /\ CallInv' /\ FenceInv' /\ QuietInv'
  BY <1>1, <1>2 DEF JobsInv, CommandsIntact, CallInv, FenceInv, QuietInv, kernel, NoCall
<1> QED
  BY <1>1, <1>3, <1>4, <1>5, <1>6 DEF JobsInv, kernel

\* After the answer the queue is empty; without one the channel has given up.
LEMMA WaitInv ==
  ASSUME IInv, Wait
  PROVE  /\ IInv' /\ UNCHANGED <<max, syncpt, accepted>>
         /\ \/ UNCHANGED answered
            \/ /\ call.chan \in Chans /\ syncpt[call.chan] = max[call.chan]
               /\ answered' = [answered EXCEPT ![call.chan] = accepted[call.chan]]
<1> USE NoneAssumption DEF IInv
<1> DEFINE c == call.chan
<1>1. /\ call.op = "wait" /\ c \in Chans /\ call.fence = max[c] /\ max[c] \in Nat /\ syncpt[c] \in Nat
      /\ queue[c] \in Seq(Jobs) /\ syncpt[c] + Len(queue[c]) = max[c]
      /\ UNCHANGED <<setup, kernel, bos, fence, cmds, jobs, accepted>> /\ call' = NoCall
      /\ (Nvhost' <=> Nvhost) /\ (NewUapi' <=> NewUapi)
  BY CallType DEF Wait, Nvhost, NewUapi, TypeOK, JobsInv, FenceInv, SyncptInv
<1>2. \/ /\ syncpt[c] = max[c] /\ queue[c] = <<>>
         /\ answered' = [answered EXCEPT ![c] = accepted[c]] /\ UNCHANGED gaveUp
      \/ /\ gaveUp' = gaveUp \cup {c} /\ UNCHANGED answered
  <2>1. CASE syncpt[c] >= call.fence
    <3>1. Len(queue[c]) = 0 /\ syncpt[c] = max[c]
      BY <1>1, <2>1
    <3> QED
      BY <1>1, <3>1, <2>1 DEF Wait
  <2> QED
    BY <2>1 DEF Wait
<1>3. BuffersInv'
  BY <1>1, BuffersFrame DEF kernel
<1>4. TypeOK'
  <2>1. call' \in Calls /\ gaveUp' \in SUBSET Chans /\ answered' \in [Chans -> Nat]
    BY <1>1, <1>2, CounterType DEF Calls
  <2> QED
    BY <1>1, <2>1 DEF TypeOK, kernel
<1>5. JobsHitTheirTargets' /\ SyncptInv' /\ WordsInv'
  BY <1>1 DEF JobsInv, JobsHitTheirTargets, SyncptInv, WordsInv, kernel
<1>6. CommandsIntact' /\ CallInv' /\ FenceInv' /\ QuietInv'
  BY <1>1, <1>2 DEF JobsInv, CommandsIntact, CallInv, FenceInv, QuietInv, kernel, NoCall
<1> QED
  BY <1>1, <1>2, <1>3, <1>4, <1>5, <1>6 DEF JobsInv, kernel

\* The first job leaves its queue, the others move up.
LEMMA ExecuteInv ==
  ASSUME IInv, NEW c \in Chans, Execute(c)
  PROVE  /\ IInv' /\ UNCHANGED <<max, accepted, answered>>
         /\ syncpt[c] < max[c] /\ syncpt' = [syncpt EXCEPT ![c] = @ + 1]
<1> USE NoneAssumption DEF IInv
<1>1. /\ queue[c] # <<>> /\ queue' = [queue EXCEPT ![c] = Tail(@)] /\ syncpt' = [syncpt EXCEPT ![c] = @ + 1]
      /\ UNCHANGED <<setup, gem, maps, max, bos, fence, cmds, call, jobs, told>>
      /\ (Nvhost' <=> Nvhost) /\ (NewUapi' <=> NewUapi)
  BY DEF Execute, Nvhost, NewUapi
<1>2. /\ queue' \in [Chans -> Seq(Jobs)] /\ queue'[c] = Tail(queue[c])
      /\ \A d \in Chans \ {c} : queue'[d] = queue[d]
      /\ syncpt' \in [Chans -> Nat] /\ syncpt'[c] = syncpt[c] + 1
      /\ \A d \in Chans \ {c} : syncpt'[d] = syncpt[d]
  BY <1>1 DEF TypeOK
<1>3. /\ Len(queue[c]) \in Nat \ {0} /\ Len(queue'[c]) = Len(queue[c]) - 1
      /\ DOMAIN queue'[c] = 1..(Len(queue[c]) - 1)
      /\ \A k \in DOMAIN queue'[c] : k + 1 \in DOMAIN queue[c] /\ queue'[c][k] = queue[c][k + 1]
  BY <1>1, <1>2 DEF TypeOK
<1>4. \A d \in Chans : \A k \in DOMAIN queue'[d] : \E l \in DOMAIN queue[d] : queue'[d][k] = queue[d][l]
  <2> SUFFICES ASSUME NEW d \in Chans, NEW k \in DOMAIN queue'[d]
               PROVE  \E l \in DOMAIN queue[d] : queue'[d][k] = queue[d][l]
    OBVIOUS
  <2>1. CASE d = c
    BY <2>1, <1>3
  <2>2. CASE d # c
    BY <2>2, <1>2
  <2> QED
    BY <2>1, <2>2
<1>5. BuffersInv'
  BY <1>1, BuffersFrame
<1>6. TypeOK'
  BY <1>1, <1>2 DEF TypeOK, told
<1>7. JobsHitTheirTargets' /\ WordsInv' /\ CommandsIntact'
  BY <1>1, <1>4 DEF JobsInv, JobsHitTheirTargets, WordsInv, CommandsIntact, told
<1>8. SyncptInv' /\ syncpt[c] < max[c]
  <2>1. syncpt[c] \in Nat /\ max[c] \in Nat /\ syncpt[c] + Len(queue[c]) = max[c]
    BY CounterType DEF SyncptInv, JobsInv
  <2>2. syncpt'[c] + Len(queue'[c]) = max[c] /\ syncpt[c] < max[c]
    BY <2>1, <1>2, <1>3
  <2> QED
    BY <2>2, <1>1, <1>2 DEF JobsInv, SyncptInv
<1>9. CallInv' /\ FenceInv'
  BY <1>1 DEF JobsInv, CallInv, FenceInv, Live, Object
<1>10. QuietInv'
  BY <1>1, <1>2 DEF JobsInv, QuietInv, told
<1> QED
  BY <1>1, <1>5, <1>6, <1>7, <1>8, <1>9, <1>10 DEF JobsInv, told

-----------------------------------------------------------------------------
(* The invariant *)

LEMMA InitInv == Init => IInv
<1> SUFFICES ASSUME Init PROVE IInv
  OBVIOUS
<1> USE NoneAssumption DEF Init
<1>1. TypeOK
  BY SetupsAssumption DEF TypeOK, Calls, NoCall
<1>2. BuffersInv
  BY DEF BuffersInv, HandleInv, MappingInv, PointerInv, WrappedInside, OwnerOf, Live
<1>3. \A c \in Chans : queue[c] = <<>> /\ Len(queue[c]) = 0 /\ DOMAIN queue[c] = {}
  OBVIOUS
<1>4. SyncptInv /\ FenceInv
  BY <1>3 DEF SyncptInv, FenceInv, NoCall
<1>5. CallInv /\ JobsHitTheirTargets /\ WordsInv /\ QuietInv /\ CommandsIntact
  BY <1>3 DEF CallInv, JobsHitTheirTargets, WordsInv, QuietInv, CommandsIntact, NoCall
<1> QED
  BY <1>1, <1>2, <1>4, <1>5 DEF IInv, JobsInv

\* What a step of the library, the kernel or the GPU does to the counters the
\* caller is told of.
CounterStep ==
  \/ UNCHANGED <<accepted, max, syncpt, answered>>
  \/ \E c \in Chans : /\ accepted' = [accepted EXCEPT ![c] = @ + 1] /\ max' = [max EXCEPT ![c] = @ + 1]
                      /\ UNCHANGED <<syncpt, answered>>
  \/ \E c \in Chans : /\ syncpt[c] < max[c] /\ syncpt' = [syncpt EXCEPT ![c] = @ + 1]
                      /\ UNCHANGED <<accepted, max, answered>>
  \/ \E c \in Chans : /\ syncpt[c] = max[c] /\ answered' = [answered EXCEPT ![c] = accepted[c]]
                      /\ UNCHANGED <<accepted, max, syncpt>>

LEMMA NextInv ==
  ASSUME IInv, [Next]_vars
  PROVE  IInv' /\ (CounterStep \/ (NewUapi /\ Refuses("submit")))
<1>1. ASSUME NEW b \in Bos, NEW h \in Handles, NEW o \in Objs, NEW n \in Sizes, NEW g \in Guards, bo_create(b, h, o, n, g)
      PROVE  IInv' /\ CounterStep
  BY <1>1, bo_createInv DEF bo_create, CounterStep, told
<1>2. ASSUME NEW b \in Bos, NEW h \in Handles, NEW src \in Bos, bo_import(b, h, src)
      PROVE  IInv' /\ CounterStep
  BY <1>2, bo_importInv DEF bo_import, CounterStep, told
<1>3. ASSUME NEW w \in Bos, NEW b \in Bos, NEW off \in {0} \cup Sizes, NEW n \in Sizes, bo_wrap(w, b, off, n)
      PROVE  IInv' /\ CounterStep
  BY <1>3, bo_wrapInv DEF bo_wrap, CounterStep, told, kernel
<1>4. ASSUME NEW b \in Bos, bo_mmap(b)
      PROVE  IInv' /\ CounterStep
  BY <1>4, bo_mmapInv DEF bo_mmap, CounterStep, told, kernel
<1>5. ASSUME NEW b \in Bos, bo_free(b)
      PROVE  IInv' /\ CounterStep
  BY <1>5, bo_freeInv DEF bo_free, CounterStep, told
<1>6. ASSUME NEW b \in Bos, Relocate(b)
      PROVE  IInv' /\ CounterStep
  BY <1>6, RelocateInv DEF Relocate, Target, bo_map, CounterStep, told, kernel
<1>7. ASSUME NEW c \in Chans, NEW T \in Targets, Build(c, T)
      PROVE  IInv' /\ CounterStep
  BY <1>7, BuildInv DEF Build, CounterStep, told, kernel
<1>8. CASE Submit
  <2>1. call.chan \in Chans
    BY <1>8, CallType DEF Submit, IInv
  <2> QED
    BY <1>8, <2>1, SubmitInv DEF CounterStep, Submit
<1>9. CASE SubmitRefused
  BY <1>9, SubmitRefusedInv DEF CounterStep
<1>10. CASE Flush
  BY <1>10, FlushInv DEF CounterStep
<1>11. CASE Wait
  BY <1>11, WaitInv DEF CounterStep
<1>12. ASSUME NEW c \in Chans, Execute(c)
       PROVE  IInv' /\ CounterStep
  BY <1>12, ExecuteInv DEF CounterStep
<1>13. CASE UNCHANGED vars
  <2>1. UNCHANGED <<setup, kernel, bos, fence, cmds, call, jobs, told>>
    BY <1>13 DEF vars
  <2>2. TypeOK'
    BY <2>1 DEF IInv, TypeOK, kernel, told, Nvhost
  <2>3. BuffersInv'
    BY <2>1, BuffersFrame DEF IInv, kernel
  <2>4. JobsInv'
    BY <2>1 DEF IInv, JobsInv, CallInv, JobsHitTheirTargets, SyncptInv, FenceInv, WordsInv, QuietInv,
                CommandsIntact, kernel, told, Nvhost, NewUapi, Live, Object
  <2> QED
    BY <2>1, <2>2, <2>3, <2>4 DEF IInv, CounterStep, kernel, told
<1> QED
  BY <1>1, <1>2, <1>3, <1>4, <1>5, <1>6, <1>7, <1>8, <1>9, <1>10, <1>11, <1>12, <1>13 DEF Next

\* IInv relates the buffers, the call under way, the command buffers and the
\* kernel's queues in every state (host1x.c, host1x-drm.c, nvhost.c).
THEOREM InductiveInvariant == Spec => []IInv
<1>1. Init => IInv
  BY InitInv
<1>2. IInv /\ [Next]_vars => IInv'
  BY NextInv
<1> QED
  BY <1>1, <1>2, PTL DEF Spec

\* The state keeps its type.
THEOREM TypeCorrect == Spec => []TypeOK
BY InductiveInvariant, PTL DEF IInv

\* Kernel handles are owned by exactly one buffer: none is leaked, closed
\* twice or used after it was given to another (drm_bo_create, _clone, _free).
THEOREM OwnershipCorrect == Spec => []HandlesOwned
<1>1. ASSUME IInv
      PROVE  HandlesOwned
  <2> USE <1>1 DEF IInv, BuffersInv
  <2>1. ASSUME NEW h \in Handles
        PROVE  Cardinality({b \in Bos : Live(b) /\ bos[b].wrapped = None /\ bos[b].handle = h})
                 = IF gem[h] = None THEN 0 ELSE 1
    <3> DEFINE owners == {b \in Bos : Live(b) /\ bos[b].wrapped = None /\ bos[b].handle = h}
    <3>1. CASE gem[h] = None
      <4>1. owners = {}
        BY <3>1 DEF HandleInv
      <4> QED
        BY <3>1, <4>1, FS_EmptySet
    <3>2. CASE gem[h] # None
      <4>1. PICK b \in Bos : OwnerOf(b, h)
        BY <3>2 DEF HandleInv
      <4>2. owners = {b}
        BY <4>1 DEF HandleInv, OwnerOf
      <4> QED
        BY <3>2, <4>2, FS_Singleton
    <3> QED
      BY <3>1, <3>2
  <2>2. \A w \in Bos : Live(w) /\ bos[w].wrapped # None =>
          /\ Live(bos[w].wrapped)
          /\ bos[bos[w].wrapped].wrapped = None
          /\ bos[bos[w].wrapped].handle = bos[w].handle
    BY DEF HandleInv, OwnerOf
  <2> QED
    BY <2>1, <2>2 DEF HandlesOwned
<1> QED
  BY <1>1, InductiveInvariant, PTL

\* What a buffer remembers of the kernel is true: its channel mappings, its
\* pointer and its nvmap handle's (drm_bo_map, drm_bo_mmap, nvmap_handle_mmap).
THEOREM RememberedCorrect == Spec => []CachesTrue
<1>1. IInv => CachesTrue
  BY DEF IInv, BuffersInv, CachesTrue, MappingInv, PointerInv
<1> QED
  BY <1>1, InductiveInvariant, PTL

\* A wrapped buffer lies inside its original (host1x_bo_wrap).
THEOREM WrapCorrect == Spec => []WrappedInside
BY InductiveInvariant, PTL DEF IInv, BuffersInv

\* A job in a queue names the objects of the buffers it was built for
\* (host1x_pushbuf_relocate, drm_bo_map, submit).
THEOREM TargetsCorrect == Spec => []JobsHitTheirTargets
BY InductiveInvariant, PTL DEF IInv, JobsInv

\* The words of a job are not overwritten before the GPU has read them, unless
\* a wait on its channel has failed (host1x_job_append at offset 0).
THEOREM CommandsCorrect == Spec => []CommandsIntact
BY InductiveInvariant, PTL DEF IInv, JobsInv

\* Jobs are finished in order, and an answer means that all accepted ones are
\* (struct host1x_client), where a refused submit is not hidden from the
\* caller: only drm_channel_submit2 does that.
THEOREM Refinement == ASSUME RefusalsTold PROVE Spec => KeepsPromise
<1>1. Init => Promise!Init /\ AcceptedInv
  BY DEF Init, Promise!Init, AcceptedInv
<1>2. ASSUME IInv, AcceptedInv, [Next]_vars
      PROVE  AcceptedInv' /\ [Promise!Next]_Promise!promiseVars
  <2>1. CounterStep
    <3>1. ~(NewUapi /\ Refuses("submit"))
      BY <1>2, RefusalsTold DEF RefusalsTold, IInv, TypeOK, NewUapi, Refuses
    <3> QED
      BY <1>2, <3>1, NextInv
  <2>2. accepted \in [Chans -> Nat] /\ max \in [Chans -> Nat] /\ \A c \in Chans : accepted[c] = max[c]
    BY <1>2, CounterType DEF IInv, AcceptedInv
  <2>3. CASE UNCHANGED <<accepted, max, syncpt, answered>>
    BY <2>2, <2>3 DEF AcceptedInv, Promise!promiseVars
  <2>4. ASSUME NEW c \in Chans, accepted' = [accepted EXCEPT ![c] = @ + 1], max' = [max EXCEPT ![c] = @ + 1],
               UNCHANGED <<syncpt, answered>>
        PROVE  AcceptedInv' /\ Promise!Accept(c)
    BY <2>2, <2>4 DEF AcceptedInv, Promise!Accept
  <2>5. ASSUME NEW c \in Chans, syncpt[c] < max[c], syncpt' = [syncpt EXCEPT ![c] = @ + 1],
               UNCHANGED <<accepted, max, answered>>
        PROVE  AcceptedInv' /\ Promise!Finish(c)
    BY <2>2, <2>5 DEF AcceptedInv, Promise!Finish
  <2>6. ASSUME NEW c \in Chans, syncpt[c] = max[c], answered' = [answered EXCEPT ![c] = accepted[c]],
               UNCHANGED <<accepted, max, syncpt>>
        PROVE  AcceptedInv' /\ Promise!Answer(c)
    BY <2>2, <2>6 DEF AcceptedInv, Promise!Answer
  <2> QED
    BY <2>1, <2>3, <2>4, <2>5, <2>6 DEF CounterStep, Promise!Next
<1>3. Spec => [](IInv /\ AcceptedInv)
  BY <1>1, <1>2, InductiveInvariant, PTL DEF Spec
<1> QED
  BY <1>1, <1>2, <1>3, InductiveInvariant, PTL DEF Spec, KeepsPromise, Promise!Spec
=============================================================================
