--------------------------- MODULE DisplaysProofs ---------------------------
(***************************************************************************)
(* Proof that a program draws into a hidden buffer, for any number of      *)
(* framebuffers and of flips in the queue, on every display.               *)
(***************************************************************************)
EXTENDS Displays, SequenceTheorems, TLAPS

LEMMA InitInv == Init => IInv
<1> SUFFICES ASSUME Init PROVE IInv
  OBVIOUS
<1> USE NoneAssumption DEF Init
<1>1. TypeOK
  <2>1. \A f \in Fbs : <<f, "first">> \in Buffers /\ <<f, "second">> \in Buffers
    BY DEF Buffers
  <2>2. front \in [Fbs -> Buffers] /\ back \in [Fbs -> Buffers \cup {None}]
    BY <2>1
  <2>3. {slipped, failed} \subseteq BOOLEAN /\ {shown, window} \subseteq Buffers \cup {None}
    OBVIOUS
  <2>4. pending \in Seq(Buffers) /\ events \in Nat
    OBVIOUS
  <2> QED
    BY <2>2, <2>3, <2>4 DEF TypeOK
<1>2. SwapInv
  BY DEF SwapInv
<1>3. CallInv /\ FlipInv /\ QuietInv /\ WaitInv /\ ShownInv
  BY DEF CallInv, FlipInv, QuietInv, WaitInv, ShownInv, Flips
<1> QED
  BY <1>1, <1>2, <1>3 DEF IInv

\* Opening finds nothing on the screen.
LEMMA OpenInv == ASSUME IInv, grate_init PROVE IInv'
<1> USE NoneAssumption DEF IInv, grate_init, screen, frames
<1>1. pending = <<>> /\ events = 0 /\ shown = None /\ at = "idle" /\ fb \notin Fbs
  BY DEF FlipInv, Flips, CallInv
<1>2. TypeOK'
  BY DEF TypeOK, DisplayOf
<1>3. SwapInv' /\ CallInv' /\ ShownInv'
  BY <1>1 DEF SwapInv, CallInv, ShownInv
<1>4. FlipInv' /\ QuietInv' /\ WaitInv'
  BY <1>1 DEF FlipInv, QuietInv, WaitInv
<1> QED
  BY <1>2, <1>3, <1>4

\* The first kernel call is one of the display.
LEMMA EntryType ==
  ASSUME TypeOK, kind \notin {"unopened", "none"}
  PROVE  /\ Entry \in {"page_flip", "set_crtc", "wait_vblank", "set_plane", "get_window", "read_syncpt", "flip", "put_image"}
         /\ Entry = "page_flip" => Kms /\ Flips
         /\ Entry = "set_crtc" => Kms /\ kind = "primary"
         /\ Entry \in {"wait_vblank", "set_plane"} => Kms /\ kind = "overlay"
         /\ Entry \in {"get_window", "read_syncpt", "flip"} => ~Kms /\ Flips
         /\ Entry = "put_image" => kind = "x11"
<1>1. kind \in {"primary", "overlay", "x11"}
  BY DEF TypeOK
<1>2. CASE kind = "x11"
  BY <1>2 DEF Entry
<1>3. CASE kind = "primary" /\ Kms
  BY <1>3 DEF Entry, Kms, Flips
<1>4. CASE kind = "overlay" /\ Kms
  BY <1>4 DEF Entry, Kms
<1>5. CASE kind = "primary" /\ ~Kms
  BY <1>5 DEF Entry, Kms, Flips
<1>6. CASE kind = "overlay" /\ ~Kms
  <2>1. Entry = IF options.vsync THEN "read_syncpt" ELSE "flip"
    BY <1>6 DEF Entry, Kms
  <2> QED
    BY <1>6, <2>1 DEF Flips
<1> QED
  BY <1>1, <1>2, <1>3, <1>4, <1>5, <1>6

\* What both calls of the program have in common.
LEMMA CallsDisplay ==
  ASSUME IInv, Free, NEW f \in Fbs, NEW flip \in BOOLEAN, fb' = f,
         grate_display_framebuffer(f, flip),
         UNCHANGED <<setup, kind, screen, slipped, failed>>, SwapInv',
         front' \in [Fbs -> Buffers], back' \in [Fbs -> Buffers \cup {None}],
         at' = "idle" => kind = "none" \/ (fb = f /\ UNCHANGED front)
  PROVE  IInv'
<1> USE NoneAssumption DEF IInv, Free, setup, screen
<1>1. at' = "idle" \/ (kind \notin {"unopened", "none"} /\ at' = Entry)
  BY DEF grate_display_framebuffer
<1>2. at' \in {"idle", "page_flip", "set_crtc", "wait_vblank", "set_plane", "get_window", "read_syncpt", "flip", "put_image"}
  BY <1>1, EntryType
<1>3. TypeOK'
  BY <1>2 DEF TypeOK
<1>4. CallInv'
  BY <1>1, <1>2, EntryType DEF CallInv, Kms, Flips
<1>5. FlipInv' /\ QuietInv' /\ WaitInv'
  BY <1>2 DEF FlipInv, QuietInv, WaitInv, Kms, Flips
<1>6. ShownInv'
  BY <1>1, EntryType DEF ShownInv
<1> QED
  BY <1>3, <1>4, <1>5, <1>6

LEMMA BindInv == ASSUME IInv, NEW f \in Fbs, grate_bind_framebuffer(f) PROVE IInv'
<1> USE DEF grate_bind_framebuffer
<1>1. SwapInv' /\ front' \in [Fbs -> Buffers] /\ back' \in [Fbs -> Buffers \cup {None}]
  BY DEF IInv, SwapInv, TypeOK, setup
<1>2. at' = "idle" => kind = "none"
  BY EntryType DEF grate_display_framebuffer, Free, IInv
<1> QED
  BY <1>1, <1>2, CallsDisplay

LEMMA SwapBuffersInv == ASSUME IInv, grate_swap_buffers PROVE IInv'
<1> USE NoneAssumption DEF grate_swap_buffers
<1>1. fb \in Fbs /\ UNCHANGED <<fb, double>>
  BY DEF IInv, TypeOK, setup
<1>2. SwapInv' /\ front' \in [Fbs -> Buffers] /\ back' \in [Fbs -> Buffers \cup {None}]
  <2> USE <1>1 DEF IInv, TypeOK
  <2>1. CASE fb \in double
    <3>1. front[fb] \in {<<fb, "first">>, <<fb, "second">>} /\ back[fb] \in {<<fb, "first">>, <<fb, "second">>} \ {front[fb]}
      BY <2>1 DEF SwapInv
    <3>2. back[fb] \in Buffers /\ front[fb] \in Buffers
      BY <3>1 DEF Buffers
    <3>3. front' = [front EXCEPT ![fb] = back[fb]] /\ back' = [back EXCEPT ![fb] = front[fb]]
      BY <2>1
    <3>4. front' \in [Fbs -> Buffers] /\ back' \in [Fbs -> Buffers \cup {None}]
      BY <3>2, <3>3
    <3>5. front'[fb] = back[fb] /\ back'[fb] = front[fb] /\ \A f \in Fbs \ {fb} : front'[f] = front[f] /\ back'[f] = back[f]
      BY <3>3
    <3>6. SwapInv'
      BY <3>1, <3>5 DEF SwapInv
    <3> QED
      BY <3>4, <3>6
  <2>2. CASE fb \notin double
    BY <2>2 DEF SwapInv
  <2> QED
    BY <2>1, <2>2
<1>3. at' = "idle" => kind = "none" \/ UNCHANGED front
  BY EntryType DEF grate_display_framebuffer, Free, IInv
<1> QED
  BY <1>1, <1>2, <1>3, CallsDisplay DEF setup

\* A step of a display's call.
LEMMA ReturnInv ==
  ASSUME IInv, at # "idle", UNCHANGED <<setup, kind, frames>>, NEW result \in {"shown", "late", "failed"}, Return(result),
         shown' \in Buffers \cup {None}, window' \in Buffers \cup {None}, pending' \in Seq(Buffers), events' \in Nat, FlipInv',
         result = "shown" /\ ~slipped => pending' = <<>> /\ events' = 0,
         result = "shown" /\ kind \in {"primary", "overlay"} /\ pending' = <<>> => shown' = front[fb]
  PROVE  IInv'
<1> USE DEF IInv, setup, frames, Return, InStep
<1>1. TypeOK'
  BY DEF TypeOK
<1>2. SwapInv' /\ CallInv'
  BY DEF SwapInv, CallInv
<1>3. QuietInv' /\ WaitInv' /\ ShownInv'
  BY DEF QuietInv, WaitInv, ShownInv
<1> QED
  BY <1>1, <1>2, <1>3

\* Anything that failed is out of step.
LEMMA FailsInv == ASSUME IInv, NEW call \in {"set_crtc", "wait_vblank", "set_plane", "get_window", "read_syncpt", "flip", "put_image"}, Fails(call)
                  PROVE  IInv'
<1> USE DEF Fails, At, screen
<1>1. FlipInv'
  BY DEF IInv, FlipInv, Flips, Kms, setup
<1> QED
  BY <1>1, ReturnInv DEF IInv, TypeOK, Return

\* A step to the next kernel call that leaves the screen alone.
LEMMA ContinueInv ==
  ASSUME IInv, at # "idle", UNCHANGED <<setup, kind, frames, screen, slipped, failed>>,
         at \notin {"select", "wait_syncpt"},
         at' \in {"set_crtc", "set_plane", "read_syncpt", "flip"}, CallInv'
  PROVE  IInv'
<1> USE DEF IInv, setup, frames, screen
<1>1. TypeOK'
  BY DEF TypeOK
<1>2. SwapInv' /\ FlipInv' /\ QuietInv' /\ WaitInv' /\ ShownInv'
  BY DEF SwapInv, FlipInv, QuietInv, WaitInv, ShownInv, Flips, Kms
<1> QED
  BY <1>1, <1>2

\* The front buffer of a framebuffer that is displayed.
LEMMA FrontType ==
  ASSUME IInv, at # "idle"
  PROVE  fb \in Fbs /\ front[fb] \in Buffers /\ <<front[fb]>> \in Seq(Buffers)
BY DEF IInv, TypeOK, CallInv

LEMMA StepInv == ASSUME IInv, Step PROVE IInv'
<1> USE NoneAssumption DEF At, Continue
<1>1. CASE PageFlip
  <2> USE <1>1, FrontType DEF PageFlip, IInv, setup, frames
  <2>1. pending = <<>> /\ pending' = <<front[fb]>> /\ at = "page_flip" /\ at' = "select" /\ Kms /\ Flips
    BY DEF CallInv
  <2>2. TypeOK'
    BY DEF TypeOK
  <2>3. SwapInv' /\ CallInv' /\ FlipInv'
    BY <2>1 DEF SwapInv, CallInv, FlipInv, Flips, Kms
  <2>4. QuietInv' /\ WaitInv' /\ ShownInv'
    BY <2>1 DEF QuietInv, WaitInv, ShownInv
  <2> QED
    BY <2>2, <2>3, <2>4
<1>2. CASE PageFlipRefused
  <2>1. CallInv'
    BY <1>2 DEF PageFlipRefused, IInv, CallInv, Flips, Kms, setup, frames
  <2> QED
    BY <1>2, <2>1, ContinueInv DEF PageFlipRefused
<1>3. CASE SetCrtc
  <2> USE <1>3, FrontType DEF SetCrtc
  <2>1. at = "set_crtc" /\ pending = <<>> /\ pending' = <<>> /\ shown' = front[fb] /\ UNCHANGED <<setup, kind, frames, window, events>>
        /\ Kms /\ kind = "primary"
    BY DEF IInv, CallInv
  <2>2. FlipInv'
    BY <2>1 DEF IInv, FlipInv, Flips, Kms, setup
  <2>3. CASE options.vsync
    <3> USE <2>3 DEF IInv, setup, frames
    <3>1. at' = "select" /\ UNCHANGED <<slipped, failed>>
      OBVIOUS
    <3>2. TypeOK'
      BY <2>1, <3>1 DEF TypeOK
    <3>3. SwapInv' /\ CallInv'
      BY <2>1, <3>1 DEF SwapInv, CallInv, Flips, Kms
    <3>4. QuietInv' /\ WaitInv' /\ ShownInv'
      BY <2>1, <3>1 DEF QuietInv, WaitInv, ShownInv
    <3> QED
      BY <2>2, <3>2, <3>3, <3>4
  <2>4. CASE ~options.vsync
    <3>1. Return("shown")
      BY <2>4
    <3>2. ~slipped => events = 0
      BY <2>1 DEF IInv, QuietInv
    <3> QED
      BY <2>1, <2>2, <3>1, <3>2, ReturnInv DEF IInv, TypeOK
  <2> QED
    BY <2>3, <2>4
<1>4. CASE SelectEvent
  <2> USE <1>4 DEF SelectEvent
  <2>1. FlipInv'
    BY DEF IInv, FlipInv, Flips, Kms, setup
  <2>2. /\ ~slipped => pending = <<>>
        /\ pending = <<>> => shown = front[fb]
    BY DEF IInv, WaitInv
  <2> QED
    BY <2>1, <2>2, ReturnInv DEF IInv, TypeOK
<1>5. CASE SelectTimeout
  <2> USE <1>5 DEF SelectTimeout, screen
  <2>1. FlipInv'
    BY DEF IInv, FlipInv, Flips, Kms, setup
  <2>2. pending = <<>> => shown = front[fb]
    BY DEF IInv, WaitInv
  <2>3. CASE pending = <<>>
    BY <2>1, <2>2, <2>3, ReturnInv DEF IInv, TypeOK
  <2>4. CASE pending # <<>>
    BY <2>1, <2>4, ReturnInv DEF IInv, TypeOK
  <2> QED
    BY <2>3, <2>4
<1>6. CASE WaitVBlank
  <2>1. CallInv'
    BY <1>6 DEF WaitVBlank, IInv, CallInv, Flips, Kms, setup, frames
  <2> QED
    BY <1>6, <2>1, ContinueInv DEF WaitVBlank
<1>7. CASE SetPlane
  <2> USE <1>7, FrontType DEF SetPlane
  <2>1. Kms /\ kind = "overlay" /\ pending = <<>> /\ events = 0
    BY DEF IInv, CallInv, FlipInv, Flips
  <2>2. FlipInv'
    BY <2>1 DEF IInv, FlipInv, Flips, Kms, setup
  <2> QED
    BY <2>1, <2>2, ReturnInv DEF IInv, TypeOK
<1>8. CASE KmsFails \/ DcFails \/ PutImageFails
  BY <1>8, FailsInv DEF KmsFails, DcFails, PutImageFails
<1>9. CASE GetWindow
  <2>1. CallInv' /\ at' \in {"read_syncpt", "flip"}
    BY <1>9 DEF GetWindow, IInv, CallInv, Flips, Kms, setup, frames
  <2> QED
    BY <1>9, <2>1, ContinueInv DEF GetWindow
<1>10. CASE ReadSyncpt
  <2>1. CallInv'
    BY <1>10 DEF ReadSyncpt, IInv, CallInv, Flips, Kms, setup, frames
  <2> QED
    BY <1>10, <2>1, ContinueInv DEF ReadSyncpt
<1>11. CASE Flip
  <2> USE <1>11, FrontType DEF Flip, IInv, setup, frames
  <2>1. /\ pending' = Append(pending, front[fb]) /\ pending \in Seq(Buffers)
        /\ at = "flip" /\ at' = "wait_syncpt" /\ ~Kms /\ Flips
    BY DEF CallInv, TypeOK
  <2>2. pending' \in Seq(Buffers) /\ pending' # <<>> /\ pending'[Len(pending')] = front[fb]
    BY <2>1
  <2>3. TypeOK'
    BY <2>1, <2>2 DEF TypeOK
  <2>4. SwapInv' /\ CallInv' /\ FlipInv'
    BY <2>1 DEF SwapInv, CallInv, FlipInv, Flips, Kms
  <2>5. QuietInv' /\ WaitInv' /\ ShownInv'
    BY <2>1, <2>2 DEF QuietInv, WaitInv, ShownInv
  <2> QED
    BY <2>3, <2>4, <2>5
<1>12. CASE WaitSyncpt
  <2> USE <1>12 DEF WaitSyncpt, screen
  <2>1. FlipInv' /\ events = 0
    BY DEF IInv, FlipInv, CallInv, Flips, Kms, setup
  <2>2. shown = front[fb]
    BY DEF IInv, WaitInv
  <2> QED
    BY <2>1, <2>2, ReturnInv DEF IInv, TypeOK
<1>13. CASE WaitSyncptTimeout
  <2> USE <1>13 DEF WaitSyncptTimeout, screen
  <2>1. FlipInv'
    BY DEF IInv, FlipInv, Flips, Kms, setup
  <2> QED
    BY <2>1, ReturnInv DEF IInv, TypeOK
<1>14. CASE PutImage
  <2> USE <1>14, FrontType DEF PutImage
  <2>1. kind = "x11" /\ pending = <<>> /\ events = 0
    BY DEF IInv, CallInv, FlipInv, Flips
  <2>2. FlipInv'
    BY <2>1 DEF IInv, FlipInv, Flips, Kms, setup
  <2> QED
    BY <2>1, <2>2, ReturnInv DEF IInv, TypeOK
<1> QED
  BY <1>1, <1>2, <1>3, <1>4, <1>5, <1>6, <1>7, <1>8, <1>9, <1>10, <1>11, <1>12, <1>13, <1>14 DEF Step

\* A sequence without its head keeps its last element, if it has two.
LEMMA TailEnd ==
  ASSUME NEW S, NEW s \in Seq(S), s # <<>>
  PROVE  /\ Head(s) \in S /\ Tail(s) \in Seq(S)
         /\ Len(s) = 1 => Tail(s) = <<>> /\ Head(s) = s[Len(s)]
         /\ Len(s) # 1 => Tail(s) # <<>> /\ Tail(s)[Len(Tail(s))] = s[Len(s)]
<1>1. Len(s) \in Nat /\ Len(s) # 0 /\ Head(s) = s[1] /\ Head(s) \in S
  OBVIOUS
<1>2. Tail(s) \in Seq(S) /\ Len(Tail(s)) = Len(s) - 1
  OBVIOUS
<1>3. \A i \in 1 .. Len(s) - 1 : Tail(s)[i] = s[i + 1]
  OBVIOUS
<1>4. \A t \in Seq(S) : t = <<>> <=> Len(t) = 0
  BY EmptySeq
<1>5. ASSUME NEW n \in Nat, n = Len(s), n = 1 PROVE Tail(s) = <<>>
  <2>1. Len(Tail(s)) = n - 1
    BY <1>2, <1>5
  <2>2. Len(Tail(s)) = 0
    BY <1>5, <2>1
  <2> QED
    BY <1>2, <1>4, <2>2
<1>6. ASSUME NEW n \in Nat, n = Len(s), n # 1 PROVE Tail(s) # <<>> /\ Tail(s)[Len(Tail(s))] = s[Len(s)]
  <2>1. n - 1 \in 1 .. n - 1 /\ (n - 1) + 1 = n
    BY <1>1, <1>6
  <2>2. Tail(s)[n - 1] = s[n]
    BY <1>3, <1>6, <2>1
  <2>3. Len(Tail(s)) = n - 1 /\ n - 1 # 0
    BY <1>2, <1>6
  <2>4. Tail(s) # <<>>
    BY <1>2, <1>4, <2>3
  <2> QED
    BY <1>6, <2>2, <2>3, <2>4
<1> QED
  BY <1>1, <1>2, <1>5, <1>6

\* The display does the first flip, which is out of step or waited for.
LEMMA VBlankInv == ASSUME IInv, VBlank PROVE IInv'
<1> USE DEF VBlank, IInv, setup, frames
<1>1. /\ pending \in Seq(Buffers) /\ pending # <<>> /\ shown' = Head(pending) /\ pending' = Tail(pending)
      /\ Flips /\ UNCHANGED <<at, kind, fb, front, slipped, machine, options>> /\ events \in Nat
      /\ events' = IF Kms THEN events + 1 ELSE events
  BY DEF FlipInv, TypeOK, Kms
<1>2. /\ Head(pending) \in Buffers /\ Tail(pending) \in Seq(Buffers)
      /\ Len(pending) = 1 => Tail(pending) = <<>> /\ Head(pending) = pending[Len(pending)]
      /\ Len(pending) # 1 => Tail(pending) # <<>> /\ Tail(pending)[Len(Tail(pending))] = pending[Len(pending)]
  BY <1>1, TailEnd
<1>3. slipped \/ at \in {"select", "wait_syncpt"}
  BY <1>1 DEF QuietInv
<1>4. TypeOK'
  BY <1>1, <1>2 DEF TypeOK
<1>5. SwapInv' /\ CallInv' /\ FlipInv'
  BY <1>1 DEF SwapInv, CallInv, FlipInv, Flips, Kms
<1>6. QuietInv' /\ ShownInv'
  BY <1>1, <1>3 DEF QuietInv, ShownInv
<1>7. WaitInv'
  <2>1. CASE at = "select"
    <3>1. pending = <<front[fb]>>
      BY <1>1, <2>1 DEF WaitInv
    <3>2. shown' = front[fb] /\ pending' = <<>>
      BY <1>1, <3>1
    <3> QED
      BY <1>1, <2>1, <3>2 DEF WaitInv
  <2>2. CASE at = "wait_syncpt"
    <3>1. pending[Len(pending)] = front[fb]
      BY <1>1, <2>2 DEF WaitInv
    <3> QED
      BY <1>1, <1>2, <2>2, <3>1 DEF WaitInv
  <2> QED
    BY <1>1, <2>1, <2>2 DEF WaitInv
<1> QED
  BY <1>4, <1>5, <1>6, <1>7

\* What the screen shows, what is on its way there and what the thread waits
\* for stay related by IInv (drm_display_set, nvhost_display_set).
THEOREM InductiveInvariant == Spec => []IInv
<1>1. Init => IInv
  BY InitInv
<1>2. IInv /\ [Next]_vars => IInv'
  <2> SUFFICES ASSUME IInv, [Next]_vars PROVE IInv'
    OBVIOUS
  <2>1. CASE UNCHANGED vars
    BY <2>1 DEF vars, IInv, TypeOK, SwapInv, CallInv, FlipInv, QuietInv, WaitInv, ShownInv, Flips, Kms
  <2> QED
    BY <2>1, OpenInv, BindInv, SwapBuffersInv, StepInv, VBlankInv DEF Next
<1> QED
  BY <1>1, <1>2, PTL DEF Spec

\* The state keeps its type.
THEOREM TypeCorrect == Spec => []TypeOK
BY InductiveInvariant, PTL DEF IInv

\* Between calls in step with the display a program draws into a buffer that is
\* neither shown nor about to be (grate_swap_buffers, grate_get_draw_pixbuf).
THEOREM DrawingHidden == Spec => []HiddenWhileDrawn
<1>1. ASSUME IInv PROVE HiddenWhileDrawn
  <2> SUFFICES ASSUME at = "idle", fb \in double, kind # "none", ~slipped
               PROVE  back[fb] # shown /\ back[fb] \notin Range(pending)
    BY DEF HiddenWhileDrawn
  <2> USE <1>1 DEF IInv
  <2>1. fb \in Fbs /\ front[fb] \in Buffers /\ back[fb] \in {<<fb, "first">>, <<fb, "second">>} \ {front[fb]}
    BY DEF TypeOK, SwapInv
  <2>2. back[fb] \in Buffers /\ back[fb] # None
    BY <2>1, NoneAssumption DEF Buffers
  <2>3. pending = <<>>
    BY DEF QuietInv
  <2>4. shown = front[fb] \/ shown = None
    BY <2>1 DEF ShownInv, FlipInv
  <2> QED
    BY <2>1, <2>2, <2>3, <2>4 DEF Range
<1> QED
  BY <1>1, InductiveInvariant, PTL
=============================================================================
