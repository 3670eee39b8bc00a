------------------------------ MODULE Displays ------------------------------
(***************************************************************************)
(* What is on the screen while a program draws: grate_bind_framebuffer and *)
(* grate_swap_buffers (grate.c) down to the three displays of libhost1x:   *)
(* KMS (host1x-drm.c), the windows of tegra_dc (nvhost-display.c), and a   *)
(* window of X (x11-display.c).                                            *)
(*                                                                         *)
(* A call is a sequence of kernel calls, each of which may fail.  The      *)
(* screen goes on in between: a flip that was asked for is done at a later *)
(* VBlank, KMS then queues an event, and the waits for either give up      *)
(* after a second.  grate_display_show and grate_overlay_show tell the     *)
(* program nothing of all this.                                            *)
(***************************************************************************)
EXTENDS Naturals, Sequences, SequencesExt, FiniteSets

CONSTANTS Fbs,        \* struct grate_framebuffer
          MaxFlips,   \* a bound on the flips in tegra_dc's queue
          None

\* The two pixel buffers of a framebuffer.
Buffers == Fbs \X {"first", "second"}

ASSUME NoneAssumption == None \notin Fbs /\ None \notin Buffers

VARIABLES
  machine,    \* what the kernel and X have to offer
  options,    \* struct grate_options
  double,     \* framebuffers created with GRATE_DOUBLE_BUFFERED
  kind,       \* grate->display, grate->overlay and whose they are
  fb,         \* grate->fb
  front, back,
  at,         \* the next kernel call of the thread, or "idle"
  shown,      \* the screen is read from this buffer
  window,     \* X shows a copy of this one
  pending,    \* flips the display has not done yet
  events,     \* flip events in the queue of the DRM file
  slipped,    \* a call failed, or gave up waiting, and things are not back in step
  failed      \* the last call that was to show something ended in an error

vars == <<machine, options, double, kind, fb, front, back, at, shown, window, pending, events,
          slipped, failed>>
setup  == <<machine, options, double>>
screen == <<shown, window, pending, events>>
frames == <<fb, front, back>>

TypeOK ==
  /\ machine \in [driver : {"drm", "nvhost"}, master : BOOLEAN, output : BOOLEAN,
                  plane : BOOLEAN, x11 : BOOLEAN]
  /\ options \in [vsync : BOOLEAN, fullscreen : BOOLEAN, nodisplay : BOOLEAN]
  /\ double \in SUBSET Fbs
  /\ kind \in {"unopened", "none", "primary", "overlay", "x11"}
  /\ fb \in Fbs \cup {None}
  /\ front \in [Fbs -> Buffers] /\ back \in [Fbs -> Buffers \cup {None}]
  /\ at \in {"idle", "page_flip", "set_crtc", "select", "wait_vblank", "set_plane",
             "get_window", "read_syncpt", "flip", "wait_syncpt", "put_image"}
  /\ {shown, window} \subseteq Buffers \cup {None}
  /\ pending \in Seq(Buffers) /\ events \in Nat
  /\ {slipped, failed} \subseteq BOOLEAN

Init ==
  /\ machine \in [driver : {"drm", "nvhost"}, master : BOOLEAN, output : BOOLEAN,
                  plane : BOOLEAN, x11 : BOOLEAN]
  /\ options \in [vsync : BOOLEAN, fullscreen : BOOLEAN, nodisplay : BOOLEAN]
  /\ double \in SUBSET Fbs
  /\ kind = "unopened" /\ fb = None
  /\ front = [f \in Fbs |-> <<f, "first">>]
  /\ back = [f \in Fbs |-> IF f \in double THEN <<f, "second">> ELSE None]
  /\ at = "idle" /\ shown = None /\ window = None /\ pending = <<>> /\ events = 0
  /\ slipped = FALSE /\ failed = FALSE

-----------------------------------------------------------------------------
(* Opening.                                                                *)

\* drm_display_create falls back to X, nvhost_display_create does not.
DisplayOf(m) ==
  IF m.output /\ (m.driver = "nvhost" \/ m.master) THEN "primary"
  ELSE IF m.driver = "drm" /\ m.x11 THEN "x11" ELSE "none"

\* An overlay is preferred to the whole screen; X has none.
grate_init ==
  /\ kind = "unopened"
  /\ LET display == IF options.nodisplay THEN "none" ELSE DisplayOf(machine)
     IN /\ kind' = IF display = "primary" /\ ~options.fullscreen /\ machine.plane
                   THEN "overlay" ELSE display
        /\ options' = [options EXCEPT !.vsync = @ \/ display = "x11"]
  /\ UNCHANGED <<machine, double, frames, at, screen, slipped, failed>>

-----------------------------------------------------------------------------
(* The library's calls.                                                    *)

\* display->set and overlay->set begin with this call.
Entry ==
  CASE kind = "x11" -> "put_image"
    [] kind = "primary" /\ machine.driver = "drm" ->
         IF options.vsync THEN "page_flip" ELSE "set_crtc"
    [] kind = "overlay" /\ machine.driver = "drm" ->
         IF options.vsync THEN "wait_vblank" ELSE "set_plane"
    [] kind = "primary" /\ machine.driver # "drm" -> "get_window"
    [] OTHER -> IF options.vsync THEN "read_syncpt" ELSE "flip"

grate_display_framebuffer(f, flip) ==
  at' = IF kind = "none" \/ (~flip /\ ~options.vsync /\ f \notin double) THEN "idle" ELSE Entry

Free == at = "idle" /\ kind # "unopened"

grate_bind_framebuffer(f) ==
  /\ Free
  /\ fb' = f
  /\ grate_display_framebuffer(f, TRUE)
  /\ UNCHANGED <<setup, kind, front, back, screen, slipped, failed>>

grate_swap_buffers ==
  /\ Free /\ fb # None
  /\ IF fb \in double THEN /\ front' = [front EXCEPT ![fb] = back[fb]]
                           /\ back' = [back EXCEPT ![fb] = front[fb]]
                      ELSE UNCHANGED <<front, back>>
  /\ grate_display_framebuffer(fb, FALSE)
  /\ UNCHANGED <<setup, kind, fb, screen, slipped, failed>>

\* The call is over: "shown" if the code takes the frame for shown, "late" if it
\* gave up waiting, "failed" after an error.
InStep == pending' = <<>> /\ events' = 0
Return(result) ==
  /\ at' = "idle"
  /\ failed' = (result = "failed")
  /\ slipped' = (result # "shown" \/ (slipped /\ ~InStep))

Continue(next) == at' = next /\ UNCHANGED <<slipped, failed>>
At(call) == at = call /\ UNCHANGED <<setup, kind, frames>>
Fails(call) == At(call) /\ UNCHANGED screen /\ Return("failed")

-----------------------------------------------------------------------------
(* KMS.                                                                    *)

PageFlip ==
  /\ At("page_flip")
  /\ pending = <<>>
  /\ pending' = <<front[fb]>>
  /\ Continue("select")
  /\ UNCHANGED <<shown, window, events>>

\* Mutant: a flip that is refused is forgotten.
PageFlipRefused_Forgotten == At("page_flip") /\ UNCHANGED screen /\ Return("shown")

\* Another flip is on its way, or the display cannot flip.
PageFlipRefused == At("page_flip") /\ Continue("set_crtc") /\ UNCHANGED screen

\* The kernel finishes a flip before it sets another mode.
SetCrtc ==
  /\ At("set_crtc")
  /\ pending = <<>>
  /\ shown' = front[fb]
  /\ UNCHANGED <<window, pending, events>>
  /\ IF options.vsync THEN Continue("select") ELSE Return("shown")

\* Mutant: the event stays in the queue.
SelectEvent_Unread ==
  /\ At("select")
  /\ events > 0
  /\ UNCHANGED screen
  /\ Return("shown")

\* drmHandleEvent takes whatever is in the queue.
SelectEvent ==
  /\ At("select")
  /\ events > 0
  /\ events' = 0
  /\ UNCHANGED <<shown, window, pending>>
  /\ Return("shown")

SelectTimeout ==
  /\ At("select")
  /\ events = 0
  /\ UNCHANGED screen
  /\ Return(IF pending = <<>> THEN "shown" ELSE "late")

WaitVBlank == At("wait_vblank") /\ Continue("set_plane") /\ UNCHANGED screen

SetPlane ==
  /\ At("set_plane")
  /\ shown' = front[fb]
  /\ UNCHANGED <<window, pending, events>>
  /\ Return("shown")

KmsFails == Fails("set_crtc") \/ Fails("wait_vblank") \/ Fails("set_plane")

-----------------------------------------------------------------------------
(* tegra_dc.                                                               *)

GetWindow ==
  /\ At("get_window")
  /\ Continue(IF options.vsync THEN "read_syncpt" ELSE "flip")
  /\ UNCHANGED screen

ReadSyncpt == At("read_syncpt") /\ Continue("flip") /\ UNCHANGED screen

\* Flips are queued.
Flip ==
  /\ At("flip")
  /\ Len(pending) < MaxFlips
  /\ pending' = Append(pending, front[fb])
  /\ Continue("wait_syncpt")
  /\ UNCHANGED <<shown, window, events>>

WaitSyncpt ==
  /\ At("wait_syncpt")
  /\ pending = <<>>
  /\ UNCHANGED screen
  /\ Return("shown")

WaitSyncptTimeout ==
  /\ At("wait_syncpt")
  /\ pending # <<>>
  /\ UNCHANGED screen
  /\ Return("late")

DcFails == Fails("get_window") \/ Fails("read_syncpt") \/ Fails("flip")

-----------------------------------------------------------------------------
(* X: the picture is copied by the 2D unit, which is waited for, and then  *)
(* sent to the server.                                                     *)
PutImage ==
  /\ At("put_image")
  /\ window' = front[fb]
  /\ UNCHANGED <<shown, pending, events>>
  /\ Return("shown")

PutImageFails == Fails("put_image")

-----------------------------------------------------------------------------
(* The display controller.                                                 *)
VBlank ==
  /\ pending # <<>>
  /\ shown' = Head(pending) /\ pending' = Tail(pending)
  /\ events' = IF machine.driver = "drm" THEN events + 1 ELSE events
  /\ UNCHANGED <<setup, kind, frames, at, window, slipped, failed>>

Step ==
  \/ PageFlip \/ PageFlipRefused \/ SetCrtc \/ SelectEvent \/ SelectTimeout
  \/ WaitVBlank \/ SetPlane \/ KmsFails
  \/ GetWindow \/ ReadSyncpt \/ Flip \/ WaitSyncpt \/ WaitSyncptTimeout \/ DcFails
  \/ PutImage \/ PutImageFails

Next ==
  \/ grate_init
  \/ \E f \in Fbs : grate_bind_framebuffer(f)
  \/ grate_swap_buffers
  \/ Step
  \/ VBlank

\* A thread in a call goes on, and so does the display.  The program need not
\* call anything.
Spec == Init /\ [][Next]_vars /\ WF_vars(Step) /\ WF_vars(VBlank)

-----------------------------------------------------------------------------
(* Properties.                                                             *)

\* Between calls a program with two buffers draws into the one that is neither
\* on the screen nor on its way there (grate_get_draw_pixbuf), unless a call
\* failed or gave up waiting.  On tegra_dc, and for overlays, it has to be the
\* last one; a page flip that came too late counts until none is pending and
\* its event has been taken out of the queue.
HiddenWhileDrawn ==
  at = "idle" /\ fb \in double /\ kind # "none" /\ ~slipped =>
    /\ back[fb] # shown
    /\ back[fb] \notin Range(pending)

\* A program that stops sees its last frame: whatever was refused, late or done
\* instead (drm_display_set), the front buffer ends up on the screen and stays,
\* if the last call ended without an error.
Displayed(b) == IF kind = "x11" THEN window = b ELSE shown = b
Resting(b) ==
  /\ at = "idle" /\ fb # None /\ kind \notin {"none", "unopened"} /\ ~failed
  /\ front[fb] = b
LastFrameStays == \A b \in Buffers : <>[]Resting(b) => <>[]Displayed(b)

-----------------------------------------------------------------------------
(* The inductive invariant of HiddenWhileDrawn.                            *)

Kms == machine.driver = "drm"
Flips == IF Kms THEN kind = "primary" /\ options.vsync ELSE kind \in {"primary", "overlay"}

\* The two buffers of a framebuffer are never the same one.
SwapInv ==
  \A f \in Fbs :
    /\ front[f] \in {<<f, "first">>, <<f, "second">>}
    /\ f \in double => back[f] \in {<<f, "first">>, <<f, "second">>} \ {front[f]}

\* Which display's calls a thread can be in.
CallInv ==
  /\ at # "idle" => fb \in Fbs
  /\ kind = "unopened" => fb \notin Fbs
  /\ at \in {"page_flip", "select"} => Kms /\ Flips
  /\ at = "set_crtc" => Kms /\ kind = "primary"
  /\ at \in {"wait_vblank", "set_plane"} => Kms /\ kind = "overlay"
  /\ at \in {"get_window", "read_syncpt", "flip", "wait_syncpt"} => ~Kms /\ Flips
  /\ at = "put_image" => kind = "x11"

\* Nothing is pending, or in the queue of events, of a display that does not flip.
FlipInv ==
  /\ ~Flips => pending = <<>> /\ events = 0
  /\ ~Kms => events = 0
  /\ kind \notin {"primary", "overlay"} => shown = None

\* In step, flips are pending only while they are waited for.
QuietInv == ~slipped /\ at \notin {"select", "wait_syncpt"} => pending = <<>> /\ events = 0

\* The flip that is waited for is the last one, or is done.
WaitInv ==
  /\ at = "select" =>
       \/ pending = <<>> /\ shown = front[fb]
       \/ pending = <<front[fb]>> /\ (~slipped => events = 0)
  /\ at = "wait_syncpt" =>
       \/ pending = <<>> /\ shown = front[fb]
       \/ pending # <<>> /\ pending[Len(pending)] = front[fb]

\* In step, the screen shows the front buffer.
ShownInv == at = "idle" /\ ~slipped /\ fb \in Fbs /\ kind \in {"primary", "overlay"} => shown = front[fb]

IInv == TypeOK /\ SwapInv /\ CallInv /\ FlipInv /\ QuietInv /\ WaitInv /\ ShownInv
=============================================================================
