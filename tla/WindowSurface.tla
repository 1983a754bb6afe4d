---------------------------- MODULE WindowSurface ----------------------------
(***************************************************************************)
(* A render window, FVizRenderWindow.c and FVizRenderWindowWin32.c: its    *)
(* surface comes and goes with native windows, hosts and contexts, frames  *)
(* are asked for by anyone and drawn when the system's message queue gets  *)
(* to it, and from a frame's observers everything may be called again.     *)
(* Windows itself is modelled by what the code relies on.                  *)
(***************************************************************************)
EXTENDS Integers, Sequences, SequencesExt

CONSTANTS
    Kinds,               \* of own, attached, external, offscreen
    Hosts,
    Buttons(_), Renderers(_), \* of a window of a kind
    Validates,           \* whether EndPaint validates what was invalidated meanwhile, as the code fears
    ReinitializedKinds,  \* the windows that are initialized again
    DestroyedWhileShown, \* whether observers of the frame that show draws destroy the window
    MaxPosted, None

VARIABLES
    window,  \* [kind, state, gl, visible, requested, rendering, active, closing, down, host, list, first, observed]
    system,  \* [native, posted, dirty, onScreen, capture, quit, hosts, asked]
    frame,   \* None or [phase, then]: what follows when it returns
    seen     \* [changed, quality, close]: what was drawn, and who asked to close

surfaceVars == <<window, system, frame, seen>>

Now == [window |-> window, system |-> system, frame |-> frame, seen |-> seen]
Becomes(x) == window' = x.window /\ system' = x.system /\ frame' = x.frame /\ seen' = x.seen

Windowed(x) == x.window.kind # "external"
Alive(x) == x.system.native # None

Init ==
    \E kind \in Kinds, early \in BOOLEAN :
        /\ window = [kind |-> kind, state |-> IF kind = "offscreen" THEN "OFFSCREEN" ELSE "INITIALIZED", gl |-> TRUE,
                     visible |-> kind = "external", requested |-> early /\ kind # "external", rendering |-> FALSE,
                     active |-> FALSE, closing |-> FALSE, down |-> {},
                     host |-> IF kind = "attached" THEN CHOOSE h \in Hosts : TRUE ELSE None,
                     list |-> <<CHOOSE r \in Renderers(kind) : TRUE>>, first |-> CHOOSE r \in Renderers(kind) : TRUE,
                     observed |-> [r \in Renderers(kind) |-> IF r = CHOOSE s \in Renderers(kind) : TRUE THEN 1 ELSE 0]]
        /\ system = [native |-> IF kind = "external" THEN None ELSE IF kind = "attached" THEN CHOOSE h \in Hosts : TRUE ELSE "desktop",
                     posted |-> IF early /\ kind \in {"own", "attached"} THEN <<"render">> ELSE <<>>,
                     dirty |-> kind = "attached", onScreen |-> kind = "attached", capture |-> FALSE, quit |-> FALSE,
                     hosts |-> Hosts, asked |-> FALSE]
        /\ frame = None
        /\ seen = [changed |-> FALSE, quality |-> "still", close |-> FALSE]

-----------------------------------------------------------------------------
(* Asking for a frame *)

Posted(x, message) == IF Alive(x) THEN [x EXCEPT !.system.posted = Append(@, message)] ELSE x

\* fviz_internal_render_window_schedule_render_platform: posted first, invalidated later.
Schedule(x) ==
    CASE x.window.kind = "offscreen" -> x
      [] x.window.kind = "external" -> [x EXCEPT !.system.asked = TRUE]
      [] OTHER -> Posted(x, "render")

Invalidated(x) == [x EXCEPT !.system.dirty = @ \/ x.system.onScreen]

\* fviz_render_window_request_render_reason
Request(x) ==
    IF x.window.state = "FINALIZED" \/ x.window.requested THEN x
    ELSE Schedule([x EXCEPT !.window.requested = TRUE])

SetActive(x, active) ==
    IF x.window.active = active THEN x ELSE Request([x EXCEPT !.window.active = active])

\* fviz_win32_cancel_pointer_interaction; to release the capture calls it once more.
Cancelled(x) ==
    LET ended == SetActive([x EXCEPT !.window.down = {}], FALSE)
    IN  IF Alive(x) THEN Request([ended EXCEPT !.system.capture = FALSE]) ELSE ended
ReleaseCapture(x) == IF x.system.capture THEN Cancelled([x EXCEPT !.system.capture = FALSE]) ELSE x

-----------------------------------------------------------------------------
(* The surface *)

\* WM_DESTROY: whoever destroys the native window, its context goes with it, and a window of
\* its own ends the message loop.
Destroyed(x) ==
    IF ~Alive(x) THEN x
    ELSE LET let == ReleaseCapture(x)
         IN  [let EXCEPT !.window.gl = FALSE, !.window.state = "FINALIZED",
                         !.system = [@ EXCEPT !.native = None, !.posted = <<>>, !.dirty = FALSE, !.onScreen = FALSE,
                                              !.quit = @ \/ x.window.kind = "own"]]

\* fviz_internal_render_window_create_platform; a request from before has to be armed.
Created(x) ==
    LET attached == x.window.kind = "attached"
        native == [x EXCEPT !.window.gl = TRUE,
                            !.system = [@ EXCEPT !.native = IF attached THEN x.window.host ELSE "desktop",
                                                 !.dirty = attached, !.onScreen = attached]]
    IN  IF x.window.requested THEN Schedule(native) ELSE native

\* fviz_render_window_initialize: what fails has had a window that is destroyed again.
Initialized(x, works) ==
    LET fresh == [x EXCEPT !.window.closing = FALSE, !.seen.close = FALSE]
    IN  IF x.window.kind = "attached" /\ x.window.host \notin x.system.hosts THEN fresh
        ELSE IF ~works THEN Destroyed(Created(fresh))
        ELSE [Created(fresh) EXCEPT !.window.state = IF x.window.kind = "offscreen" THEN "OFFSCREEN" ELSE "INITIALIZED"]

Initialize(works) ==
    /\ window.state = "FINALIZED" /\ window.kind \in ReinitializedKinds
    /\ Becomes(Initialized(Now, works))

\* Observers of the frame that is drawn to show the window.
MayDestroy == frame # None => "shown" \notin ToSet(frame.then) \/ DestroyedWhileShown

Finalize ==
    /\ window.state # "FINALIZED" /\ MayDestroy
    /\ Becomes([Destroyed([Now EXCEPT !.window.gl = FALSE]) EXCEPT !.window.visible = FALSE, !.window.state = "FINALIZED"])

\* A host takes its children with it.
DestroyHost(h) ==
    /\ h \in system.hosts /\ (system.native = h => MayDestroy)
    /\ \E x \in {[Now EXCEPT !.system.hosts = @ \ {h}]} : Becomes(IF system.native = h THEN Destroyed(x) ELSE x)

ReleaseExternal ==
    /\ window.kind = "external" /\ ~window.rendering
    /\ Becomes([Now EXCEPT !.window.gl = FALSE])
ReinitializeExternal(works) ==
    /\ window.kind = "external" /\ ~window.rendering
    /\ Becomes(IF works THEN Request([Now EXCEPT !.window.gl = TRUE]) ELSE [Now EXCEPT !.window.gl = FALSE])

-----------------------------------------------------------------------------
(* A frame *)

\* What a handler does behind the frame it has drawn.
Follows(x, next) ==
    CASE next = "endpaint" -> [x EXCEPT !.system.dirty = @ /\ ~Validates]
      [] next = "release" -> IF x.window.down = {} THEN ReleaseCapture(x) ELSE x
      [] next = "shown" -> [x EXCEPT !.window.visible = TRUE, !.window.state = "VISIBLE"]
      [] next = "again" -> [x EXCEPT !.window.visible = TRUE]
After(x, then) == FoldLeft(Follows, x, then)

\* fviz_render_window_render: never in another one, which is asked to come again.
Begun(x, then) ==
    IF x.window.state = "FINALIZED" THEN After(x, then)
    ELSE IF x.window.rendering THEN After(Request(x), then)
    ELSE [x EXCEPT !.window.requested = FALSE, !.window.rendering = TRUE, !.frame = [phase |-> "start", then |-> then]]

\* As if nothing came for what the frame's observers asked.
FinishedUnarmed(x) == After([x EXCEPT !.window.rendering = FALSE, !.frame = None], x.frame.then)
Finished(x) ==
    LET over == [x EXCEPT !.window.rendering = FALSE, !.frame = None]
    IN  After(IF x.window.requested THEN Schedule(over) ELSE over, x.frame.then)

Quality == IF window.active THEN "interactive" ELSE "still"

\* fviz_internal_render_window_render_platform, up to its first renderer and from its last.
Enter(works) ==
    /\ frame # None /\ frame.phase = "start"
    /\ IF works /\ window.gl /\ window.list # <<>>
       THEN Becomes([Now EXCEPT !.frame.phase = "drawing", !.seen.changed = FALSE])
       ELSE Becomes([Now EXCEPT !.frame.phase = "end", !.seen.quality = "failed"])
Leave(works) ==
    /\ frame # None /\ frame.phase = "drawing"
    /\ Becomes([Now EXCEPT !.frame.phase = "end", !.seen.quality = IF works /\ window.gl THEN Quality ELSE "failed"])
Finish == frame # None /\ frame.phase = "end" /\ Becomes(Finished(Now))

\* fviz_render_window_run, and a pick with the hardware, draw without any of it.
Bypass ==
    /\ frame = None /\ window.state # "FINALIZED" /\ window.kind # "external" /\ window.gl /\ window.list # <<>>
    /\ Becomes([Now EXCEPT !.seen = [@ EXCEPT !.changed = FALSE, !.quality = Quality]])

Render == Becomes(Begun(Now, <<>>))
RenderIfRequested == window.requested /\ Becomes(Begun(Now, <<>>))
Ask == Becomes(Request(Now))
HostPaints == system.asked /\ Becomes(Begun([Now EXCEPT !.system.asked = FALSE], <<>>))

\* fviz_render_window_show: the system paints a window that it shows.
Painted(x, then) ==
    IF x.system.dirty THEN Begun([x EXCEPT !.system.dirty = FALSE], <<"endpaint">> \o then) ELSE After(x, then)
Shown(x) == [x EXCEPT !.system.dirty = @ \/ ~x.system.onScreen, !.system.onScreen = TRUE]
Show ==
    /\ window.kind # "offscreen" /\ window.state # "FINALIZED"
    /\ IF window.kind = "external"
       THEN Becomes(Request([Now EXCEPT !.window.visible = TRUE, !.window.state = "VISIBLE"]))
       ELSE Becomes(Painted(Shown(Now), <<"shown">>))

\* fviz_render_window_reparent, which is how a window survives its host.
Synced(x, resized) == IF Alive(x) /\ x.window.host \in x.system.hosts /\ resized THEN Request(x) ELSE x
Reparent(h, works, resized) ==
    /\ window.kind = "attached"
    /\ IF h = window.host /\ Alive(Now) THEN Becomes(Synced(Now, resized))
       ELSE IF ~Alive(Now)
       THEN \E x \in {Initialized([Now EXCEPT !.window.host = h], works)} :
                IF ~Alive(x) THEN Becomes([x EXCEPT !.window.host = window.host])
                ELSE IF window.visible THEN Becomes(Painted(Shown(Synced(x, resized)), <<"again">>))
                ELSE Becomes(Synced(x, resized))
       ELSE IF h \notin system.hosts THEN UNCHANGED <<window, system, frame, seen>>
       ELSE Becomes(Synced([Now EXCEPT !.system.native = h, !.window.host = h], resized))

-----------------------------------------------------------------------------
(* Messages *)

\* FVIZ_WM_REQUEST_RENDER and WM_CLOSE
RequestMessage ==
    /\ system.posted # <<>> /\ Head(system.posted) = "render"
    /\ \E x \in {[Now EXCEPT !.system.posted = Tail(@)]} : Becomes(IF window.requested THEN Invalidated(x) ELSE x)
Closed(x) == Destroyed([x EXCEPT !.window.closing = TRUE])
CloseMessage ==
    /\ system.posted # <<>> /\ Head(system.posted) = "close" /\ MayDestroy
    /\ Becomes(Closed([Now EXCEPT !.system.posted = Tail(@)]))
UserCloses ==
    /\ Alive(Now) /\ system.onScreen /\ MayDestroy
    /\ Becomes(Closed([Now EXCEPT !.seen.close = TRUE]))
RequestClose ==
    /\ ~window.closing
    /\ Becomes(Posted([Now EXCEPT !.window.closing = TRUE, !.seen.close = TRUE], "close"))
QuitMessage ==
    /\ system.quit /\ window.state # "FINALIZED" /\ system.posted = <<>>
    /\ Becomes([Now EXCEPT !.system.quit = FALSE, !.window.closing = TRUE])

\* WM_PAINT, which waits for all that is posted.
PaintMessage ==
    /\ Alive(Now) /\ system.dirty /\ system.posted = <<>>
    /\ Becomes(Begun([Now EXCEPT !.system.dirty = FALSE], <<"endpaint">>))
Expose == Alive(Now) /\ system.onScreen /\ Becomes(Invalidated(Now))
SizeMessage == Alive(Now) /\ Becomes(Request(Now))

\* Buttons, with the pointer captured as long as one of them is down.
ButtonDown(b, handled) ==
    /\ Alive(Now) /\ system.onScreen
    /\ \E x \in {[Now EXCEPT !.window.down = @ \cup {b}, !.system.capture = TRUE]} :
        Becomes(IF handled THEN SetActive(x, TRUE) ELSE x)
ButtonUp(b, handled) ==
    /\ Alive(Now) /\ system.onScreen
    /\ \E x \in {[Now EXCEPT !.window.down = @ \ {b}]} :
        Becomes(IF handled THEN Begun(SetActive(x, FALSE), <<"release">>) ELSE After(x, <<"release">>))
MouseMove(due) ==
    /\ Alive(Now) /\ system.onScreen
    /\ Becomes(IF due \/ ~window.active THEN Request(Now) ELSE Now)
\* A double click, the wheel, a key, which are drawn at once; and to escape.
OtherInput(escape) ==
    /\ Alive(Now) /\ system.onScreen
    /\ Becomes(Begun(IF escape /\ window.kind = "attached" THEN Cancelled(Now) ELSE Now, <<>>))
FocusLost == Alive(Now) /\ Becomes(Cancelled(Now))
CaptureTaken == system.capture /\ Becomes(Cancelled([Now EXCEPT !.system.capture = FALSE]))

-----------------------------------------------------------------------------
(* The renderers of the window *)

\* fviz_render_window_add_renderer; with whatever it cannot allocate nothing stays.
Added(x, r, works) ==
    IF r \in ToSet(x.window.list) \/ ~works THEN x
    ELSE [x EXCEPT !.window.list = Append(@, r), !.window.observed[r] = @ + 1,
                   !.window.first = IF @ = None THEN r ELSE @]
AddRenderer(r, works) == Becomes(Added(Now, r, works))

RemoveOf(x, r) ==
    LET left == SelectSeq(x.window.list, LAMBDA s : s # r)
    IN  [x EXCEPT !.window.list = left, !.window.observed[r] = @ - 1,
                  !.window.first = IF left = <<>> THEN None ELSE left[1]]
RemoveRenderer(r) == r \in ToSet(window.list) /\ Becomes(RemoveOf(Now, r))

SetRenderer(r, works) ==
    Becomes(Added([Now EXCEPT !.window.list = <<>>, !.window.first = None,
                              !.window.observed = [s \in Renderers(window.kind) |-> @[s] - (IF s \in ToSet(window.list) THEN 1 ELSE 0)]],
                  r, works))

\* fviz_render_window_renderer_modified
Modify(r) ==
    \E x \in {[Now EXCEPT !.seen.changed = @ \/ (r \in ToSet(window.list) /\ window.state # "FINALIZED")]} :
        Becomes(IF window.observed[r] > 0 THEN Request(x) ELSE x)

-----------------------------------------------------------------------------

Application ==
    \/ Ask \/ Render \/ RenderIfRequested \/ HostPaints \/ Bypass \/ Show \/ Finalize \/ RequestClose \/ ReleaseExternal
    \/ \E works \in BOOLEAN : Initialize(works) \/ ReinitializeExternal(works)
    \/ \E h \in Hosts : DestroyHost(h)
    \/ \E h \in Hosts, works \in BOOLEAN, resized \in BOOLEAN : Reparent(h, works, resized)
    \/ \E r \in Renderers(window.kind) : Modify(r) \/ RemoveRenderer(r)
    \/ \E r \in Renderers(window.kind), works \in BOOLEAN : AddRenderer(r, works) \/ SetRenderer(r, works)
Messages ==
    \/ RequestMessage \/ CloseMessage \/ UserCloses \/ QuitMessage \/ PaintMessage \/ Expose \/ SizeMessage \/ FocusLost
    \/ CaptureTaken
    \/ \E b \in Buttons(window.kind), handled \in BOOLEAN : ButtonDown(b, handled) \/ ButtonUp(b, handled)
    \/ \E yes \in BOOLEAN : MouseMove(yes) \/ OtherInput(yes)
Frames == Finish \/ \E works \in BOOLEAN : Enter(works) \/ Leave(works)

Next ==
    /\ Application \/ Messages \/ Frames
    /\ Len(system'.posted) <= MaxPosted

Spec == Init /\ [][Next]_surfaceVars

-----------------------------------------------------------------------------
(* What a window promises *)

\* A frame that was asked for comes: a message or an invalid region is there for it, or a
\* frame that arms it when it ends, or the host knows.
RequestArmed ==
    window.requested /\ frame = None =>
        /\ Alive(Now) /\ system.onScreen => "render" \in ToSet(system.posted) \/ system.dirty
        /\ window.kind = "external" /\ window.state # "FINALIZED" => system.asked

\* What was modified since the last frame will be drawn, and what was last drawn in the
\* quality of an interaction is drawn again when that has ended.
Coming == window.requested \/ (frame # None /\ frame.phase = "start") \/ system.dirty
NothingStale ==
    window.state # "FINALIZED" /\ window.kind # "offscreen" /\ window.gl /\ seen.quality # "failed" =>
        /\ seen.changed => Coming
        /\ seen.quality = "interactive" /\ ~window.active => Coming \/ frame # None

\* The pointer is captured while a button is down and no longer, and an interaction ends
\* with it.
CaptureExact ==
    LET releasing == frame # None /\ "release" \in ToSet(frame.then)
    IN  /\ window.down # {} => system.capture
        /\ system.capture \/ window.active => window.down # {} \/ releasing

\* The state, the native window and the context agree, and its parent is the host.
SurfaceAgrees ==
    Windowed(Now) =>
        /\ window.state = "FINALIZED" <=> ~Alive(Now)
        /\ Alive(Now) <=> window.gl
        /\ window.kind = "attached" /\ Alive(Now) => system.native = window.host /\ window.host \in system.hosts
        /\ window.state = "VISIBLE" => window.visible /\ system.onScreen

\* A window closes because someone asked it to.
ClosesAsked == window.closing => seen.close

\* A renderer is observed once while it is in the list, and the first is the default.
RenderersObserved ==
    /\ \A r \in Renderers(window.kind) : window.observed[r] = Len(SelectSeq(window.list, LAMBDA s : s = r))
    /\ \A r \in Renderers(window.kind) : window.observed[r] <= 1
    /\ window.first = IF window.list = <<>> THEN None ELSE window.list[1]

SurfaceExact ==
    RequestArmed /\ NothingStale /\ CaptureExact /\ SurfaceAgrees /\ ClosesAsked /\ RenderersObserved
=============================================================================
