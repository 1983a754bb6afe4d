----------------------------- MODULE Interaction -----------------------------
(***************************************************************************)
(* FVizRenderWindowInteractor.c with the styles of FVizInteractorStyle.c,  *)
(* a widget that is dragged (FVizWidget.c, FVizEngineeringWidgets.c) and   *)
(* the cuts that follow it, in an embedded window of two renderers.  A     *)
(* drag of a camera, an actor or a widget moves it between two poses.      *)
(***************************************************************************)
EXTENDS Integers, FiniteSets

CONSTANTS Buttons, Renderers, Home, MaxCalls, None

\* The widget is in Home, one of the renderers.

VARIABLES
    ui,        \* the interactor, its styles and widget, and what they move
    held,      \* buttons of the mouse that are down
    before,    \* pose of what a style drags, and value of the widget, when the drag began
    disturbed, \* the program changed something during a drag
    calls      \* of the program

interactionVars == <<ui, held, before, disturbed, calls>>

Kinds == {"camera", "actor", "band"}
Movable == Renderers \cup {"actor"}
Idle == [down |-> {}, dragging |-> FALSE, snapshot |-> None]

Init ==
    /\ \E style \in Kinds, enabled, shown \in BOOLEAN, cut \in {None, 0} :
         ui = [enabled |-> enabled, captured |-> None,
             active |-> FALSE,  \* what the window was told
             style |-> style, styles |-> [k \in Kinds |-> Idle],
             poses |-> [m \in Movable |-> 0],
             shown |-> shown, dragged |-> FALSE, manipulating |-> FALSE, value |-> 0, start |-> 0,
             cut |-> cut,
             ends |-> 1]  \* that listeners heard since the last start
    /\ held = {} /\ disturbed = FALSE /\ calls = 0
    /\ before = [pose |-> None, value |-> None]

Moved(pose) == 1 - pose
Style(u) == u.styles[u.style]

-----------------------------------------------------------------------------
(* Styles *)

Restored(u, k) ==
    IF u.styles[k].snapshot = None THEN u.poses
    ELSE [u.poses EXCEPT ![u.styles[k].snapshot.of] = u.styles[k].snapshot.pose]
CancelStyle(u, k) == [u EXCEPT !.poses = Restored(u, k), !.styles[k] = Idle]

\* The first button that goes down takes the snapshot.
Target(u, over) == IF u.style = "actor" THEN "actor" ELSE over
SnapshotAlways(u, of) == [of |-> of, pose |-> u.poses[of]]
Snapshot(u, of) ==
    IF Style(u).snapshot = None THEN [of |-> of, pose |-> u.poses[of]] ELSE Style(u).snapshot

StylePressed(u, b, over) ==
    IF u.style # "band"
    THEN [u EXCEPT !.styles[u.style] =
            [down |-> @.down \cup {b}, dragging |-> TRUE, snapshot |-> Snapshot(u, Target(u, over))]]
    ELSE IF b = "left" THEN [u EXCEPT !.styles["band"].dragging = TRUE] ELSE u

\* The last one that goes up ends the drag.
StyleReleased(u, b) ==
    LET down == Style(u).down \ {b}
    IN  IF u.style # "band"
        THEN [u EXCEPT !.styles[u.style] = IF down = {} THEN Idle ELSE [@ EXCEPT !.down = down]]
        ELSE IF b = "left" THEN [u EXCEPT !.styles["band"].dragging = FALSE] ELSE u

\* An actor follows the buttons, a camera the state; a wheel moves both.
Follows(u) == IF u.style = "actor" THEN Style(u).down # {} ELSE Style(u).dragging
StyleMoved(u, over) == [u EXCEPT !.poses[Target(u, over)] = Moved(@)]

StyleHandles(u, e) ==
    CASE e.type = "press" -> StylePressed(u, e.button, e.over)
      [] e.type = "release" -> StyleReleased(u, e.button)
      [] e.type = "move" -> IF u.style # "band" /\ Follows(u) THEN StyleMoved(u, e.over) ELSE u
      [] e.type = "wheel" -> IF u.style # "band" THEN StyleMoved(u, e.over) ELSE u
      [] OTHER -> u

-----------------------------------------------------------------------------
(* The interactor *)

CancelInteraction(u, emit) ==
    [CancelStyle(u, u.style) EXCEPT
        !.captured = None, !.active = FALSE,
        !.ends = IF emit /\ Style(u).dragging THEN @ + 1 ELSE @]
ReleaseFocus(u) == CancelInteraction(u, TRUE)

-----------------------------------------------------------------------------
(* The widget *)

CutUpdated(u) == [u EXCEPT !.cut = IF @ = None THEN None ELSE u.value]

EndWidget(u) == IF u.dragged THEN ReleaseFocus([u EXCEPT !.dragged = FALSE]) ELSE u
EndDrag(u) == EndWidget([u EXCEPT !.manipulating = FALSE])
EscapeDrag(u) == EndWidget(CutUpdated([u EXCEPT !.value = u.start, !.manipulating = FALSE]))
BeginDrag(u) == [u EXCEPT !.start = u.value, !.manipulating = TRUE, !.dragged = TRUE]
DragOn(u) == IF u.manipulating THEN CutUpdated([u EXCEPT !.value = Moved(@)]) ELSE u

\* Of an event that is not for the widget only the style hears.
Handled(u) == [handled |-> TRUE, ui |-> u]
Unhandled(u) == [handled |-> FALSE, ui |-> u]
WidgetEvent(u, e) ==
    IF ~u.shown THEN Unhandled(u)
    ELSE IF e.type = "escape" THEN IF u.dragged THEN Handled(EscapeDrag(u)) ELSE Unhandled(u)
    ELSE IF e.type = "focusOut" THEN IF u.dragged THEN Handled(EndWidget(u)) ELSE Unhandled(u)
    ELSE IF e.type = "press" /\ e.button = "left" /\ e.hit /\ (u.dragged \/ e.over = Home)
         THEN Handled(BeginDrag(u))
    ELSE IF e.type = "move" /\ u.dragged THEN Handled(DragOn(u))
    ELSE IF e.type = "release" /\ e.button = "left" /\ u.dragged THEN Handled(EndDrag(u))
    ELSE Unhandled(u)

-----------------------------------------------------------------------------
(* Events *)

\* The renderer that has the pointer captured gets what happens over any.
Aimed(u, e) == [e EXCEPT !.over = IF u.captured # None THEN u.captured ELSE e.over]
ToStyle(u, e) ==
    LET aimed == Aimed(u, e)
        caught == [u EXCEPT !.captured = IF e.type = "press" THEN aimed.over ELSE u.captured]
    IN  [StyleHandles(caught, aimed) EXCEPT !.captured = IF e.type = "release" THEN None ELSE @]

Dispatched(u, e) ==
    LET w == WidgetEvent(u, e)
        escaped == IF ~w.handled /\ e.type = "escape" THEN CancelInteraction(w.ui, FALSE) ELSE w.ui
        left == IF e.type = "focusOut" THEN CancelInteraction(escaped, FALSE) ELSE escaped
    IN  IF w.handled \/ e.type = "escape" THEN left ELSE ToStyle(left, e)

\* The window and the listeners hear what became of the drag, also if a widget that lost
\* the focus has had its end announced.
ProcessEvent(u, e) ==
    LET v == Dispatched(u, e)
    IN  [v EXCEPT !.active = Style(v).dragging,
                  !.ends = IF Style(u).dragging = Style(v).dragging THEN @
                           ELSE IF Style(v).dragging THEN 0 ELSE @ + 1]

Event(type, button, over, hit) == [type |-> type, button |-> button, over |-> over, hit |-> hit]
Dragging(u) == u.dragged \/ \E k \in Kinds : u.styles[k].dragging

\* Once nothing is dragged any more, nothing is left of what disturbed it.
Happens(e) ==
    /\ ui' = IF ui.enabled THEN ProcessEvent(ui, e) ELSE ui
    /\ disturbed' = (disturbed /\ (held' # {} \/ Dragging(ui') \/ ui'.manipulating \/ ui'.ends = 0))
    /\ before' = [pose |-> IF ui'.style = "band" \/ ~Style(ui').dragging THEN None
                         ELSE IF Style(ui).dragging THEN before.pose ELSE ui.poses[Target(ui, e.over)],
                 value |-> IF ~ui'.dragged THEN None ELSE IF ui.dragged THEN before.value ELSE ui.value]
    /\ UNCHANGED calls

Press(b, over, hit) ==
    /\ b \notin held
    /\ held' = held \cup {b}
    /\ Happens(Event("press", b, over, hit))

Release(b, over) ==
    /\ b \in held
    /\ held' = held \ {b}
    /\ Happens(Event("release", b, over, FALSE))

Other(type, over) ==
    /\ UNCHANGED held
    /\ Happens(Event(type, None, over, FALSE))

-----------------------------------------------------------------------------
(* Calls of the program *)

Calls(u, disturbs) ==
    /\ calls < MaxCalls
    /\ calls' = calls + 1
    /\ ui' = u
    /\ disturbed' = (disturbed \/ (disturbs /\ (held # {} \/ Dragging(ui))))
    /\ UNCHANGED <<held, before>>

Cancel == Calls(CancelInteraction(ui, TRUE), FALSE)
Disable == ui.enabled /\ Calls([ReleaseFocus(ui) EXCEPT !.enabled = FALSE], TRUE)
Enable == ~ui.enabled /\ Calls([ui EXCEPT !.enabled = TRUE], TRUE)
SetStyle(k) == k # ui.style /\ Calls([ui EXCEPT !.style = k], TRUE)
SetActor == Calls(IF ui.styles["actor"].snapshot # None THEN CancelStyle(ui, "actor") ELSE ui, TRUE)
ResetBand == Calls([ui EXCEPT !.styles["band"].dragging = FALSE], TRUE)
ShowWidget == ~ui.shown /\ Calls([ui EXCEPT !.shown = TRUE], TRUE)
HideWidget == ui.shown /\ Calls([EndWidget(ui) EXCEPT !.shown = FALSE], TRUE)
SetValue == Calls(CutUpdated([ui EXCEPT !.value = Moved(@)]), TRUE)
AddCut == ui.cut = None /\ Calls([ui EXCEPT !.cut = ui.value], FALSE)
RemoveCut == ui.cut # None /\ Calls([ui EXCEPT !.cut = None], FALSE)

Next ==
    \/ \E b \in Buttons, over \in Renderers :
        Release(b, over) \/ \E hit \in BOOLEAN : Press(b, over, hit)
    \/ \E type \in {"move", "wheel"}, over \in Renderers : Other(type, over)
    \/ Other("escape", Home) \/ Other("focusOut", Home)
    \/ Cancel \/ Disable \/ Enable \/ SetActor \/ ResetBand \/ \E k \in Kinds : SetStyle(k)
    \/ ShowWidget \/ HideWidget \/ SetValue \/ AddCut \/ RemoveCut

-----------------------------------------------------------------------------
\* A style drags while a button that it saw is down, and keeps the pose from before; a widget
\* that is dragged has its manipulator.
DragsMatch ==
    /\ \A k \in {"camera", "actor"} :
        ui.styles[k].dragging = (ui.styles[k].down # {})
        /\ ui.styles[k].dragging = (ui.styles[k].snapshot # None)
    /\ ui.dragged => ui.manipulating /\ ui.shown

\* When no button is held nobody drags, and no renderer has captured the pointer, in whatever
\* order buttons of a widget's drag and of a camera's went down and up, unless the program
\* meddled with it.
ReleasedAtLast ==
    (~disturbed /\ held = {}) => ~Dragging(ui) /\ ui.captured = None

\* Whoever listens to starts and ends of interaction, and the window that lowers its quality
\* meanwhile, knows whether there is one (docs/design/INTERACTION_OBSERVERS.md:97).
ListenersKnow ==
    ~disturbed => (ui.ends = 0) = Style(ui).dragging /\ ui.active = Style(ui).dragging

\* What a listener counts, an undo group or a change of quality, is closed once, but for an
\* event that ends the drags of a widget and of a style at once: the end that the widget's
\* release of the focus announces is announced again.
EndsOnce ==
    (~disturbed /\ ui'.ends > 1 /\ ui'.ends # ui.ends) =>
        /\ ui'.ends = 2
        /\ ui.dragged /\ ~ui'.dragged /\ Style(ui).dragging

\* A drag that is cancelled by Escape, a call or the loss of focus leaves the camera or actor
\* where it was (docs/api/PUBLIC_API_CONTRACTS.md:180); Escape leaves the widget, too.
CancelRestores ==
    ~disturbed /\ (Cancel \/ Other("escape", Home) \/ Other("focusOut", Home)) =>
        /\ (~ui.dragged /\ Style(ui).snapshot # None) =>
            ui'.poses[Style(ui).snapshot.of] = before.pose
        /\ (ui.dragged /\ Other("escape", Home)) => ui'.value = before.value

\* The cut is where the widget is.
CutFollows == ui.cut # None => ui.cut = ui.value
=============================================================================
