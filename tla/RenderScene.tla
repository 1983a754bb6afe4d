----------------------------- MODULE RenderScene -----------------------------
(***************************************************************************)
(* A frame as FVizRenderWindowWin32.c and FVizGLDevice.c draw it: layers   *)
(* of renderers, the passes of each, the actors of a pass, and the state   *)
(* of the graphics library that every one of them changes and leaves to    *)
(* the next; then what is under the cursor.  Of the images one pixel is    *)
(* kept: how near it is and who was painted over whom.  Depths grow away   *)
(* from the camera, actors are records in the order of their scene.        *)
(***************************************************************************)
EXTENDS Integers, Sequences, SequencesExt, FiniteSetsExt

CONSTANTS
    Scenes,   \* sequences of renderers
    Devices,  \* what the graphics library can do
    MaxRenders, MaxVertices, None

VARIABLES
    scene, device,
    frame, \* [at, order, turn, pass, gl, log, pixels, counts, passes, current, frames, applied]
    answer \* to the last question what is under the cursor

sceneVars == <<scene, device, frame, answer>>

Associations == {"actor", "point", "cell", "edge", "glyph"}
Far == 1000
Empty == [depth |-> Far, colors |-> <<>>]
NoCounts ==
    [draws |-> 0, triangles |-> 0, lines |-> 0, considered |-> 0, outside |-> 0, small |-> 0,
     shown |-> 0, restored |-> 0]

\* fviz_win32_apply_gl_state; the depth function is the library's own.
FreshState ==
    [test |-> TRUE, write |-> TRUE, func |-> "less", blend |-> FALSE, mix |-> "one", cull |-> "back",
     range |-> 0, offset |-> FALSE, program |-> "none", target |-> "window", scissor |-> FALSE]

\* Lower layers first, in a layer in the order of their addition.
LayerOrder(renderers) ==
    SetToSortSeq(DOMAIN renderers, LAMBDA i, j :
        \/ renderers[i].layer < renderers[j].layer
        \/ renderers[i].layer = renderers[j].layer /\ i < j)

Init ==
    /\ scene \in Scenes
    /\ device \in Devices
    /\ frame = [at |-> "idle", order |-> <<>>, turn |-> 0, pass |-> 0, gl |-> FreshState, log |-> <<>>,
                pixels |-> [t \in {"window", "oit", "peel"} |-> Empty], counts |-> NoCounts, passes |-> <<>>,
                current |-> FALSE, frames |-> 0, applied |-> None]
    /\ answer = None

-----------------------------------------------------------------------------
(* What is drawn *)

Nearer(func, depth, old) ==
    CASE func = "less" -> depth < old [] func = "lequal" -> depth <= old [] func = "always" -> TRUE

\* The depth is only kept where it is tested.
Painted(pixel, gl, depth, who) ==
    IF gl.test /\ ~Nearer(gl.func, depth, pixel.depth) THEN pixel
    ELSE [depth |-> IF gl.test /\ gl.write THEN depth ELSE pixel.depth,
          colors |-> IF gl.blend THEN Append(pixel.colors, who) ELSE <<who>>]

\* A draw: what, of which actor, and the state in which it happens; onto the pixel, if it
\* covers it.
Draw(f, what, i, covers, depth) ==
    [f EXCEPT !.log = Append(@, [what |-> what, renderer |-> f.order[f.turn], actor |-> i, gl |-> f.gl]),
              !.counts.draws = @ + 1,
              !.pixels[f.gl.target] =
                IF covers /\ scene[f.order[f.turn]].covers THEN Painted(@, f.gl, depth - f.gl.range, <<what, f.order[f.turn], i>>)
                ELSE @]

Copies(a) == IF a.instances > 0 THEN a.instances ELSE 1
Translucent(a) == a.kind = "volume" \/ ~a.opaque
Outside(r, a) == r.frustum /\ ~a.inside
Small(r, a) == ~Outside(r, a) /\ r.small > 0 /\ a.size < r.small
Renderable(r, a) == ~Outside(r, a) /\ ~Small(r, a)

\* An overlay mode decides in place of the actor's own flags.
EdgesShown(a) == IF a.mode \in {"only", "wireframe", "points"} THEN FALSE ELSE a.mode = "edges" \/ a.edges
WireShown(a) == IF a.mode \in {"only", "edges", "points"} THEN FALSE ELSE a.mode = "wireframe" \/ a.wire

Offset(a) ==
    /\ a.coincident = "offset" \/ (a.coincident = "default" /\ EdgesShown(a))
    /\ a.faces \/ EdgesShown(a)
Shift(a) == IF a.coincident = "shift" THEN a.shift ELSE 0

\* The depth controls of an actor are there for its faces, and undone behind them.
Surface(f, a, i) ==
    LET gl == f.gl
        own == [gl EXCEPT !.test = @ /\ a.test, !.write = @ /\ a.write,
                          !.func = IF a.func # "lequal" THEN a.func ELSE @,
                          !.range = IF a.range # 0 \/ Shift(a) # 0 THEN a.range + Shift(a) ELSE @,
                          !.offset = @ \/ Offset(a)]
        drawn == Draw([f EXCEPT !.gl = own], "fill", i, a.depth > 0, IF own.offset THEN a.depth + 1 ELSE a.depth)
        undone == [own EXCEPT !.test = @ \/ ~a.test, !.write = @ \/ ~a.write,
                              !.func = IF a.func # "lequal" THEN "lequal" ELSE @,
                              !.range = IF a.range # 0 \/ Shift(a) # 0 THEN 0 ELSE @,
                              !.offset = IF Offset(a) THEN FALSE ELSE @]
    IN  [drawn EXCEPT !.gl = undone, !.counts.triangles = @ + a.tris * Copies(a)]

Lines(f, a, i, n) ==
    [Draw(f, "lines", i, a.depth > 0 /\ a.rim, a.depth) EXCEPT !.counts.lines = @ + n * Copies(a)]
EdgeLines(f, a, i) ==
    LET mesh == IF a.lines > 0 THEN Lines(f, a, i, a.lines) ELSE f
    IN  IF (a.edges \/ a.wire) /\ a.tris > 0 THEN Lines(mesh, a, i, 3 * a.tris) ELSE mesh

\* Translucent actors that are visible, the farthest first.
BackToFront(actors) ==
    SetToSortSeq({i \in DOMAIN actors : actors[i].visible /\ Translucent(actors[i])}, LAMBDA i, j :
        \/ actors[i].distance > actors[j].distance
        \/ actors[i].distance = actors[j].distance /\ i < j)

\* Counted once, where the opaque ones are drawn.
Counted(f, r, a) ==
    [f EXCEPT !.counts.considered = @ + 1,
              !.counts.outside = @ + IF a.visible /\ Outside(r, a) THEN 1 ELSE 0,
              !.counts.small = @ + IF a.visible /\ Small(r, a) THEN 1 ELSE 0,
              !.counts.shown = @ + IF a.visible /\ Renderable(r, a) THEN 1 ELSE 0]

Passed(r, a, stage) ==
    /\ a.visible /\ Renderable(r, a)
    /\ stage = "OPAQUE" => ~Translucent(a)
    /\ stage = "TRANSLUCENT" => Translucent(a)
    /\ a.order \in {"OPAQUE", stage}

\* fviz_gl_render_volume leaves its program and no writes behind.
Volume(f, a, i) ==
    LET gl == [f.gl EXCEPT !.cull = "none", !.program = "volume", !.test = TRUE, !.write = FALSE]
    IN  IF a.ready THEN Draw([f EXCEPT !.gl = gl], "volume", i, a.depth > 0, a.depth)
        ELSE [f EXCEPT !.gl.cull = "none"]

OneActor(f, r, i, stage) ==
    LET a == r.actors[i]
        counted == IF stage = "OPAQUE" THEN Counted(f, r, a) ELSE f
        set == [counted EXCEPT !.gl.cull = a.cull]
    IN  IF ~Passed(r, a, stage) THEN counted
        ELSE IF stage = "TRANSLUCENT" /\ a.kind = "volume" /\ device.volume THEN Volume(counted, a, i)
        ELSE IF ~a.ready \/ (a.tris = 0 /\ a.lines = 0) THEN counted
        ELSE IF stage = "EDGE" THEN EdgeLines(set, a, i)
        ELSE IF a.tris > 0 /\ ~WireShown(a) THEN Surface(set, a, i)
        ELSE set

\* fviz_internal_gl_device_render_stage; sorted but where what is translucent is summed up.
Stage(f, r, stage, summed) ==
    LET sorted == stage = "TRANSLUCENT" /\ ~summed
        order == IF sorted THEN BackToFront(r.actors) ELSE [i \in DOMAIN r.actors |-> i]
        begun == [f.gl EXCEPT !.program = "mesh", !.blend = @ \/ sorted, !.write = @ /\ ~sorted,
                              !.mix = IF sorted THEN "alpha" ELSE @]
        drawn == FoldLeft(LAMBDA g, i : OneActor(g, r, i, stage), [f EXCEPT !.gl = begun], order)
    IN  [drawn EXCEPT !.gl = [@ EXCEPT !.cull = "back", !.program = "none",
                                       !.write = @ \/ sorted, !.blend = @ /\ ~sorted]]

\* fviz_gl_render_shader_edges: edges, then points, which are kept in the depth if opaque.
EdgeOf(f, r, i) ==
    LET a == r.actors[i]
    IN  IF a.visible /\ Renderable(r, a) /\ a.ready /\ (a.lines > 0 \/ a.edges \/ a.wire)
        THEN EdgeLines(f, a, i) ELSE f
PointsOf(f, r, i) ==
    LET a == r.actors[i]
        gl == [f.gl EXCEPT !.write = ~Translucent(a)]
    IN  IF a.visible /\ (a.points \/ a.mode = "points") /\ Renderable(r, a) /\ a.ready /\ a.vertices > 0
        THEN Draw([f EXCEPT !.gl = gl], "points", i, a.depth > 0 /\ a.rim, a.depth)
        ELSE f
ShaderEdges(f, r) ==
    LET begun == [f.gl EXCEPT !.blend = TRUE, !.mix = "alpha", !.write = FALSE, !.func = "lequal", !.cull = "none"]
        edges == IF device.edges
                 THEN FoldLeft(LAMBDA g, i : EdgeOf(g, r, i),
                        [f EXCEPT !.gl = [begun EXCEPT !.program = "edge"]], [i \in DOMAIN r.actors |-> i])
                 ELSE [f EXCEPT !.gl = begun]
        points == IF device.points
                  THEN FoldLeft(LAMBDA g, i : PointsOf(g, r, i),
                         [edges EXCEPT !.gl.program = "point"], [i \in DOMAIN r.actors |-> i])
                  ELSE edges
    IN  [points EXCEPT !.gl = [f.gl EXCEPT !.mix = "alpha", !.program = "none"]]

\* What lies over the scene, and the background, is drawn in a state of its own that the
\* one before it follows again.
Flat(f, what, program, tested, blended) ==
    LET gl == [f.gl EXCEPT !.test = tested, !.write = FALSE, !.cull = "none", !.blend = blended,
                           !.mix = IF blended THEN "alpha" ELSE @, !.program = program]
        drawn == Draw([f EXCEPT !.gl = gl], what, 0, what = "gradient", Far)
    IN  [drawn EXCEPT !.gl = [f.gl EXCEPT !.mix = gl.mix, !.program = "none"]]

LegendVertices(legend) ==
    LET ticks == legend.ticks
        segments == IF ~legend.discrete THEN 32 ELSE IF ticks > 1 THEN ticks - 1 ELSE 1
        quads == (IF legend.panel THEN 1 ELSE 0) + 4 + segments + (IF legend.discrete THEN segments - 1 ELSE 0)
                 + 4 + (IF legend.marks THEN 2 * ticks ELSE 0) + ticks
    IN  6 * quads

\* The legend, its bar and then its texts; behind them labels and texts, until one fails.
Legend(f, r) ==
    IF r.legend = None THEN f
    ELSE LET bar == Flat(f, "legend", "flat", FALSE, FALSE)
         IN  IF ~device.text THEN bar
             ELSE FoldLeft(LAMBDA g, t : Flat(g, "text", "text", FALSE, TRUE), bar, [t \in 1 .. r.legend.texts |-> t])
Shown(texts) == SelectSeq(texts, LAMBDA t : t.visible)
Sound(texts) ==
    LET shown == Shown(texts)
        bad == {k \in DOMAIN shown : shown[k].fails}
    IN  IF bad = {} THEN shown ELSE SubSeq(shown, 1, Min(bad) - 1)
Texts(f, r) == FoldLeft(LAMBDA g, t : Flat(g, "text", "text", t.tested, TRUE), f, Sound(r.texts))

Cleared(f, r) ==
    LET wiped == IF r.covers THEN [f EXCEPT !.pixels["window"] = Empty] ELSE f
    IN  IF ~r.gradient THEN wiped
        ELSE IF device.modern THEN Flat(wiped, "gradient", "flat", FALSE, FALSE) ELSE wiped

\* Without programs everything is drawn at once, and nothing blended.
LegacyActor(f, r, i) ==
    LET a == r.actors[i]
    IN  IF a.visible /\ a.tris > 0
        THEN LET gl == [f.gl EXCEPT !.cull = a.cull]
             IN  [f EXCEPT !.gl = gl, !.log = Append(@, [what |-> "fill", renderer |-> f.order[f.turn], actor |-> i, gl |-> gl]),
                           !.pixels["window"] = IF a.depth > 0 /\ r.covers /\ ~a.wire
                              THEN Painted(@, gl, a.depth, <<"fill", f.order[f.turn], i>>) ELSE @]
        ELSE f
Legacy(f, r) == FoldLeft(LAMBDA g, i : LegacyActor(g, r, i), f, [i \in DOMAIN r.actors |-> i])

\* Everything translucent is drawn twice over the depth of what is opaque, and the sums
\* are laid over it.
Summed(f, r) ==
    LET old == f.gl
        begun == [f EXCEPT !.gl = [old EXCEPT !.target = "oit", !.test = TRUE, !.write = FALSE, !.blend = TRUE, !.mix = "sum"],
                           !.pixels["oit"] = [depth |-> f.pixels["window"].depth, colors |-> <<>>]]
        first == Stage(begun, r, "TRANSLUCENT", TRUE)
        again == Stage([first EXCEPT !.gl.mix = "product", !.pixels["oit"].colors = <<>>], r, "TRANSLUCENT", TRUE)
        gl == [again.gl EXCEPT !.target = "window", !.test = FALSE, !.write = FALSE, !.cull = "none",
                               !.blend = TRUE, !.mix = "alpha", !.program = "composite"]
        laid == Draw([again EXCEPT !.gl = gl], "composite", 0, FALSE, Far)
    IN  [laid EXCEPT !.gl = [gl EXCEPT !.write = old.write, !.test = old.test, !.blend = old.blend,
                                       !.cull = old.cull, !.program = "none"],
                     !.pixels["window"].colors = @ \o (IF r.covers THEN again.pixels["oit"].colors ELSE <<>>)]

Layers == 4
Peeled(f, r) ==
    LET old == f.gl
        Layer(g, k) == Stage(
            [g EXCEPT !.gl = [@ EXCEPT !.target = "peel", !.test = TRUE, !.func = "lequal", !.write = TRUE,
                                       !.blend = TRUE, !.mix = "alpha", !.program = "mesh"],
                      !.pixels["peel"].depth = Far], r, "TRANSLUCENT", FALSE)
        drawn == FoldLeft(Layer, [f EXCEPT !.pixels["peel"] = Empty], [k \in 1 .. Layers |-> k])
    IN  [drawn EXCEPT !.gl = [@ EXCEPT !.target = "window", !.test = old.test, !.blend = old.blend, !.write = old.write],
                      !.pixels["window"].colors = IF r.covers THEN drawn.pixels["peel"].colors ELSE @]

TransparencyOf(r) ==
    IF r.blending = "summed" /\ device.summing # "none" THEN "summed"
    ELSE IF r.blending = "peeled" /\ device.peeling THEN "peeled"
    ELSE "sorted"

\* A pass of the application draws with programs of its own and may leave any state behind;
\* all that is captured is set back.
Left(gl) ==
    [gl EXCEPT !.test = FALSE, !.write = FALSE, !.func = "always", !.blend = TRUE, !.mix = "one", !.cull = "front",
               !.program = "custom", !.target = "custom", !.scissor = FALSE]
Restored(old, gl) == [old EXCEPT !.mix = gl.mix]
Custom(f) ==
    IF device.modern THEN [f EXCEPT !.gl = Restored(@, Left(@)), !.counts.restored = @ + 1] ELSE f

\* What a pass makes of the frame, and whether it ends it.
Run(f, r, pass) ==
    CASE pass = "CLEAR" -> IF r.layer = 0 THEN Cleared(f, r) ELSE f
      [] pass = "OPAQUE" -> IF device.modern THEN Stage(f, r, "OPAQUE", FALSE) ELSE Legacy(f, r)
      [] pass = "TRANSLUCENT" ->
            IF ~device.modern THEN f
            ELSE LET chosen == TransparencyOf(r)
                     drawn == CASE chosen = "summed" -> IF device.summing = "fails" THEN f ELSE Summed(f, r)
                                [] chosen = "peeled" -> Peeled(f, r)
                                [] chosen = "sorted" -> Stage(f, r, "TRANSLUCENT", FALSE)
                 IN  IF chosen = "summed" /\ device.summing = "fails" THEN f ELSE [drawn EXCEPT !.applied = chosen]
      [] pass = "EDGE" ->
            IF ~device.modern THEN f
            ELSE IF device.edges \/ device.points THEN ShaderEdges(f, r) ELSE Stage(f, r, "EDGE", FALSE)
      [] pass = "OVERLAY" ->
            IF ~device.modern THEN f
            ELSE IF device.text THEN Texts(Legend(f, r), r) ELSE Legend(f, r)
      [] pass = "SELECTION" -> f
      [] pass \in {"custom", "failing"} -> Custom(f)
Fails(r, pass) ==
    \/ pass = "failing"
    \/ pass = "TRANSLUCENT" /\ device.modern /\ TransparencyOf(r) = "summed" /\ device.summing = "fails"
    \/ pass = "OVERLAY" /\ device.modern /\ device.text /\ \E k \in DOMAIN Shown(r.texts) : Shown(r.texts)[k].fails

-----------------------------------------------------------------------------
(* A frame, and a question *)

Begun(f) ==
    [f EXCEPT !.at = "pass", !.order = LayerOrder(scene), !.turn = 1, !.pass = 1, !.log = <<>>, !.counts = NoCounts,
              !.passes = <<>>, !.current = TRUE, !.frames = @ + 1, !.applied = "sorted",
              !.gl = [@ EXCEPT !.target = "window", !.scissor = TRUE], !.pixels["window"] = Empty]

\* The context is given back and the scissors are off, however a frame ends.
Ended(f, at) == [f EXCEPT !.at = at, !.current = FALSE, !.gl.scissor = FALSE]

Smoothed(f) ==
    IF ~(device.smoothing /\ device.modern) THEN f
    ELSE LET drawn == Draw([f EXCEPT !.gl = [@ EXCEPT !.test = FALSE, !.write = FALSE, !.blend = FALSE, !.cull = "none", !.program = "smooth"]],
                           "smooth", 0, FALSE, Far)
         IN  [drawn EXCEPT !.gl = [f.gl EXCEPT !.program = "none"]]

Render ==
    /\ frame.at \in {"idle", "done", "failed"} /\ frame.frames < MaxRenders
    /\ frame' = Begun(frame)
    /\ UNCHANGED <<scene, device, answer>>

\* A renderer whose mappers fail ends the frame, as does a pass that fails.
Pass ==
    LET r == scene[frame.order[frame.turn]]
        pass == r.passes[frame.pass]
    IN  /\ frame.at = "pass" /\ frame.pass <= Len(r.passes)
        /\ IF ~r.works THEN frame' = Ended(frame, "failed")
           ELSE LET drawn == [Run(frame, r, pass) EXCEPT
                        !.passes = Append(@, [renderer |-> frame.order[frame.turn], pass |-> pass, failed |-> Fails(r, pass)])]
                IN  frame' = IF Fails(r, pass) THEN Ended(drawn, "failed") ELSE [drawn EXCEPT !.pass = @ + 1]
        /\ UNCHANGED <<scene, device, answer>>

NextRenderer ==
    /\ frame.at = "pass" /\ frame.pass > Len(scene[frame.order[frame.turn]].passes)
    /\ IF frame.turn < Len(frame.order) THEN frame' = [frame EXCEPT !.turn = @ + 1, !.pass = 1]
       ELSE frame' = Ended(Smoothed(frame), "done")
    /\ UNCHANGED <<scene, device, answer>>

\* The renderer under the cursor: of the highest layer, the last of those.
Asked ==
    LET under == {i \in DOMAIN scene : scene[i].interactive /\ scene[i].covers}
        order == SelectSeq(LayerOrder(scene), LAMBDA i : i \in under)
    IN  IF under = {} THEN None ELSE Last(order)

Pickable(r, a) == a.visible /\ a.pickable /\ a.seen /\ Renderable(r, a) /\ a.ready
\* How near the part of an actor is that an association asks for, if it is under the cursor.
HitDepth(a, association) ==
    LET face == association \in {"cell", "glyph"} \/ (association = "actor" /\ a.tris > 0)
    IN  IF a.depth > 0 /\ (face \/ a.rim) THEN a.depth ELSE Far
Offered(a, association) ==
    /\ association = "glyph" => a.kind = "glyphs" /\ a.instances > 0
    /\ association \in {"point", "cell", "edge"} => a.kind # "glyphs"
    /\ association \in {"cell", "edge", "glyph"} => a.tris > 0
    /\ association = "point" => a.vertices > 0
    /\ association = "actor" => a.tris > 0 \/ a.lines > 0 \/ a.vertices > 0

\* fviz_internal_gl_device_select: faces, behind which points and edges are not found; of
\* those before them the last that is drawn is the one that is read.
Selected(r, association) ==
    LET some == {i \in DOMAIN r.actors : Pickable(r, r.actors[i])}
        faces == {r.actors[i].depth : i \in {k \in some : r.actors[k].tris > 0 /\ r.actors[k].depth > 0}}
        first == [depth |-> IF association \in {"point", "edge"} THEN Min(faces \cup {Far}) ELSE Far, who |-> None]
        Next(best, i) ==
            LET depth == HitDepth(r.actors[i], association)
            IN  IF i \notin some \/ ~Offered(r.actors[i], association) \/ depth = Far THEN best
                ELSE IF association \in {"point", "edge"}
                     THEN IF depth <= best.depth THEN [best EXCEPT !.who = i] ELSE best
                     ELSE IF depth < best.depth THEN [depth |-> depth, who |-> i] ELSE best
    IN  FoldLeft(Next, first, [i \in DOMAIN r.actors |-> i]).who

\* Without programs a ray meets the first actor that has faces, and what it meets is said
\* of the first actor with those data.
Cast(r) ==
    LET solid == {i \in DOMAIN r.actors : r.actors[i].visible /\ r.actors[i].tris > 0}
    IN  IF solid = {} \/ r.actors[Min(solid)].depth = 0 THEN None
        ELSE Min({i \in DOMAIN r.actors : r.actors[i].data = r.actors[Min(solid)].data})

\* fviz_render_window_select_at; what is drawn for it makes another frame necessary.
Ask(association) ==
    LET r == scene[Asked]
        drawn == Selected(r, association)
        cell == Selected(r, "cell")
        refined == association \in {"point", "edge"} /\ drawn = None /\ cell # None
    IN  /\ frame.at \in {"idle", "done", "failed"} /\ frame.frames < MaxRenders
        /\ IF Asked = None \/ ~r.works
           THEN /\ answer' = [of |-> association, renderer |-> Asked, actor |-> None, how |-> "none"]
                /\ UNCHANGED frame
           ELSE IF ~device.modern
           THEN /\ answer' = [of |-> association, renderer |-> Asked, actor |-> Cast(r), how |-> "cast"]
                /\ UNCHANGED frame
           ELSE /\ answer' = [of |-> association, renderer |-> Asked, actor |-> IF refined THEN cell ELSE drawn,
                              how |-> IF refined THEN "refined" ELSE "drawn"]
                /\ frame' = Begun(frame)
        /\ UNCHANGED <<scene, device>>

Next ==
    \/ Render \/ Pass \/ NextRenderer
    \/ \E association \in Associations : Ask(association)

Spec == Init /\ [][Next]_sceneVars

-----------------------------------------------------------------------------
(* What should be seen *)

Finished == frame.at = "done"
Face(entry) == entry.what \in {"fill", "volume"}

\* Every actor that can be seen is drawn, in one place and once; twice where it is summed
\* up, and once for every layer that is peeled off.
DrawnTimes(r, a) ==
    IF ~a.visible \/ (device.modern /\ (~Renderable(r, a) \/ ~a.ready)) THEN 0
    ELSE IF ~device.modern THEN IF a.tris > 0 THEN 1 ELSE 0
    ELSE IF (a.kind = "volume" /\ ~device.volume) \/ (a.kind # "volume" /\ (a.tris = 0 \/ WireShown(a))) THEN 0
    ELSE IF ~Translucent(a) \/ TransparencyOf(r) = "sorted" THEN 1
    ELSE IF TransparencyOf(r) = "summed" THEN 2 ELSE Layers
DrawnOnce ==
    Finished => \A i \in DOMAIN scene : \A k \in DOMAIN scene[i].actors :
        Len(SelectSeq(frame.log, LAMBDA e : Face(e) /\ e.renderer = i /\ e.actor = k)) = DrawnTimes(scene[i], scene[i].actors[k])

\* The nearest opaque face is seen, before it what is translucent, and that as it lies from
\* back to front: reckoned from the scene, renderer by renderer.
Over(seen, i) ==
    LET r == scene[i]
        faces == {k \in DOMAIN r.actors : r.actors[k].depth > 0 /\ DrawnTimes(r, r.actors[k]) > 0}
        base == IF r.layer = 0 THEN Empty ELSE seen
        solid == {k \in faces : r.actors[k].depth < base.depth /\ (~device.modern \/ ~Translucent(r.actors[k]))}
        depth == Min({r.actors[k].depth : k \in solid} \cup {base.depth})
        clear == {k \in faces : device.modern /\ Translucent(r.actors[k]) /\ r.actors[k].depth < depth}
        order == SetToSortSeq(clear, LAMBDA k, l : r.actors[k].depth > r.actors[l].depth)
        under == IF solid = {} THEN base.colors ELSE <<<<i, CHOOSE k \in solid : r.actors[k].depth = depth>>>>
    IN  IF ~r.covers THEN seen
        ELSE [depth |-> depth, colors |-> under \o [n \in DOMAIN order |-> <<i, order[n]>>]]
Image == FoldLeft(Over, Empty, LayerOrder(scene)).colors
\* Edges drawn without a program of their own are not blended with what they lie on.
Unlined ==
    \/ ~device.modern \/ device.edges \/ device.points
    \/ \A i \in DOMAIN scene : \A k \in DOMAIN scene[i].actors : ~scene[i].actors[k].rim
Unordered == \E i \in DOMAIN scene : device.modern /\ TransparencyOf(scene[i]) # "sorted"
ImageRight ==
    Finished /\ Unlined =>
        LET faces == SelectSeq(frame.pixels["window"].colors, LAMBDA c : c[1] \in {"fill", "volume"})
            seen == [n \in DOMAIN faces |-> <<faces[n][2], faces[n][3]>>]
        IN  IF Unordered THEN ToSet(seen) = ToSet(Image) ELSE seen = Image

\* The state in which an actor is drawn is its own, whoever was drawn before it.
OwnState(e) ==
    LET r == scene[e.renderer]
        a == r.actors[e.actor]
        how == TransparencyOf(r)
    IN  /\ e.gl.scissor
        /\ e.what = "fill" /\ device.modern =>
            /\ e.gl.program = "mesh" /\ e.gl.test = a.test /\ e.gl.cull = a.cull /\ e.gl.offset = Offset(a)
            /\ e.gl.range = a.range + Shift(a)
            /\ e.gl.func \in IF a.func # "lequal" THEN {a.func} ELSE {"less", "lequal"}
            /\ IF Translucent(a)
               THEN /\ ~e.gl.write /\ e.gl.blend
                    /\ CASE how = "sorted" -> e.gl.mix = "alpha" /\ e.gl.target = "window"
                         [] how = "summed" -> e.gl.mix \in {"sum", "product"} /\ e.gl.target = "oit"
                         [] how = "peeled" -> e.gl.mix = "alpha" /\ e.gl.target = "peel"
               ELSE e.gl.write = a.write /\ ~e.gl.blend /\ e.gl.target = "window"
        /\ e.what \in {"lines", "points"} =>
            /\ e.gl.target = "window" /\ e.gl.test /\ e.gl.range = 0
            /\ device.edges \/ device.points =>
                /\ e.gl.blend /\ e.gl.mix = "alpha" /\ e.gl.func = "lequal" /\ e.gl.cull = "none"
                /\ e.gl.write = (e.what = "points" /\ ~Translucent(a))
StatesOwn == \A k \in DOMAIN frame.log : frame.log[k].actor = 0 \/ OwnState(frame.log[k])

\* Between passes, and behind a frame, the state is what it was; the context is given back.
StateKept ==
    /\ frame.current <=> frame.at = "pass"
    /\ frame.gl.scissor <=> frame.at = "pass"
    /\ device.modern =>
        [frame.gl EXCEPT !.scissor = FALSE, !.func = "less", !.mix = "one"] = FreshState

\* The statistics say what was drawn, left out and run.
StatisticsExact ==
    /\ device.modern => frame.counts.draws = Len(frame.log)
    /\ frame.counts.outside + frame.counts.small + frame.counts.shown <= frame.counts.considered
    /\ Finished /\ device.modern =>
        /\ frame.counts.considered = FoldLeft(LAMBDA n, r : n + Len(r.actors), 0, scene)
        /\ frame.counts.shown = FoldLeft(LAMBDA n, r :
                n + Len(SelectSeq(r.actors, LAMBDA a : a.visible /\ Renderable(r, a))), 0, scene)
    /\ \A k \in DOMAIN frame.passes : frame.passes[k].failed => k = Len(frame.passes) /\ frame.at = "failed"
    /\ Finished => Len(frame.passes) = FoldLeft(LAMBDA n, r : n + Len(r.passes), 0, scene)

\* What is found under the cursor can be picked, and no face that can be picked is before it.
PickedNearest ==
    answer # None /\ answer.how # "none" =>
        LET r == scene[answer.renderer]
            faces == {k \in DOMAIN r.actors : /\ Pickable(r, r.actors[k]) /\ r.actors[k].tris > 0 /\ r.actors[k].depth > 0
                                              /\ answer.of \in {"cell", "glyph"} => Offered(r.actors[k], answer.of)}
        IN  /\ \A i \in DOMAIN scene : scene[i].interactive /\ scene[i].covers => scene[i].layer <= r.layer
            /\ answer.how # "cast" /\ answer.actor # None =>
                /\ Pickable(r, r.actors[answer.actor])
                /\ \A k \in faces : r.actors[answer.actor].depth <= r.actors[k].depth
            /\ answer.how = "drawn" /\ answer.actor = None /\ answer.of \in {"cell", "actor"} =>
                \A k \in faces : answer.of = "cell" /\ r.actors[k].kind = "glyphs"
            /\ answer.how = "cast" /\ answer.actor # None =>
                r.actors[answer.actor].data \in {r.actors[k].data : k \in {l \in DOMAIN r.actors : r.actors[l].visible}}

\* What a legend consists of fits into what is there for it.
LegendFits ==
    \A i \in DOMAIN scene : scene[i].legend # None => LegendVertices(scene[i].legend) <= MaxVertices

SceneExact == DrawnOnce /\ ImageRight /\ StatesOwn /\ StateKept /\ StatisticsExact /\ PickedNearest /\ LegendFits
=============================================================================
