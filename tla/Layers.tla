------------------------------- MODULE Layers --------------------------------
(***************************************************************************)
(* What a window of ef/graphics shows: the layers of its background,       *)
(* colours, images and animations, that a theme chooses, the timers that   *)
(* play the animations (guiImage.c), the loop that runs them between the   *)
(* events of the X server (gui.c), and the images that layers share        *)
(* (guiResources.c).                                                       *)
(*                                                                         *)
(* A time is what is left until it, or gone by since.  Left out: sizes and *)
(* positions, video, vector images, the layers of postproduction, the      *)
(* removal of layers, another layer in place of an animation, and a theme  *)
(* that is loaded again while animations play.                             *)
(***************************************************************************)
EXTENDS Integers, Sequences, FiniteSets, SequencesExt

CONSTANTS Paths,        \* of image files
          Animations,   \* what the delays of the frames may be, sequences
          Costs,        \* how long the callbacks of the timers may take
          Themes,       \* what they may have, sequences of layers
          Periods,      \* of the timers of the application
          MaxLayers, MaxTimers,     \* bounds
          MaxBehind     \* bound: how late a timer is

VARIABLES layers,       \* of the composite, bottom first
          refs,         \* how often each image is referred to, 0: not loaded
          timers,       \* timergui
          pending,      \* an event of the server waits
          shown,        \* layers in the order they were last painted
          themed,       \* gui_themes was called
          delays, cost  \* of the frames, and of the callbacks: they stay
vars == <<layers, refs, timers, pending, shown, themed, delays, cost>>

Color == [type |-> "color"]
Nothing == [type |-> "none"]     \* the theme has nothing for this index
Image(p) == [type |-> "img", res |-> p]
Gif(loop) == [type |-> "gif", loop |-> loop, play |-> FALSE, frame |-> 1]

Init ==
    /\ layers \in {<<>>, <<Color>>} /\ refs = [p \in Paths |-> 0]
    /\ timers = {} /\ pending = FALSE /\ shown = <<>> /\ themed = FALSE
    /\ delays \in Animations /\ cost \in Costs

-----------------------------------------------------------------------------

(* gui_resource and gui_layer_load: an image is loaded once.               *)
Load(r, l) == IF l.type = "img" THEN [r EXCEPT ![l.res] = @ + 1] ELSE r

(* gui_layer_free with gui_resource_release.                               *)
Unload(r, l) ==
    IF l.type = "img" /\ r[l.res] > 0 THEN [r EXCEPT ![l.res] = @ - 1] ELSE r

(* gui_themes_composite: a layer the theme names takes the place of the    *)
(* one at its index, or is added when all before it are there.             *)
Themed(theme) ==
    LET old == Len(layers)
        more == CHOOSE n \in 0..(Len(theme)) :
                   /\ \A i \in 1..n : i <= old \/ theme[i] # Nothing
                   /\ n < Len(theme) => n + 1 > old /\ theme[n + 1] = Nothing
        size == IF more > old THEN more ELSE old
        names(i) == i <= Len(theme) /\ theme[i] # Nothing
        load[i \in 0..size] ==
            IF i = 0 THEN refs
            ELSE IF ~names(i) THEN load[i - 1]
            ELSE LET r == Load(load[i - 1], theme[i]) IN
                 IF i <= old THEN Unload(r, layers[i]) ELSE r
    IN [layers |-> [i \in 1..size |-> IF names(i) THEN theme[i] ELSE layers[i]],
        refs |-> load[size]]

LoadTheme(theme) ==
    /\ ~themed /\ themed' = TRUE
    /\ layers' = Themed(theme).layers /\ refs' = Themed(theme).refs
    /\ UNCHANGED <<timers, pending, shown, delays, cost>>

-----------------------------------------------------------------------------

(* gui_timer_new and gui_timer_change: the timer is due so much later than *)
(* it was as the delay is longer than the period it was made with, which   *)
(* for an animation is 1 and stays so.                                     *)
NewTimer(fn, layer, ms) ==
    [fn |-> fn, layer |-> layer, count |-> Len(layers), ms |-> ms, left |-> ms]
Change(t, ms) == [t EXCEPT !.left = @ + ms - t.ms]

(* gui_layer_redraw of layer i: an animation that does not play is started *)
(* and paints its first frame when its timer expires.                      *)
Paint(s, i) ==
    IF s.layers[i].type = "gif" /\ ~s.layers[i].play
    THEN [s EXCEPT !.layers[i].play = TRUE, !.layers[i].frame = 1,
                   !.timers = @ \cup {NewTimer("gif", i, 1)}]
    ELSE [s EXCEPT !.shown = Append(Remove(@, i), i)]

PaintFrom(s, i, n) == FoldLeft(Paint, s, [k \in 1..(n - i + 1) |-> i + k - 1])

Now == [layers |-> layers, timers |-> timers, shown |-> shown]
Becomes(s) == layers' = s.layers /\ timers' = s.timers /\ shown' = s.shown

After(t, n) == [t EXCEPT !.left = IF @ - n < 0 - MaxBehind THEN 0 - MaxBehind ELSE @ - n]

(* gid_gif_timer: the frame, the layers above it, and the next frame.      *)
Delay(frame) == IF delays[frame] = 0 THEN 1 ELSE delays[frame]
GifTimer(t) ==
    LET i == t.layer
        now == [Now EXCEPT !.timers = {After(o, cost) : o \in @}, !.shown = Append(Remove(@, i), i)]
        over == PaintFrom(now, i + 1, t.count)
        last == layers[i].frame = Len(delays)
        next == [over EXCEPT !.layers[i].frame = IF last THEN 1 ELSE @ + 1]
    IN IF ~layers[i].play THEN [over EXCEPT !.timers = @ \ {t}]
       ELSE IF last /\ ~layers[i].loop
       THEN [next EXCEPT !.layers[i].play = FALSE, !.timers = @ \ {t}]
       ELSE [next EXCEPT !.timers = (@ \ {t}) \cup {Change(t, Delay(layers[i].frame))}]

(* gui_timer_timeout with a timer of the application: GUI_TIMER_NEXT or    *)
(* GUI_TIMER_FREE.                                                         *)
AppTimer(t) ==
    LET others == {After(o, cost) : o \in timers \ {t}} IN
    timers' \in {others \cup {[t EXCEPT !.left = t.ms]}, others}

(* gui_deadpoll_event: a timer that has expired goes before the events.    *)
Due == {t \in timers : t.left <= 0 /\ \A u \in timers : t.left <= u.left}

TimerExpires ==
    /\ \E t \in Due :
          \/ t.fn = "gif" /\ Becomes(GifTimer(After(t, cost)))
          \/ t.fn = "app" /\ AppTimer(t) /\ UNCHANGED <<layers, shown>>
    /\ UNCHANGED <<refs, pending, themed, delays, cost>>

(* The handlers.  A window that is resized asks for its images again, and  *)
(* refers to them once more.                                               *)
Redraw == Becomes(PaintFrom(Now, 1, Len(layers))) /\ UNCHANGED refs

Resize ==
    /\ \A i \in DOMAIN layers : layers[i].type = "img" => refs[layers[i].res] < MaxLayers
    /\ refs' = FoldLeft(Load, refs, layers)
    /\ Becomes(PaintFrom(Now, 1, Len(layers)))

Replace(i, l) ==
    /\ layers[i].type # "gif"
    /\ refs' = IF layers[i].type = "img" THEN Unload(Load(refs, l), layers[i]) ELSE Load(refs, l)
    /\ layers' = [layers EXCEPT ![i] = l]
    /\ UNCHANGED <<timers, shown>>

StartTimer(ms) ==
    /\ Cardinality(timers) < MaxTimers
    /\ timers' = timers \cup {NewTimer("app", 0, ms)}
    /\ UNCHANGED <<layers, refs, shown>>

Event ==
    /\ Due = {} /\ pending /\ pending' = FALSE
    /\ \/ Redraw \/ Resize
       \/ \E i \in DOMAIN layers, l \in {Color} \cup {Image(p) : p \in Paths} : Replace(i, l)
       \/ \E ms \in Periods : StartTimer(ms)
    /\ UNCHANGED <<themed, delays, cost>>

Loop == themed /\ (TimerExpires \/ Event)

(* Time passes while the loop waits; the handlers of events take none.     *)
Tick ==
    /\ themed /\ Due = {} /\ ~pending /\ timers # {}
    /\ timers' = {After(t, 1) : t \in timers}
    /\ UNCHANGED <<layers, refs, pending, shown, themed, delays, cost>>

Arrives ==
    /\ themed /\ ~pending /\ pending' = TRUE
    /\ UNCHANGED <<layers, refs, timers, shown, themed, delays, cost>>

Next ==
    \/ \E theme \in Themes : LoadTheme(theme)
    \/ Loop \/ Tick \/ Arrives

Spec == Init /\ [][Next]_vars /\ WF_vars(Loop)

-----------------------------------------------------------------------------
(* An animation plays exactly while it has its timer; a layer is over      *)
(* those below it, except an animation whose first frame is still to come; *)
(* and an image is there as long as a layer refers to it (guiImage.c:      *)
(* 330-374, 425-440; guiResources.c:127-150).                              *)
LayersHold ==
    /\ \A i \in DOMAIN layers : layers[i].type = "gif" =>
          Cardinality({t \in timers : t.fn = "gif" /\ t.layer = i})
              = IF layers[i].play THEN 1 ELSE 0
    /\ \A p, q \in DOMAIN shown : p < q /\ shown[p] > shown[q] =>
          LET l == layers[shown[p]] IN l.type = "gif" /\ l.play /\ l.frame = 1
    /\ \A p \in Paths :
          refs[p] >= Cardinality({i \in DOMAIN layers : layers[i] = Image(p)})

(* How far the timer of an animation that loops is moved in a round, and   *)
(* what the frames of the round take: the loop comes to the events when    *)
(* that is less, and only one timer repeats if the callbacks take time.    *)
Moved == FoldLeft(LAMBDA sum, ms : IF ms > 1 THEN sum + ms - 1 ELSE sum, 0, delays)
Repeating ==
    Cardinality({i \in DOMAIN layers : layers[i].type = "gif" /\ layers[i].loop})
    + Cardinality({t \in timers : t.fn = "app"})
Timely == Moved > Len(delays) * cost /\ (cost > 0 => Repeating <= 1)

=============================================================================
