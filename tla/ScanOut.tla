------------------------------ MODULE ScanOut ------------------------------
(***************************************************************************)
(* What ends up on one output: smithay's DrmCompositor, its Swapchain of   *)
(* buffers, and the OutputDamageTracker that repaints only what changed    *)
(* since a buffer was last used, as on_vblank and the VBlank event of      *)
(* backend/udev.rs drive them.                                             *)
(*                                                                         *)
(* A buffer is repainted in part, from the damage of the frames it missed, *)
(* which its age counts; the frames it missed were for other buffers, some *)
(* of them never shown.  What a frame shows must still be the scene it was *)
(* composed from.                                                          *)
(*                                                                         *)
(* Abstracted: pixels (a few regions of the output), what an element draws *)
(* (its commit), alpha, transforms, framebuffer effects, the output's      *)
(* mode, overlay and cursor planes, fences.  A commit damages its whole    *)
(* element.                                                                *)
(***************************************************************************)
EXTENDS Integers, FiniteSets, Sequences, SequencesExt, FiniteSetsExt

CONSTANTS
  Pixel,       \* the regions of the output
  Element,     \* render elements
  Opaque,      \* those whose opaque region is all of them
  Places,      \* the geometries each element may have
  MaxChanges,  \* bound on the changes of the scene
  Events,      \* what may happen besides: "render" or "flip" fails, "vrr", "resume"
  None

SLOT_CAP == 4
MAX_AGE == 4

\* Older than any damage the tracker keeps: all such ages are alike.
Oldest == MAX_AGE + 2

Slots == 1..SLOT_CAP

VARIABLES
  scene,         \* the elements, front to back
  changes,       \* how often the scene has changed, counted for its bound
  swapchain,     \* the slots: the age and the image of the buffer in each
  compositor,    \* DrmCompositor: frames, flags
  damage,        \* OutputDamageTracker.last_state
  flip_pending,  \* OutputSurface.flip_pending
  is_empty       \* RenderFrameResult.is_empty of the last render

vars == <<scene, changes, swapchain, compositor, damage, flip_pending, is_empty>>

-----------------------------------------------------------------------------
(* Images                                                                  *)

\* The elements over one region: from the front to the first opaque one.
Topmost(elements, p) ==
  {i \in DOMAIN elements :
     /\ p \in elements[i].geo
     /\ \A j \in 1..(i - 1) : p \in elements[j].geo => elements[j].id \notin Opaque}

\* What can be seen of a list of elements in one region: each with its commit
\* and what is in front of it.
Seen(elements, p) ==
  {<<elements[i].id, elements[i].commit, {elements[j].id : j \in {k \in Topmost(elements, p) : k < i}}>> :
     i \in Topmost(elements, p)}

Image(elements) == [p \in Pixel |-> Seen(elements, p)]

Blank == [p \in Pixel |-> None]

\* Is an element not all behind opaque ones?
Uncovered(elements, i) ==
  ~(elements[i].geo \subseteq UNION {elements[j].geo : j \in {k \in 1..(i - 1) : elements[k].id \in Opaque}})

\* Elements outside the output or behind opaque ones are left out.
Visible(elements) ==
  LET list[n \in 0..Len(elements)] ==
        IF n = 0 THEN <<>>
        ELSE IF Uncovered(elements, n) THEN Append(list[n - 1], elements[n])
        ELSE list[n - 1]
  IN list[Len(elements)]

-----------------------------------------------------------------------------
(* Frames                                                                  *)

\* No frame: of the planes the primary one has no configuration.
NoFrame == [slot |-> None, image |-> Blank, element |-> None, meant |-> Blank, skip |-> TRUE, full |-> FALSE]

Frames(c) == {c.current, c.pending, c.queued}

\* The slots acquired: their buffers are in frames.
Acquired(c) == {f.slot : f \in Frames(c)} \ {None}

\* What a frame puts on the screen: the buffer of a slot, or one of its own
\* (a client's, or one the swapchain has given up), which nobody draws into.
Content(chain, f) == IF f.slot = None THEN f.image ELSE chain[f.slot].image

\* The frame that was queued last, of those not dropped.
Newest(c) == IF c.queued # NoFrame THEN c.queued ELSE IF c.pending # NoFrame THEN c.pending ELSE c.current

-----------------------------------------------------------------------------
(* Swapchain                                                               *)

\* A slot without a buffer, or with one that was never drawn into.
FreshSlot == [age |-> 0, image |-> Blank]

FreeSlots(c) == Slots \ Acquired(c)

\* acquire: the first free slot.
NextSlot(c) == Min(FreeSlots(c))

\* submitted: age 1, and every other buffer that has an age is one older.
Submitted(chain, i) ==
  [j \in Slots |-> [chain[j] EXCEPT !.age = IF j = i THEN 1 ELSE IF @ > 0 THEN Min({@ + 1, Oldest}) ELSE 0]]

\* reset_buffers: every slot is new; frames keep the buffers they have.
ResetBuffers(o) ==
  LET Detached(f) == [f EXCEPT !.image = Content(o.swapchain, f), !.slot = None]
  IN [o EXCEPT !.swapchain = [i \in Slots |-> FreshSlot],
               !.compositor.current = Detached(@), !.compositor.pending = Detached(@),
               !.compositor.queued = Detached(@)]

-----------------------------------------------------------------------------
(* OutputDamageTracker                                                     *)

Unknown == [known |-> FALSE, elements |-> <<>>, opaque |-> {}, old |-> <<>>]

\* The regions the opaque elements of a list cover.
OpaqueRegions(elements) == UNION {elements[i].geo : i \in {k \in DOMAIN elements : elements[k].id \in Opaque}}

\* Where an element was drawn last: its entry, or none.
LastDrawn(d, id) == {i \in DOMAIN d.elements : d.elements[i].id = id}

\* An element with another geometry or place in the stack damages where it
\* is and where it was; else its commits since then do.
ElementDamage(d, elements, i) ==
  LET last == LastDrawn(d, elements[i].id)
      same == i \in last /\ d.elements[i].geo = elements[i].geo
  IN IF ~same THEN elements[i].geo \union UNION {d.elements[k].geo : k \in last}
     ELSE IF d.elements[i].commit = elements[i].commit THEN {} ELSE elements[i].geo

\* What changed since the tracker last drew something.
NewDamage(d, elements) ==
  IF ~d.known THEN Pixel
  ELSE (UNION {ElementDamage(d, elements, i) : i \in DOMAIN elements})
         \union (UNION {d.elements[k].geo : k \in {j \in DOMAIN d.elements :
                         \A i \in DOMAIN elements : elements[i].id # d.elements[j].id}})
         \union (d.opaque \ OpaqueRegions(elements))

\* The first n of a list.
Truncated(list, n) == SubSeq(list, 1, Min({n, Len(list)}))

\* MUTANT of Repaint: a buffer misses one frame less than its age
RepaintYounger(d, new, age) ==
  IF age > 0 /\ Len(d.old) >= age
    THEN new \union UNION {d.old[i] : i \in 1..(age - 2)}
    ELSE Pixel

\* What a buffer of that age needs: the damage of the frames it missed, all
\* of it if that is not known.
Repaint(d, new, age) ==
  IF age > 0 /\ Len(d.old) >= age
    THEN new \union UNION {d.old[i] : i \in 1..(age - 1)}
    ELSE Pixel

\* last_state after drawing that damage: nothing changes but the length of
\* the history when there is nothing to draw.
Tracked(d, elements, new, age) ==
  LET kept == Truncated(d.old, IF age > 0 /\ Len(d.old) >= age THEN age ELSE MAX_AGE)
  IN IF Repaint(d, new, age) = {} THEN [d EXCEPT !.old = kept]
     ELSE [known |-> TRUE, elements |-> elements, opaque |-> OpaqueRegions(elements), old |-> <<new>> \o kept]

-----------------------------------------------------------------------------
(* render_frame and queue_frame                                            *)

\* A state of the output: everything but the scene.
Output == [swapchain |-> swapchain, compositor |-> compositor, damage |-> damage,
           flip_pending |-> flip_pending, is_empty |-> is_empty]

\* The frame that the next one is compared with: not the queued one.
Previous(c) == IF c.pending # NoFrame THEN c.pending ELSE c.current

\* page_flip or commit: the frame is in flight; a full update clears
\* reset_pending, and the mode settings it carried are no longer pending.
Flipped(c, f) ==
  [c EXCEPT !.pending = [f EXCEPT !.skip = FALSE, !.full = FALSE], !.queued = NoFrame, !.commit_pending = FALSE,
            !.reset_pending = @ /\ ~f.full]

\* submit: the queued frame, or its loss.
Submits(c) ==
  {[ok |-> TRUE, c |-> Flipped(c, c.queued)]}
    \union IF "flip" \in Events THEN {[ok |-> FALSE, c |-> [c EXCEPT !.queued = NoFrame]]} ELSE {}

\* queue_frame; on_vblank sets flip_pending only if it succeeds.
Queued(o, f) ==
  LET chain == IF ~f.skip /\ f.slot # None THEN Submitted(o.swapchain, f.slot) ELSE o.swapchain
      c == [o.compositor EXCEPT !.queued = f]
      With(r) == [o EXCEPT !.swapchain = chain, !.compositor = r.c,
                           !.flip_pending = @ \/ r.ok, !.is_empty = FALSE]
  IN IF c.pending = NoFrame THEN {With(r) : r \in Submits(c)} ELSE {With([ok |-> TRUE, c |-> c])}

\* Queued, unless nothing changed and no full update is due.
Finished(o, f) ==
  IF f.skip /\ ~f.full THEN {[o EXCEPT !.is_empty = TRUE]} ELSE Queued(o, f)

\* Is a full update due?
Full(c) == c.reset_pending \/ c.commit_pending

\* The only visible element goes to the primary plane as it is.
ScannedOut(o) ==
  LET shown == Visible(scene)
      before == Previous(o.compositor)
      f == [slot |-> None, image |-> Image(scene), element |-> shown[1], meant |-> Image(scene),
            skip |-> before.element = shown[1], full |-> Full(o.compositor)]
  IN IF Len(shown) = 1 THEN Finished(o, f) ELSE {}

\* MUTANT of Primary: after direct scan-out an undamaged plane is skipped too
PrimaryAlways(before, own, drawn, full) ==
  IF drawn \/ before = NoFrame THEN [own EXCEPT !.skip = ~drawn]
    ELSE [before EXCEPT !.skip = TRUE, !.full = full, !.meant = own.meant]

\* The frame around the buffer that was drawn, or the previous frame's plane
\* if nothing was, unless that plane showed an element.
Primary(before, own, drawn, full) ==
  IF drawn \/ before.element # None THEN own
  ELSE IF before = NoFrame THEN [own EXCEPT !.skip = TRUE]
  ELSE [before EXCEPT !.skip = TRUE, !.full = full, !.meant = own.meant]

\* The visible elements are composited into the acquired buffer.
Composited(o) ==
  LET shown == Visible(scene)
      i == NextSlot(o.compositor)
      age == o.swapchain[i].age
      new == NewDamage(o.damage, shown)
      drawn == Repaint(o.damage, new, age)
      own == [slot |-> i, image |-> Blank, element |-> None, meant |-> Image(scene), skip |-> FALSE,
              full |-> Full(o.compositor)]
      painted == [p \in Pixel |-> IF p \in drawn THEN Seen(scene, p) ELSE o.swapchain[i].image[p]]
      after == [o EXCEPT !.swapchain[i].image = painted, !.damage = Tracked(@, shown, new, age)]
  IN Finished(after, Primary(Previous(o.compositor), own, drawn # {}, Full(o.compositor)))

\* Rendering fails: neither the buffers nor the history can be used again.
RenderFails(o) ==
  IF "render" \in Events
    THEN {[ResetBuffers(o) EXCEPT !.damage = Unknown]}
    ELSE {}

\* render_frame and queue_frame as on_vblank calls them.
Rendered(o) ==
  IF FreeSlots(o.compositor) = {} THEN {o}
  ELSE ScannedOut(o) \union Composited(o) \union RenderFails(o)

-----------------------------------------------------------------------------
\* A render element: where it is and its last commit.
Layers == [id : Element, geo : SUBSET Pixel, commit : Nat]

\* What the constants are: None stands for no slot and for no element.
ConstantsSound ==
  /\ Pixel # {} /\ IsFiniteSet(Element) /\ MaxChanges \in Nat
  /\ Places \in [Element -> SUBSET SUBSET Pixel]
  /\ None \notin Slots /\ None \notin Layers

\* The elements there may be when the output is plugged in.
Scenes ==
  LET ids == UNION {SetToSeqs(E) : E \in SUBSET Element}
      Placed(list) == {places \in [DOMAIN list -> SUBSET Pixel] : \A i \in DOMAIN list : places[i] \in Places[list[i]]}
  IN UNION {{[i \in DOMAIN list |-> [id |-> list[i], geo |-> places[i], commit |-> 0]] : places \in Placed(list)} : list \in ids}

Init ==
  /\ scene \in Scenes
  /\ changes = 0
  /\ swapchain = [i \in Slots |-> FreshSlot]
  /\ compositor = [current |-> NoFrame, pending |-> NoFrame, queued |-> NoFrame,
                   reset_pending |-> TRUE, commit_pending |-> FALSE]
  /\ damage = Unknown
  /\ flip_pending = FALSE
  /\ is_empty = FALSE

Becomes(o) ==
  /\ swapchain' = o.swapchain /\ compositor' = o.compositor /\ damage' = o.damage
  /\ flip_pending' = o.flip_pending /\ is_empty' = o.is_empty
  /\ UNCHANGED <<scene, changes>>

\* The scene changes: the last render says nothing about it.
Shows(elements) ==
  /\ changes < MaxChanges /\ changes' = changes + 1
  /\ scene' = elements
  /\ is_empty' = FALSE
  /\ UNCHANGED <<swapchain, compositor, damage, flip_pending>>

Ids == {scene[i].id : i \in DOMAIN scene}

\* A new element in front of the others.
Open(e, place) ==
  /\ e \notin Ids
  /\ Shows(<<[id |-> e, geo |-> place, commit |-> changes + 1]>> \o scene)

Close(i) == Shows(RemoveAt(scene, i))

Commit(i) == Shows([scene EXCEPT ![i].commit = changes + 1])

Move(i, place) ==
  /\ place \in Places[scene[i].id] \ {scene[i].geo}
  /\ Shows([scene EXCEPT ![i].geo = place])

BringUp(i) ==
  /\ i > 1
  /\ Shows(<<scene[i]>> \o RemoveAt(scene, i))

\* An idle render, or one from a frame callback; use_vrr may leave a mode
\* setting pending just before it.
OnVblank(vrr) ==
  /\ ~flip_pending /\ (vrr => "vrr" \in Events)
  /\ \E o \in Rendered([Output EXCEPT !.compositor.commit_pending = @ \/ vrr]) : Becomes(o)

\* frame_submitted: the frame in flight is on the screen; the queued one, if
\* any, is submitted.
FrameSubmitted(o) ==
  LET c == [o.compositor EXCEPT !.current = o.compositor.pending, !.pending = NoFrame]
      With(d) == [o EXCEPT !.compositor = d, !.flip_pending = FALSE]
  IN IF c.queued = NoFrame THEN {With(c)} ELSE {With(r.c) : r \in Submits(c)}

\* The VBlank event: on_vblank follows, and renders unless the layout gate
\* holds it back.
VBlank ==
  /\ compositor.pending # NoFrame
  /\ \E o \in FrameSubmitted(Output) : \E next \in Rendered(o) \union {o} : Becomes(next)

\* ActivateSession: reset_state, reset_buffers, flip_pending = false.
Resume ==
  /\ "resume" \in Events
  /\ Becomes([ResetBuffers(Output) EXCEPT !.compositor.reset_pending = TRUE, !.flip_pending = FALSE])

Next ==
  \/ \E e \in Element : \E place \in Places[e] : Open(e, place)
  \/ \E i \in DOMAIN scene : Close(i) \/ Commit(i) \/ BringUp(i)
  \/ \E i \in DOMAIN scene, place \in SUBSET Pixel : Move(i, place)
  \/ \E vrr \in BOOLEAN : OnVblank(vrr)
  \/ VBlank
  \/ Resume

Spec == Init /\ [][Next]_vars

-----------------------------------------------------------------------------
\* What every frame shows, on the screen or on its way there, is the scene it
\* was composed from: nobody draws into its buffer, no damage was forgotten,
\* and a plane that is taken over from the frame before still fits.
FramesShowTheirScene == \A f \in Frames(compositor) : Content(swapchain, f) = f.meant

\* A render that finds nothing to do is right: the frame queued last shows
\* the scene.
NothingLeftBehind == is_empty => Content(swapchain, Newest(compositor)) = Image(scene)
=============================================================================
