---------------------------- MODULE FramesProofs ----------------------------
(***************************************************************************)
(* What the frame loop promises on any number of devices, outputs and      *)
(* connectors: no output that is lit is left without an event while there  *)
(* is a reason to render it.  The flips of any CRTC may be discarded by    *)
(* the kernel; nothing is said of an output from then on, but the others   *)
(* go on.                                                                  *)
(***************************************************************************)
EXTENDS Frames, StacksLemmas, FiniteSetTheorems

\* A list of all members of a finite set holds each of them once.
LEMMA Listing ==
    ASSUME NEW S, IsFiniteSet(S), NEW list \in SetToSeqs(S)
    PROVE  /\ list \in Seq(S) /\ Len(list) = Cardinality(S)
           /\ \A e \in S : \E i \in 1 .. Len(list) : list[i] = e
<1> DEFINE D == 1 .. Cardinality(S)
<1>1. Cardinality(S) \in Nat
  BY FS_CardinalityType
<1>2. list \in [D -> S] /\ \A i, j \in D : i # j => list[i] # list[j]
  BY DEF SetToSeqs
<1>3. list \in Seq(S) /\ Len(list) = Cardinality(S)
  BY <1>1, <1>2
<1>4. list \in Injection(D, S)
  BY <1>2 DEF Injection, IsInjective
<1>5. Cardinality(D) = Cardinality(S)
  BY <1>1, FS_Interval
<1>6. list \in Surjection(D, S)
  <2> HIDE DEF D
  <2> QED
    BY <1>4, <1>5, FS_Injection
<1>7. \A e \in S : \E i \in D : list[i] = e
  BY <1>6 DEF Surjection
<1> QED
  BY <1>3, <1>7

-----------------------------------------------------------------------------
(* Outputs that are due.                                                   *)

\* There is a reason to render the output of a CRTC: a client waits for a
\* frame callback, or something new is to be shown and no resize holds it
\* back.
Due(s, c) ==
  \/ s.waiting
  \/ /\ s.resize[c] = "none"
     /\ c \in s.damaged \union s.copy \/ s.slide # "none" \/ s.was_sliding \/ s.wakeup > 0

\* Surfaces belong to open devices, active devices are open, and only a
\* frame in flight has a flip pending.
Coherent(s) ==
  /\ s.flip_pending \subseteq s.in_flight
  /\ s.drm \subseteq s.devices
  /\ \A c \in Surfaces(s) : Owner[c] \in s.devices

\* Every live output but those of P that is due has an event that renders
\* it, unless its last frame failed or the kernel discarded its flip.
Roused(s, P) ==
  \A c \in Live(s) \ (s.failed \union s.lost \union P) : Due(s, c) => c \in s.idle \union s.in_flight

Rest(P) == {s \in Backend : Coherent(s) /\ Roused(s, P)}

\* What on_vblank leaves alone.
SameOutputs(s, t) ==
  /\ t.conn = s.conn /\ t.devices = s.devices /\ t.drm = s.drm
  /\ t.pending_devices = s.pending_devices /\ t.lost = s.lost

LEMMA SameSurfaces ==
    ASSUME NEW s, NEW t, SameOutputs(s, t)
    PROVE  Surfaces(t) = Surfaces(s) /\ Live(t) = Live(s) /\ t.lost = s.lost
BY DEF SameOutputs, Surfaces, Live

\* Fewer exceptions say more.
LEMMA RestWeaker ==
    ASSUME NEW P, NEW Q, \A c \in Crtc : c \in P => c \in Q
    PROVE  Rest(P) \subseteq Rest(Q)
BY DEF Rest, Roused, Live, Surfaces

\* schedule_render rouses every output.
LEMMA ScheduledRests ==
    ASSUME NEW s \in Backend, Coherent(s)
    PROVE  Scheduled(s) \in Rest({}) /\ SameOutputs(s, Scheduled(s))
<1> DEFINE t == Scheduled(s)
<1>1. t \in Backend /\ SameOutputs(s, t) /\ t.idle = s.idle \union Surfaces(s)
      /\ t.flip_pending = s.flip_pending /\ t.in_flight = s.in_flight
  BY DEF Scheduled, Backend, Surfaces, SameOutputs
<1>2. Coherent(t)
  BY <1>1, SameSurfaces DEF Coherent, SameOutputs
<1>3. Roused(t, {})
  BY <1>1, SameSurfaces DEF Roused, Live
<1> QED
  BY <1>1, <1>2, <1>3 DEF Rest

\* Frame callbacks go out although the frame is held back: nothing is due on
\* the output any more.
LEMMA HeldRests ==
    ASSUME NEW P, NEW s \in Rest(P), NEW c \in Crtc, s.resize[c] # "none"
    PROVE  Held(s) \in Rest(P \ {c}) /\ SameOutputs(s, Held(s))
<1> DEFINE t == Held(s)
<1>1. s \in Backend /\ Coherent(s) /\ Roused(s, P)
  BY DEF Rest
<1>2. t \in Backend /\ SameOutputs(s, t) /\ t.waiting = FALSE
  BY <1>1 DEF Held, GateAge, Age, Backend, SameOutputs
<1>3. /\ t.flip_pending = s.flip_pending /\ t.in_flight = s.in_flight /\ t.idle = s.idle
      /\ t.failed = s.failed /\ t.resize = s.resize /\ t.damaged = s.damaged /\ t.copy = s.copy
      /\ t.slide = s.slide /\ t.was_sliding = s.was_sliding /\ t.wakeup = s.wakeup
  BY <1>1 DEF Held, Backend
<1>4. Coherent(t)
  BY <1>1, <1>2, <1>3, SameSurfaces DEF Coherent, SameOutputs
<1>5. ASSUME NEW d \in Live(t) \ (t.failed \union t.lost \union (P \ {c})), Due(t, d)
      PROVE  d \in t.idle \union t.in_flight
  <2>1. d # c /\ Due(s, d)
    BY <1>2, <1>3, <1>5 DEF Due
  <2> QED
    BY <1>1, <1>2, <1>3, <1>5, <2>1, SameSurfaces DEF Roused
<1> QED
  BY <1>2, <1>4, <1>5 DEF Rest, Roused

\* The slides advance: they go on only with was_sliding set, and the
\* countdown only with every output roused.
LEMMA AdvancedFields ==
    ASSUME NEW s \in Backend
    PROVE  LET t == Advanced(s)
           IN /\ t \in Backend /\ SameOutputs(s, t)
              /\ t.flip_pending = s.flip_pending /\ t.in_flight = s.in_flight
              /\ t.failed = s.failed /\ t.resize = s.resize /\ t.copy = s.copy
              /\ t.waiting = s.waiting /\ s.idle \subseteq t.idle
              /\ s.slide = "none" => t.damaged = s.damaged
              /\ t.slide # "none" => s.slide = "running"
              /\ t.was_sliding <=> s.slide = "running"
              /\ t.wakeup > 0 => Surfaces(s) \subseteq t.idle
<1> DEFINE left  == IF s.was_sliding /\ s.slide # "running" THEN Wakeup ELSE s.wakeup
           rest  == IF left > 0 THEN left - 1 ELSE 0
           slide == IF s.slide = "running" THEN s.slide ELSE "none"
           going == (s.slide = "running")
           moved == [s EXCEPT !.gate = None, !.slide = slide, !.was_sliding = going, !.wakeup = rest]
           seen  == IF s.slide # "none" THEN AllDamaged(moved) ELSE moved
<1>1. left \in 0 .. Wakeup /\ Wakeup \in Nat
  BY FramesAssumption DEF Backend
<1>2. Advanced(s) = IF left > 0 THEN Scheduled(seen) ELSE seen
  BY DEF Advanced
<1>8. rest \in 0 .. Wakeup /\ (rest > 0 => left > 0)
  BY <1>1
<1>9. slide \in {"none", "running", "elapsed"} /\ going \in BOOLEAN
  OBVIOUS
<1> HIDE DEF left, rest, slide, going
<1>3. /\ moved \in Backend /\ SameOutputs(s, moved)
      /\ moved.flip_pending = s.flip_pending /\ moved.in_flight = s.in_flight
      /\ moved.failed = s.failed /\ moved.resize = s.resize /\ moved.copy = s.copy
      /\ moved.waiting = s.waiting /\ moved.idle = s.idle /\ moved.damaged = s.damaged
      /\ moved.slide = slide /\ moved.was_sliding = going /\ moved.wakeup = rest
  BY <1>8, <1>9 DEF Backend, SameOutputs
<1>10. moved.slide # "none" => s.slide = "running"
  BY <1>3 DEF slide
<1>11. moved.was_sliding <=> s.slide = "running"
  BY <1>3 DEF going
<1> HIDE DEF moved
<1>4. /\ seen \in Backend /\ SameOutputs(s, seen)
      /\ seen.flip_pending = s.flip_pending /\ seen.in_flight = s.in_flight
      /\ seen.failed = s.failed /\ seen.resize = s.resize /\ seen.copy = s.copy
      /\ seen.waiting = s.waiting /\ seen.idle = s.idle
      /\ s.slide = "none" => seen.damaged = s.damaged
      /\ seen.slide = moved.slide /\ seen.was_sliding = moved.was_sliding
      /\ seen.wakeup = moved.wakeup
  BY <1>3 DEF AllDamaged, Backend, SameOutputs, Surfaces
<1> HIDE DEF seen
<1>5. Surfaces(seen) = Surfaces(s)
  BY <1>4, SameSurfaces
<1>6. CASE left > 0
  BY <1>2, <1>4, <1>5, <1>6, <1>10, <1>11 DEF Scheduled, Backend, SameOutputs, Surfaces
<1>7. CASE ~(left > 0)
  BY <1>2, <1>3, <1>4, <1>7, <1>8, <1>10, <1>11
<1> QED
  BY <1>6, <1>7

\* The frame callbacks of an output that shows all there is, or has a frame
\* in flight, leave nothing due on it that nobody renders.
LEMMA FinishedRests ==
    ASSUME NEW P, NEW s \in Rest(P), NEW c \in Crtc,
           s.slide # "none" => s.was_sliding,
           s.wakeup > 0 => Surfaces(s) \subseteq s.idle,
           c \in s.in_flight \/ c \notin s.damaged \union s.copy
    PROVE  Finished(s, c) \in Rest(P \ {c}) /\ SameOutputs(s, Finished(s, c))
<1> DEFINE told == [s EXCEPT !.failed = @ \ {c}, !.waiting = FALSE]
<1>1. s \in Backend /\ Coherent(s) /\ Roused(s, P)
  BY DEF Rest
<1>2. told \in Backend /\ SameOutputs(s, told) /\ told.waiting = FALSE /\ told.failed = s.failed \ {c}
  BY <1>1 DEF Backend, SameOutputs
<1>3. /\ told.flip_pending = s.flip_pending /\ told.in_flight = s.in_flight /\ told.idle = s.idle
      /\ told.resize = s.resize /\ told.damaged = s.damaged /\ told.copy = s.copy
      /\ told.slide = s.slide /\ told.was_sliding = s.was_sliding /\ told.wakeup = s.wakeup
  BY <1>1 DEF Backend
<1>4. Finished(s, c) = IF s.was_sliding THEN Scheduled(told) ELSE told
  BY DEF Finished
<1> HIDE DEF told
<1>5. Surfaces(told) = Surfaces(s) /\ Live(told) = Live(s) /\ told.lost = s.lost
  BY <1>2, SameSurfaces
<1>6. Coherent(told)
  BY <1>1, <1>2, <1>3, <1>5 DEF Coherent, SameOutputs
<1>7. CASE s.was_sliding
  <2>1. Scheduled(told) \in Rest({}) /\ SameOutputs(told, Scheduled(told))
    BY <1>2, <1>6, ScheduledRests
  <2>2. Rest({}) \subseteq Rest(P \ {c})
    BY RestWeaker
  <2> QED
    BY <1>2, <1>4, <1>7, <2>1, <2>2 DEF SameOutputs
<1>8. CASE ~s.was_sliding
  <2>1. ASSUME NEW d \in Live(told) \ (told.failed \union told.lost \union (P \ {c})), Due(told, d)
        PROVE  d \in told.idle \union told.in_flight
    <3>1. d \in Live(s) /\ d \in Surfaces(s)
      BY <1>5 DEF Live
    <3>2. CASE d = c
      <4>1. s.slide = "none"
        BY <1>8
      <4>2. c \in told.damaged \union told.copy \/ told.wakeup > 0
        BY <1>2, <1>3, <1>8, <2>1, <3>2, <4>1 DEF Due
      <4> QED
        BY <1>3, <3>1, <3>2, <4>2
    <3>3. CASE d # c
      <4>1. Due(s, d) /\ d \notin s.failed \union s.lost \union P
        BY <1>2, <1>3, <1>5, <2>1, <3>3 DEF Due
      <4> QED
        BY <1>1, <1>3, <3>1, <4>1 DEF Roused
    <3> QED
      BY <3>2, <3>3
  <2>2. Roused(told, P \ {c})
    BY <2>1 DEF Roused
  <2> QED
    BY <1>2, <1>4, <1>6, <1>8, <2>2 DEF Rest
<1> QED
  BY <1>7, <1>8

\* Nothing new is due once the slides have advanced.
LEMMA AdvancedRests ==
    ASSUME NEW P, NEW s \in Rest(P)
    PROVE  Advanced(s) \in Rest(P) /\ SameOutputs(s, Advanced(s))
<1> DEFINE t == Advanced(s)
<1>1. s \in Backend /\ Coherent(s) /\ Roused(s, P)
  BY DEF Rest
<1>2. /\ t \in Backend /\ SameOutputs(s, t)
      /\ t.flip_pending = s.flip_pending /\ t.in_flight = s.in_flight
      /\ t.failed = s.failed /\ t.resize = s.resize /\ t.copy = s.copy
      /\ t.waiting = s.waiting /\ s.idle \subseteq t.idle
      /\ s.slide = "none" => t.damaged = s.damaged
      /\ t.slide # "none" => s.slide = "running"
      /\ t.was_sliding <=> s.slide = "running"
      /\ t.wakeup > 0 => Surfaces(s) \subseteq t.idle
  BY <1>1, AdvancedFields
<1> HIDE DEF t
<1>3. Surfaces(t) = Surfaces(s) /\ Live(t) = Live(s) /\ t.lost = s.lost
  BY <1>2, SameSurfaces
<1>4. Coherent(t)
  BY <1>1, <1>2, <1>3 DEF Coherent, SameOutputs
<1>5. ASSUME NEW d \in Live(t) \ (t.failed \union t.lost \union P), Due(t, d)
      PROVE  d \in t.idle \union t.in_flight
  <2>1. d \in Surfaces(s)
    BY <1>3 DEF Live
  <2>2. CASE t.wakeup > 0
    BY <1>2, <2>1, <2>2
  <2>3. CASE ~(t.wakeup > 0)
    <3>1. Due(s, d)
      BY <1>2, <1>5, <2>3 DEF Due
    <3> QED
      BY <1>1, <1>2, <1>3, <1>5, <3>1 DEF Roused
  <2> QED
    BY <2>2, <2>3
<1>6. Roused(t, P)
  BY <1>5 DEF Roused
<1> QED
  BY <1>2, <1>4, <1>6 DEF Rest, t

\* A frame that fails excuses its output.
LEMMA FailedRests ==
    ASSUME NEW P, NEW s \in Rest(P), NEW c \in Crtc, NEW t \in Failed(s, c)
    PROVE  t \in Rest(P \ {c}) /\ SameOutputs(s, t)
<1>1. s \in Backend /\ Coherent(s) /\ Roused(s, P)
  BY DEF Rest
<1>2. t = [s EXCEPT !.failed = s.failed \union {c}]
  BY DEF Failed
<1>3. /\ t \in Backend /\ SameOutputs(s, t) /\ t.failed = s.failed \union {c}
      /\ t.flip_pending = s.flip_pending /\ t.in_flight = s.in_flight /\ t.idle = s.idle
      /\ t.resize = s.resize /\ t.damaged = s.damaged /\ t.copy = s.copy /\ t.waiting = s.waiting
      /\ t.slide = s.slide /\ t.was_sliding = s.was_sliding /\ t.wakeup = s.wakeup
  BY <1>1, <1>2 DEF Backend, SameOutputs
<1>4. Surfaces(t) = Surfaces(s) /\ Live(t) = Live(s) /\ t.lost = s.lost
  BY <1>3, SameSurfaces
<1>5. Coherent(t)
  BY <1>1, <1>3, <1>4 DEF Coherent, SameOutputs
<1>6. ASSUME NEW d \in Live(t) \ (t.failed \union t.lost \union (P \ {c})), Due(t, d)
      PROVE  d \in t.idle \union t.in_flight
  <2>1. Due(s, d) /\ d \in Live(s) \ (s.failed \union s.lost \union P)
    BY <1>3, <1>4, <1>6 DEF Due
  <2> QED
    BY <1>1, <1>3, <2>1 DEF Roused
<1> QED
  BY <1>3, <1>5, <1>6 DEF Rest, Roused

\* A screencopy answered leaves less to do ...
LEMMA CopiedRests ==
    ASSUME NEW P, NEW s \in Rest(P), NEW c \in Crtc
    PROVE  LET t == Copied(s, c)
           IN /\ t \in Rest(P) /\ SameOutputs(s, t)
              /\ t.copy = s.copy \ {c} /\ t.damaged = s.damaged
              /\ t.slide = s.slide /\ t.was_sliding = s.was_sliding /\ t.wakeup = s.wakeup
              /\ t.idle = s.idle
<1> DEFINE t == Copied(s, c)
<1>1. s \in Backend /\ Coherent(s) /\ Roused(s, P)
  BY DEF Rest
<1>2. /\ t \in Backend /\ SameOutputs(s, t) /\ t.copy = s.copy \ {c} /\ t.failed = s.failed
      /\ t.flip_pending = s.flip_pending /\ t.in_flight = s.in_flight /\ t.idle = s.idle
      /\ t.resize = s.resize /\ t.damaged = s.damaged /\ t.waiting = s.waiting
      /\ t.slide = s.slide /\ t.was_sliding = s.was_sliding /\ t.wakeup = s.wakeup
  BY <1>1 DEF Copied, Backend, SameOutputs
<1> HIDE DEF t
<1>3. Surfaces(t) = Surfaces(s) /\ Live(t) = Live(s) /\ t.lost = s.lost
  BY <1>2, SameSurfaces
<1>4. Coherent(t)
  BY <1>1, <1>2, <1>3 DEF Coherent, SameOutputs
<1>5. ASSUME NEW d \in Live(t) \ (t.failed \union t.lost \union P), Due(t, d)
      PROVE  d \in t.idle \union t.in_flight
  <2>1. Due(s, d) /\ d \in Live(s) \ (s.failed \union s.lost \union P)
    BY <1>2, <1>3, <1>5 DEF Due
  <2> QED
    BY <1>1, <1>2, <2>1 DEF Roused
<1>6. t \in Rest(P)
  BY <1>2, <1>4, <1>5 DEF Rest, Roused
<1> QED
  BY <1>2, <1>6 DEF t

\* ... and so does a frame queued, which is in flight from then on.
LEMMA QueuedRests ==
    ASSUME NEW P, NEW s \in Rest(P), NEW c \in Crtc
    PROVE  LET t == Queued(s, c)
           IN /\ t \in Rest(P) /\ SameOutputs(s, t) /\ c \in t.in_flight
              /\ t.slide = s.slide /\ t.was_sliding = s.was_sliding /\ t.wakeup = s.wakeup
              /\ t.idle = s.idle
<1> DEFINE t == Queued(s, c)
<1>1. s \in Backend /\ Coherent(s) /\ Roused(s, P)
  BY DEF Rest
<1>2. /\ t \in Backend /\ SameOutputs(s, t) /\ t.copy = s.copy /\ t.failed = s.failed
      /\ t.flip_pending = s.flip_pending \union {c} /\ t.in_flight = s.in_flight \union {c}
      /\ t.idle = s.idle
      /\ t.resize = s.resize /\ t.damaged = s.damaged \ {c} /\ t.waiting = s.waiting
      /\ t.slide = s.slide /\ t.was_sliding = s.was_sliding /\ t.wakeup = s.wakeup
  BY <1>1 DEF Queued, Backend, SameOutputs
<1> HIDE DEF t
<1>3. Surfaces(t) = Surfaces(s) /\ Live(t) = Live(s) /\ t.lost = s.lost
  BY <1>2, SameSurfaces
<1>4. Coherent(t)
  BY <1>1, <1>2, <1>3 DEF Coherent, SameOutputs
<1>5. ASSUME NEW d \in Live(t) \ (t.failed \union t.lost \union P), Due(t, d)
      PROVE  d \in t.idle \union t.in_flight
  <2>1. Due(s, d) /\ d \in Live(s) \ (s.failed \union s.lost \union P)
    BY <1>2, <1>3, <1>5 DEF Due
  <2> QED
    BY <1>1, <1>2, <2>1 DEF Roused
<1>6. t \in Rest(P)
  BY <1>2, <1>4, <1>5 DEF Rest, Roused
<1> QED
  BY <1>2, <1>6 DEF t

\* Drawing an output settles it.
LEMMA DrawnRests ==
    ASSUME NEW P, NEW s \in Rest(P), NEW c \in Crtc,
           s.slide # "none" => s.was_sliding,
           s.wakeup > 0 => Surfaces(s) \subseteq s.idle,
           NEW t \in Drawn(s, c)
    PROVE  t \in Rest(P \ {c}) /\ SameOutputs(s, t)
<1> DEFINE done == Copied(s, c)
           next == Queued(done, c)
<1>1. t \in Failed(s, c) \/ t \in Failed(done, c)
      \/ (c \in s.damaged /\ t = Finished(next, c))
      \/ (c \notin s.damaged /\ t = Finished(done, c))
  BY DEF Drawn
<1>2. /\ done \in Rest(P) /\ SameOutputs(s, done)
      /\ done.copy = s.copy \ {c} /\ done.damaged = s.damaged
      /\ done.slide = s.slide /\ done.was_sliding = s.was_sliding /\ done.wakeup = s.wakeup
      /\ done.idle = s.idle
  BY CopiedRests
<1> HIDE DEF done
<1>3. /\ next \in Rest(P) /\ SameOutputs(done, next) /\ c \in next.in_flight
      /\ next.slide = done.slide /\ next.was_sliding = done.was_sliding
      /\ next.wakeup = done.wakeup /\ next.idle = done.idle
  BY <1>2, QueuedRests
<1> HIDE DEF next
<1>4. Surfaces(done) = Surfaces(s) /\ Surfaces(next) = Surfaces(s)
  BY <1>2, <1>3, SameSurfaces
<1>5. CASE t \in Failed(s, c)
  BY <1>5, FailedRests
<1>6. CASE t \in Failed(done, c)
  BY <1>2, <1>6, FailedRests DEF SameOutputs
<1>7. CASE c \in s.damaged /\ t = Finished(next, c)
  <2>1. (next.slide # "none" => next.was_sliding) /\ (next.wakeup > 0 => Surfaces(next) \subseteq next.idle)
    BY <1>2, <1>3, <1>4
  <2>2. t \in Rest(P \ {c}) /\ SameOutputs(next, t)
    BY <1>3, <1>7, <2>1, FinishedRests
  <2> QED
    BY <1>2, <1>3, <2>2 DEF SameOutputs
<1>8. CASE c \notin s.damaged /\ t = Finished(done, c)
  <2>1. (done.slide # "none" => done.was_sliding) /\ (done.wakeup > 0 => Surfaces(done) \subseteq done.idle)
    BY <1>2, <1>4
  <2>2. t \in Rest(P \ {c}) /\ SameOutputs(done, t)
    BY <1>2, <1>8, <2>1, FinishedRests
  <2> QED
    BY <1>2, <2>2 DEF SameOutputs
<1> QED
  BY <1>1, <1>5, <1>6, <1>7, <1>8

\* on_vblank settles its output, whatever becomes of the frame.
LEMMA OnVblankRests ==
    ASSUME NEW P, NEW s \in Rest(P), NEW c \in Crtc, NEW t \in OnVblank(s, c)
    PROVE  t \in Rest(P \ {c}) /\ SameOutputs(s, t)
<1>1. s \in Backend /\ Coherent(s) /\ Roused(s, P)
  BY DEF Rest
<1>2. CASE c \notin Live(s)
  <2>1. t = s
    BY <1>2 DEF OnVblank
  <2> QED
    BY <1>1, <1>2, <2>1 DEF Rest, Roused, SameOutputs
<1>3. CASE c \in Live(s) /\ GateAge(s) \in Holding(s.resize[c])
  <2>1. t = Held(s) /\ s.resize[c] # "none"
    BY <1>3 DEF OnVblank, Holding
  <2> QED
    BY <2>1, HeldRests
<1>4. CASE c \in Live(s) /\ GateAge(s) \notin Holding(s.resize[c])
  <2> DEFINE a == Advanced(s)
  <2>1. t \in Drawn(a, c)
    BY <1>4 DEF OnVblank
  <2>2. a \in Rest(P) /\ SameOutputs(s, a)
    BY AdvancedRests
  <2>3. (a.slide # "none" => a.was_sliding) /\ (a.wakeup > 0 => Surfaces(a) \subseteq a.idle)
    BY <1>1, <2>2, AdvancedFields, SameSurfaces
  <2> HIDE DEF a
  <2>4. t \in Rest(P \ {c}) /\ SameOutputs(a, t)
    BY <2>1, <2>2, <2>3, DrawnRests
  <2> QED
    BY <2>2, <2>4 DEF SameOutputs
<1> QED
  BY <1>2, <1>3, <1>4

\* on_vblank for each CRTC of a list settles all of them.
LEMMA KickedRests ==
    ASSUME NEW P \in SUBSET Crtc, NEW s \in Rest(P), NEW crtcs \in Seq(Crtc), NEW t \in Kicked({s}, crtcs)
    PROVE  t \in Rest(P \ {crtcs[i] : i \in 1 .. Len(crtcs)}) /\ SameOutputs(s, t)
<1> DEFINE n == Len(crtcs)
           Y == Rest(Crtc)
           next == [i \in 1 .. n |-> [u \in Y |-> OnVblank(u, crtcs[i])]]
           states[i \in 0 .. Len(crtcs)] ==
             IF i = 0 THEN {s} ELSE UNION {OnVblank(u, crtcs[i]) : u \in states[i - 1]}
           After(i) == P \ {crtcs[j] : j \in 1 .. i}
           settled == [i \in 0 .. n |-> {u \in Rest(After(i)) : SameOutputs(s, u)}]
<1>1. n \in Nat /\ \A i \in 1 .. n : crtcs[i] \in Crtc
  OBVIOUS
<1>2. Kicked({s}, crtcs) = states[n]
  BY DEF Kicked
<1>3. s \in Y
  BY RestWeaker
<1>4. \A i \in 1 .. n : \A u \in Y : next[i][u] = OnVblank(u, crtcs[i])
  OBVIOUS
<1>5. ASSUME NEW i \in 1 .. n, NEW u \in Y
      PROVE  OnVblank(u, crtcs[i]) \subseteq Y
  <2>1. OnVblank(u, crtcs[i]) \subseteq Rest(Crtc \ {crtcs[i]})
    BY <1>1, OnVblankRests
  <2>2. Rest(Crtc \ {crtcs[i]}) \subseteq Y
    BY RestWeaker
  <2> QED
    BY <2>1, <2>2
<1>6. next \in [1 .. n -> [Y -> SUBSET Y]]
  BY <1>5
<1>7. states = [i \in 0 .. n |-> IF i = 0 THEN {s} ELSE UNION {OnVblank(u, crtcs[i]) : u \in states[i - 1]}]
  <2> HIDE DEF next, Y
  <2>1. PICK f \in [0 .. n -> SUBSET Y] : Branches(f, n, {s}, next)
    <3>1. {s} \in SUBSET Y
      BY <1>3
    <3> HIDE DEF n, states
    <3> QED
      BY <1>1, <1>6, <3>1, LoopOfSets
  <2>2. ASSUME NEW i \in 1 .. n
        PROVE  UNION {next[i][u] : u \in f[i - 1]} = UNION {OnVblank(u, crtcs[i]) : u \in f[i - 1]}
    <3>1. f[i - 1] \subseteq Y
      BY <2>1
    <3> QED
      BY <1>4, <3>1
  <2>3. \A i \in 0 .. n : i # 0 => i \in 1 .. n
    OBVIOUS
  <2>4. f = [i \in 0 .. n |-> IF i = 0 THEN {s} ELSE UNION {OnVblank(u, crtcs[i]) : u \in f[i - 1]}]
    BY <2>1, <2>2, <2>3 DEF Branches
  <2> QED
    BY <2>4
<1> HIDE DEF states
<1>8. states[0] \subseteq settled[0]
  <2>1. s \in Rest(After(0))
    BY RestWeaker
  <2>2. states[0] = {s} /\ SameOutputs(s, s)
    BY <1>7 DEF SameOutputs
  <2> QED
    BY <2>1, <2>2
<1>9. ASSUME NEW i \in 1 .. n, states[i - 1] \subseteq settled[i - 1]
      PROVE  states[i] \subseteq settled[i]
  <2>3. i \in 0 .. n /\ i - 1 \in 0 .. n /\ i # 0
    BY <1>1
  <2>1. states[i] = UNION {OnVblank(u, crtcs[i]) : u \in states[i - 1]}
    <3> HIDE DEF n
    <3> QED
      BY <1>7, <2>3
  <2>2. ASSUME NEW u \in states[i - 1], NEW v \in OnVblank(u, crtcs[i])
        PROVE  v \in Rest(After(i)) /\ SameOutputs(s, v)
    <3>1. u \in Rest(After(i - 1)) /\ SameOutputs(s, u)
      BY <1>9, <2>3
    <3>2. v \in Rest(After(i - 1) \ {crtcs[i]}) /\ SameOutputs(u, v)
      <4> HIDE DEF After
      <4> QED
        BY <1>1, <2>2, <3>1, OnVblankRests
    <3>3. \A c \in Crtc : c \in After(i - 1) \ {crtcs[i]} => c \in After(i)
      BY <1>1
    <3>4. Rest(After(i - 1) \ {crtcs[i]}) \subseteq Rest(After(i))
      BY <3>3, RestWeaker
    <3> QED
      BY <3>1, <3>2, <3>4 DEF SameOutputs
  <2> QED
    BY <2>1, <2>2, <2>3
<1>10. states[n] \subseteq settled[n]
  <2> HIDE DEF settled, n
  <2> QED
    BY <1>1, <1>8, <1>9, LoopKeeps
<1>11. settled[n] = {u \in Rest(After(n)) : SameOutputs(s, u)}
  BY <1>1
<1>12. t \in states[n]
  BY <1>2
<1> HIDE DEF settled, next, Y, After
<1>13. t \in Rest(After(n)) /\ SameOutputs(s, t)
  BY <1>10, <1>11, <1>12
<1> QED
  BY <1>13 DEF After

-----------------------------------------------------------------------------
(* Connector scans.                                                        *)

\* What a scan may claim: a CRTC that drives nothing.
ClaimOf(s) == [conn : Connector, crtc : Crtc \ Surfaces(s)]

LEMMA ClaimedFree ==
    ASSUME NEW s \in Backend, NEW claims \in Seq(ClaimOf(s)), NEW k \in Connector
    PROVE  Claimed(s, claims, k) \in Seq(ClaimOf(s))
<1> DEFINE free == Free(s, claims, k)
           claim == [conn |-> k, crtc |-> Compatible[k][Min(free)]]
<1>1. CASE k \in plugged /\ free # {}
  <2>1. Compatible[k] \in Seq(Crtc)
    BY FramesAssumption
  <2>2. /\ free \in SUBSET Nat
        /\ \A i \in free : Compatible[k][i] \in Crtc /\ Compatible[k][i] \notin Surfaces(s)
    BY <2>1 DEF Free
  <2>3. Min(free) \in free
    <3> HIDE DEF free
    <3>1. \E p \in free : \A q \in free : p <= q
      BY <1>1, <2>2, FirstPosition
    <3> QED
      BY <3>1 DEF Min
  <2>4. claim \in ClaimOf(s)
    <3> HIDE DEF free
    <3> QED
      BY <2>2, <2>3 DEF ClaimOf
  <2>5. Claimed(s, claims, k) = Append(claims, claim)
    BY <1>1 DEF Claimed
  <2> HIDE DEF claim
  <2> QED
    BY <2>4, <2>5
<1>2. CASE ~(k \in plugged /\ free # {})
  BY <1>2 DEF Claimed
<1> QED
  BY <1>1, <1>2

LEMMA ClaimsFree ==
    ASSUME NEW s \in Backend, NEW d \in Device
    PROVE  Claims(s, d) \in Seq(ClaimOf(s))
<1> DEFINE n == Len(Listed[d])
           Y == Seq(ClaimOf(s))
           step == [i \in 1 .. n |-> [q \in Y |-> Claimed(s, q, Listed[d][i])]]
           claims[i \in 0 .. Len(Listed[d])] ==
             IF i = 0 THEN <<>> ELSE Claimed(s, claims[i - 1], Listed[d][i])
<1>1. n \in Nat /\ \A i \in 1 .. n : Listed[d][i] \in Connector
  BY FramesAssumption
<1>2. Claims(s, d) = claims[n]
  BY DEF Claims
<1>3. \A i \in 1 .. n : \A q \in Y : Claimed(s, q, Listed[d][i]) \in Y
  BY <1>1, ClaimedFree
<1>4. <<>> \in Y
  OBVIOUS
<1> HIDE DEF Y
<1>5. step \in [1 .. n -> [Y -> Y]]
  BY <1>3
<1>6. \A i \in 1 .. n : \A q \in Y : step[i][q] = Claimed(s, q, Listed[d][i])
  OBVIOUS
<1>7. \A i \in 1 .. n : i \in 0 .. n /\ i - 1 \in 0 .. n /\ i # 0
  BY <1>1
<1>8. claims = [i \in 0 .. n |-> IF i = 0 THEN <<>> ELSE Claimed(s, claims[i - 1], Listed[d][i])]
  <2>1. PICK f \in [0 .. n -> Y] : Iterates(f, n, <<>>, step)
    <3> HIDE DEF n, step, claims
    <3> QED
      BY <1>1, <1>4, <1>5, LoopExists
  <2>2. \A i \in 1 .. n : f[i] = Claimed(s, f[i - 1], Listed[d][i])
    <3> HIDE DEF step, claims
    <3> QED
      BY <1>6, <1>7, <2>1 DEF Iterates
  <2>3. \A i \in 0 .. n : i # 0 => i \in 1 .. n
    BY <1>1
  <2>4. f = [i \in 0 .. n |-> IF i = 0 THEN <<>> ELSE Claimed(s, f[i - 1], Listed[d][i])]
    BY <2>1, <2>2, <2>3 DEF Iterates
  <2> QED
    BY <2>4
<1> HIDE DEF claims, step, n
<1> DEFINE T == {i \in 0 .. n : claims[i] \in Y}
<1>9. 0 \in T
  BY <1>1, <1>4, <1>8
<1>10. \A i \in 1 .. n : i - 1 \in T => i \in T
  BY <1>3, <1>7, <1>8
<1>11. 0 .. n \subseteq T
  <2> HIDE DEF T
  <2> QED
    BY <1>1, <1>9, <1>10, UpTo
<1>12. n \in T
  BY <1>1, <1>11
<1> QED
  BY <1>2, <1>12 DEF Y

\* The CRTCs that drive something go on driving it, on the same open devices.
KeepsOutputs(s, t) ==
  /\ t.devices = s.devices /\ t.pending_devices = s.pending_devices
  /\ \A c \in Surfaces(s) : t.conn[c] = s.conn[c]

\* A new output is roused with the others.
LEMMA SurfaceAddedRests ==
    ASSUME NEW s \in Backend, Coherent(s), NEW base, NEW claim \in ClaimOf(base),
           KeepsOutputs(base, s), Owner[claim.crtc] \in s.drm
    PROVE  SurfaceAdded(s, claim) \in Rest({}) /\ KeepsOutputs(base, SurfaceAdded(s, claim))
<1> DEFINE c == claim.crtc
           t == [s EXCEPT !.conn[claim.crtc] = claim.conn, !.damaged = @ \union {claim.crtc}]
<1>1. c \in Crtc /\ c \notin Surfaces(base) /\ claim.conn \in Connector
  BY DEF ClaimOf
<1>2. t.conn = [s.conn EXCEPT ![c] = claim.conn] /\ t.conn \in [Crtc -> Connector \union {None}]
  BY <1>1 DEF Backend
<1>3. /\ t \in Backend /\ t.devices = s.devices /\ t.drm = s.drm /\ t.pending_devices = s.pending_devices
      /\ t.flip_pending = s.flip_pending /\ t.in_flight = s.in_flight
  BY <1>1, <1>2 DEF Backend
<1>4. SurfaceAdded(s, claim) = Scheduled(t)
  BY DEF SurfaceAdded
<1> HIDE DEF t
<1>5. \A e \in Surfaces(t) : e = c \/ e \in Surfaces(s)
  BY <1>2, <1>3 DEF Surfaces, Backend
<1>6. Coherent(t)
  BY <1>3, <1>5 DEF Coherent
<1>7. Scheduled(t) \in Rest({}) /\ SameOutputs(t, Scheduled(t))
  BY <1>3, <1>6, ScheduledRests
<1>8. \A e \in Surfaces(base) : t.conn[e] = base.conn[e]
  BY <1>1, <1>2 DEF KeepsOutputs, Surfaces, Backend
<1> QED
  BY <1>3, <1>4, <1>7, <1>8 DEF KeepsOutputs, SameOutputs

LEMMA ConnectedRests ==
    ASSUME NEW P, NEW s \in Rest(P), NEW base, NEW claim \in ClaimOf(base),
           KeepsOutputs(base, s), NEW t \in Connected(s, claim)
    PROVE  t \in Rest(P) /\ KeepsOutputs(base, t)
<1>1. s \in Backend /\ Coherent(s)
  BY DEF Rest
<1>2. CASE t = s
  BY <1>2
<1>3. CASE Owner[claim.crtc] \in s.drm /\ t \in OnVblank(SurfaceAdded(s, claim), claim.crtc)
  <2> DEFINE u == SurfaceAdded(s, claim)
  <2>1. u \in Rest({}) /\ KeepsOutputs(base, u)
    BY <1>1, <1>3, SurfaceAddedRests
  <2>2. claim.crtc \in Crtc
    BY DEF ClaimOf
  <2>3. t \in OnVblank(u, claim.crtc)
    BY <1>3
  <2> HIDE DEF u
  <2>4. t \in Rest({} \ {claim.crtc}) /\ SameOutputs(u, t)
    BY <2>1, <2>2, <2>3, OnVblankRests
  <2>5. Rest({} \ {claim.crtc}) \subseteq Rest(P)
    BY RestWeaker
  <2>6. KeepsOutputs(base, t)
    BY <2>1, <2>4 DEF KeepsOutputs, SameOutputs
  <2> QED
    BY <2>4, <2>5, <2>6
<1> QED
  BY <1>2, <1>3 DEF Connected

\* A scan leaves the outputs there are as they were, and rouses the new ones.
LEMMA ScannedRests ==
    ASSUME NEW P, NEW s \in Rest(P), NEW d \in Device, NEW t \in Scanned(s, d)
    PROVE  t \in Rest(P) /\ KeepsOutputs(s, t)
<1> DEFINE claims == Claims(s, d)
           n == Len(claims)
           Y == {u \in Rest(P) : KeepsOutputs(s, u)}
           next == [i \in 1 .. n |-> [u \in Y |-> Connected(u, claims[i])]]
           kept == [i \in 0 .. n |-> Y]
           states[i \in 0 .. Len(claims)] ==
             IF i = 0 THEN {s} ELSE UNION {Connected(u, claims[i]) : u \in states[i - 1]}
<1>1. claims \in Seq(ClaimOf(s))
  BY ClaimsFree DEF Rest
<1>2. t \in states[n] \/ t = s
  BY DEF Scanned
<1> HIDE DEF claims
<1>3. n \in Nat /\ \A i \in 1 .. n : claims[i] \in ClaimOf(s)
  BY <1>1
<1>4. s \in Y
  BY DEF KeepsOutputs
<1>5. ASSUME NEW i \in 1 .. n, NEW u \in Y
      PROVE  Connected(u, claims[i]) \subseteq Y
  BY <1>3, ConnectedRests
<1>6. \A i \in 1 .. n : \A u \in Y : next[i][u] = Connected(u, claims[i])
  OBVIOUS
<1>7. next \in [1 .. n -> [Y -> SUBSET Y]]
  BY <1>5
<1>8. \A i \in 1 .. n : i \in 0 .. n /\ i - 1 \in 0 .. n /\ i # 0
  BY <1>3
<1> HIDE DEF Y, next
<1>9. states = [i \in 0 .. n |-> IF i = 0 THEN {s} ELSE UNION {Connected(u, claims[i]) : u \in states[i - 1]}]
  <2>1. PICK f \in [0 .. n -> SUBSET Y] : Branches(f, n, {s}, next)
    <3>1. {s} \in SUBSET Y
      BY <1>4
    <3> HIDE DEF n, states
    <3> QED
      BY <1>3, <1>7, <3>1, LoopOfSets
  <2>2. ASSUME NEW i \in 1 .. n
        PROVE  UNION {next[i][u] : u \in f[i - 1]} = UNION {Connected(u, claims[i]) : u \in f[i - 1]}
    <3>1. f[i - 1] \subseteq Y
      BY <1>8, <2>1
    <3> QED
      BY <1>6, <3>1
  <2>3. \A i \in 0 .. n : i # 0 => i \in 1 .. n
    BY <1>3
  <2>4. f = [i \in 0 .. n |-> IF i = 0 THEN {s} ELSE UNION {Connected(u, claims[i]) : u \in f[i - 1]}]
    BY <2>1, <2>2, <2>3 DEF Branches
  <2> QED
    BY <2>4
<1> HIDE DEF states, n
<1>10. states[0] \subseteq kept[0]
  BY <1>3, <1>4, <1>9
<1>11. ASSUME NEW i \in 1 .. n, states[i - 1] \subseteq kept[i - 1]
       PROVE  states[i] \subseteq kept[i]
  <2>1. states[i] = UNION {Connected(u, claims[i]) : u \in states[i - 1]}
    BY <1>8, <1>9
  <2>2. states[i - 1] \subseteq Y /\ kept[i] = Y
    BY <1>8, <1>11
  <2> QED
    BY <1>5, <2>1, <2>2
<1>12. states[n] \subseteq kept[n]
  <2> HIDE DEF kept
  <2> QED
    BY <1>3, <1>10, <1>11, LoopKeeps
<1>13. states[n] \subseteq Y
  BY <1>3, <1>12
<1> QED
  BY <1>2, <1>4, <1>13 DEF Y

-----------------------------------------------------------------------------
(* Devices.                                                                *)

\* A device that is activated again owes a frame on each of its outputs.
LEMMA ActivatedRests ==
    ASSUME NEW s \in Rest({}), NEW d \in s.devices
    PROVE  LET t == [Reset(s, d) EXCEPT !.drm = @ \union {d}]
           IN t \in Rest(CrtcsOf(d)) /\ KeepsOutputs(s, t) /\ Surfaces(t) = Surfaces(s)
<1> DEFINE t == [Reset(s, d) EXCEPT !.drm = @ \union {d}]
<1>1. s \in Backend /\ Coherent(s) /\ Roused(s, {})
  BY DEF Rest
<1>2. /\ t \in Backend /\ t.conn = s.conn /\ t.devices = s.devices /\ t.drm = s.drm \union {d}
      /\ t.pending_devices = s.pending_devices
      /\ t.flip_pending = s.flip_pending \ CrtcsOf(d) /\ t.in_flight = s.in_flight /\ t.idle = s.idle
      /\ t.resize = s.resize /\ t.copy = s.copy /\ t.waiting = s.waiting
      /\ t.failed = s.failed /\ t.lost = s.lost
      /\ t.damaged = s.damaged \union (Surfaces(s) \intersect CrtcsOf(d))
      /\ t.slide = s.slide /\ t.was_sliding = s.was_sliding /\ t.wakeup = s.wakeup
  BY <1>1 DEF Reset, Backend, CrtcsOf
<1> HIDE DEF t
<1>3. Surfaces(t) = Surfaces(s)
  BY <1>2 DEF Surfaces
<1>4. Coherent(t)
  BY <1>1, <1>2, <1>3 DEF Coherent
<1>5. ASSUME NEW e \in Live(t) \ (t.failed \union t.lost \union CrtcsOf(d)), Due(t, e)
      PROVE  e \in t.idle \union t.in_flight
  <2>1. e \in Surfaces(s) /\ Owner[e] # d /\ e \notin s.failed \union s.lost
    BY <1>2, <1>3, <1>5 DEF Live, CrtcsOf, Surfaces
  <2>2. e \in Live(s)
    BY <1>2, <1>5, <2>1 DEF Live
  <2>3. Due(s, e)
    BY <1>2, <1>5, <2>1 DEF Due, CrtcsOf
  <2> QED
    BY <1>1, <1>2, <2>1, <2>2, <2>3 DEF Roused
<1>6. t \in Rest(CrtcsOf(d))
  BY <1>2, <1>4, <1>5 DEF Rest, Roused
<1> QED
  BY <1>2, <1>3, <1>6 DEF KeepsOutputs, t

LEMMA ReactivatedRests ==
    ASSUME NEW s \in Rest({}), NEW d \in s.devices, NEW t \in Reactivated(s, d)
    PROVE  t \in Rest({}) /\ KeepsOutputs(s, t)
<1> DEFINE r == [Reset(s, d) EXCEPT !.drm = @ \union {d}]
           Lit(u) == Surfaces(u) \intersect CrtcsOf(d)
<1>1. d \in Device
  BY DEF Rest, Backend
<1>2. CASE t = s
  BY <1>2 DEF KeepsOutputs
<1>3. ASSUME NEW u \in Scanned(r, d), NEW crtcs \in SetToSeqs(Lit(u)), t \in Kicked({u}, crtcs)
      PROVE  t \in Rest({}) /\ KeepsOutputs(s, t)
  <2>1. r \in Rest(CrtcsOf(d)) /\ KeepsOutputs(s, r) /\ Surfaces(r) = Surfaces(s)
    BY ActivatedRests
  <2> HIDE DEF r
  <2>2. u \in Rest(CrtcsOf(d)) /\ KeepsOutputs(r, u)
    BY <1>1, <2>1, ScannedRests
  <2>3. IsFiniteSet(Lit(u)) /\ Lit(u) \subseteq Crtc
    <3>1. Lit(u) \in SUBSET Crtc
      BY DEF CrtcsOf
    <3> QED
      BY <3>1, FramesAssumption, FS_Subset
  <2>4. /\ crtcs \in Seq(Lit(u))
        /\ \A e \in Lit(u) : \E i \in 1 .. Len(crtcs) : crtcs[i] = e
    <3> HIDE DEF Lit
    <3> QED
      BY <2>3, Listing
  <2>5. crtcs \in Seq(Crtc)
    BY <2>3, <2>4
  <2> DEFINE Q == CrtcsOf(d) \ {crtcs[i] : i \in 1 .. Len(crtcs)}
  <2>6. t \in Rest(Q) /\ SameOutputs(u, t)
    <3>1. CrtcsOf(d) \in SUBSET Crtc
      BY DEF CrtcsOf
    <3> QED
      BY <1>3, <2>2, <2>5, <3>1, KickedRests
  <2>7. \A e \in Q : e \notin Surfaces(t)
    BY <2>4, <2>6, SameSurfaces
  <2>8. t \in Rest({})
    <3> HIDE DEF Q
    <3> QED
      BY <2>6, <2>7 DEF Rest, Roused, Live
  <2>9. KeepsOutputs(s, t)
    BY <2>1, <2>2, <2>6 DEF KeepsOutputs, SameOutputs
  <2> QED
    BY <2>8, <2>9
<1>4. t = s \/ \E u \in Scanned(r, d) : \E crtcs \in SetToSeqs(Lit(u)) : t \in Kicked({u}, crtcs)
  <2>1. CASE d \in s.drm
    BY <2>1 DEF Reactivated
  <2>2. CASE d \notin s.drm
    <3> DEFINE kicked(u) == UNION {Kicked({u}, crtcs) : crtcs \in SetToSeqs(Lit(u))}
               after == Scanned(r, d)
    <3>1. Reactivated(s, d) = {s} \union UNION {kicked(u) : u \in after}
      BY <2>2, Zenon DEF Reactivated
    <3> HIDE DEF kicked, after
    <3>2. t = s \/ \E u \in after : t \in kicked(u)
      BY <3>1
    <3>3. CASE t = s
      BY <3>3
    <3>4. ASSUME NEW u \in after, t \in kicked(u)
          PROVE  \E crtcs \in SetToSeqs(Lit(u)) : t \in Kicked({u}, crtcs)
      BY <3>4, Zenon DEF kicked
    <3> QED
      BY <3>2, <3>3, <3>4, Zenon DEF after
  <2> QED
    BY <2>1, <2>2
<1> QED
  BY <1>2, <1>3, <1>4

\* The open devices are activated again, one after the other.
LEMMA WokenRests ==
    ASSUME NEW s \in Rest({}), NEW ids \in SetToSeqs(s.devices), NEW t \in Woken(s, ids)
    PROVE  t \in Rest({}) /\ KeepsOutputs(s, t)
<1> DEFINE n == Len(ids)
           Y == {u \in Rest({}) : KeepsOutputs(s, u)}
           next == [i \in 1 .. n |-> [u \in Y |-> Reactivated(u, ids[i])]]
           kept == [i \in 0 .. n |-> Y]
           states[i \in 0 .. Len(ids)] ==
             IF i = 0 THEN {s} ELSE UNION {Reactivated(u, ids[i]) : u \in states[i - 1]}
<1>1. s.devices \in SUBSET Device
  BY DEF Rest, Backend
<1>2. IsFiniteSet(s.devices)
  BY <1>1, FramesAssumption, FS_Subset
<1>3. ids \in Seq(s.devices)
  BY <1>2, Listing
<1>4. n \in Nat /\ \A i \in 1 .. n : ids[i] \in s.devices
  BY <1>3
<1>5. t \in states[n]
  BY DEF Woken
<1>6. s \in Y
  BY DEF KeepsOutputs
<1>7. ASSUME NEW i \in 1 .. n, NEW u \in Y
      PROVE  Reactivated(u, ids[i]) \subseteq Y
  <2>1. u \in Rest({}) /\ ids[i] \in u.devices
    BY <1>4 DEF KeepsOutputs
  <2>2. ASSUME NEW v \in Reactivated(u, ids[i])
        PROVE  v \in Rest({}) /\ KeepsOutputs(s, v)
    <3>1. v \in Rest({}) /\ KeepsOutputs(u, v)
      BY <2>1, ReactivatedRests
    <3>2. \A c \in Surfaces(s) : c \in Surfaces(u)
      BY DEF KeepsOutputs, Surfaces
    <3> QED
      BY <3>1, <3>2 DEF KeepsOutputs
  <2> QED
    BY <2>2
<1>8. \A i \in 1 .. n : \A u \in Y : next[i][u] = Reactivated(u, ids[i])
  OBVIOUS
<1>9. next \in [1 .. n -> [Y -> SUBSET Y]]
  BY <1>7
<1>10. \A i \in 1 .. n : i \in 0 .. n /\ i - 1 \in 0 .. n /\ i # 0
  BY <1>4
<1> HIDE DEF Y, next
<1>11. states = [i \in 0 .. n |-> IF i = 0 THEN {s} ELSE UNION {Reactivated(u, ids[i]) : u \in states[i - 1]}]
  <2>1. PICK f \in [0 .. n -> SUBSET Y] : Branches(f, n, {s}, next)
    <3>1. {s} \in SUBSET Y
      BY <1>6
    <3> HIDE DEF n, states
    <3> QED
      BY <1>4, <1>9, <3>1, LoopOfSets
  <2>2. ASSUME NEW i \in 1 .. n
        PROVE  UNION {next[i][u] : u \in f[i - 1]} = UNION {Reactivated(u, ids[i]) : u \in f[i - 1]}
    <3>1. f[i - 1] \subseteq Y
      BY <1>10, <2>1
    <3> QED
      BY <1>8, <3>1
  <2>3. \A i \in 0 .. n : i # 0 => i \in 1 .. n
    BY <1>4
  <2>4. f = [i \in 0 .. n |-> IF i = 0 THEN {s} ELSE UNION {Reactivated(u, ids[i]) : u \in f[i - 1]}]
    BY <2>1, <2>2, <2>3 DEF Branches
  <2> QED
    BY <2>4
<1> HIDE DEF states, n
<1>12. states[0] \subseteq kept[0]
  BY <1>4, <1>6, <1>11
<1>13. ASSUME NEW i \in 1 .. n, states[i - 1] \subseteq kept[i - 1]
       PROVE  states[i] \subseteq kept[i]
  <2>1. states[i] = UNION {Reactivated(u, ids[i]) : u \in states[i - 1]}
    BY <1>10, <1>11
  <2>2. states[i - 1] \subseteq Y /\ kept[i] = Y
    BY <1>10, <1>13
  <2> QED
    BY <1>7, <2>1, <2>2
<1>14. states[n] \subseteq kept[n]
  <2> HIDE DEF kept
  <2> QED
    BY <1>4, <1>12, <1>13, LoopKeeps
<1>15. states[n] \subseteq Y
  BY <1>4, <1>14
<1> QED
  BY <1>5, <1>15 DEF Y

\* Between two states, the CRTCs that drove something still drive it, save
\* those of the devices D.
KeepsOutputsBut(s, t, D) ==
  \A c \in Surfaces(s) : t.conn[c] = s.conn[c] \/ Owner[c] \in D

\* What becomes of the surfaces of a device that comes or goes leaves the
\* other outputs as they were.
LEMMA UnlitRests ==
    ASSUME NEW s \in Rest({}), NEW d \in Device, NEW open \in SUBSET Device, NEW active \in SUBSET open,
           s.devices \ {d} \subseteq open, active \subseteq s.drm \union {d}
    PROVE  LET t == [Unlit(s, CrtcsOf(d)) EXCEPT !.devices = open, !.drm = active]
           IN /\ t \in Rest({}) /\ t.devices = open /\ t.drm = active
              /\ t.pending_devices = s.pending_devices
              /\ KeepsOutputsBut(s, t, {d})
<1> DEFINE t == [Unlit(s, CrtcsOf(d)) EXCEPT !.devices = open, !.drm = active]
           C == CrtcsOf(d)
           conn == [c \in Crtc |-> IF c \in C THEN None ELSE s.conn[c]]
           resize == [c \in Crtc |-> IF c \in C THEN "none" ELSE s.resize[c]]
<1>1. s \in Backend /\ Coherent(s) /\ Roused(s, {})
  BY DEF Rest
<1>2. conn \in [Crtc -> Connector \union {None}] /\ resize \in [Crtc -> Resize]
  BY <1>1 DEF Backend, Resize
<1>3. /\ t.conn = conn /\ t.devices = open /\ t.drm = active
      /\ t.pending_devices = s.pending_devices
      /\ t.flip_pending = s.flip_pending \ C /\ t.in_flight = s.in_flight \ C /\ t.idle = s.idle
      /\ t.resize = resize /\ t.copy = s.copy \ C /\ t.waiting = s.waiting
      /\ t.failed = s.failed \ C /\ t.lost = s.lost \ C
      /\ t.damaged = s.damaged \ C
      /\ t.slide = s.slide /\ t.was_sliding = s.was_sliding /\ t.wakeup = s.wakeup
  BY <1>1 DEF Unlit, Backend
<1>4. t \in Backend
  <2> HIDE DEF conn, resize, C
  <2> QED
    BY <1>1, <1>2 DEF Unlit, Backend, conn, resize, C
<1> HIDE DEF t
<1>5. \A c \in Surfaces(t) : c \in Surfaces(s) /\ c \in Crtc /\ Owner[c] # d /\ c \notin C
  BY <1>3 DEF Surfaces, CrtcsOf
<1>6. Coherent(t)
  BY <1>1, <1>3, <1>5 DEF Coherent
<1>7. ASSUME NEW e \in Live(t) \ (t.failed \union t.lost \union {}), Due(t, e)
      PROVE  e \in t.idle \union t.in_flight
  <2>1. e \in Surfaces(s) /\ e \in Crtc /\ Owner[e] # d /\ e \notin C /\ Owner[e] \in active
    BY <1>3, <1>5 DEF Live
  <2>2. e \in Live(s) /\ e \notin s.failed \union s.lost
    BY <1>3, <1>7, <2>1 DEF Live
  <2>3. t.resize[e] = s.resize[e]
    BY <1>3, <2>1
  <2>4. Due(s, e)
    BY <1>3, <1>7, <2>3 DEF Due
  <2> QED
    BY <1>1, <1>3, <2>1, <2>2, <2>4 DEF Roused
<1>8. t \in Rest({})
  BY <1>4, <1>6, <1>7 DEF Rest, Roused
<1>9. KeepsOutputsBut(s, t, {d})
  BY <1>3 DEF KeepsOutputsBut, Surfaces, CrtcsOf
<1> QED
  BY <1>3, <1>8, <1>9 DEF t

LEMMA InsertedRests ==
    ASSUME NEW s \in Rest({}), NEW d \in Device
    PROVE  LET t == Inserted(s, d)
           IN /\ t \in Rest({}) /\ t.devices = s.devices \union {d}
              /\ t.pending_devices = s.pending_devices
              /\ KeepsOutputsBut(s, t, {d})
<1> DEFINE open == s.devices \union {d}
           active == s.drm \union {d}
<1>1. s \in Backend /\ s.drm \subseteq s.devices /\ s.devices \subseteq Device
  BY DEF Rest, Coherent, Backend
<1>2. /\ open \in SUBSET Device /\ active \in SUBSET open
      /\ s.devices \ {d} \subseteq open /\ active \subseteq s.drm \union {d}
  BY <1>1
<1>3. Inserted(s, d) = [Unlit(s, CrtcsOf(d)) EXCEPT !.devices = open, !.drm = active]
  <2>1. Unlit(s, CrtcsOf(d)).devices = s.devices /\ Unlit(s, CrtcsOf(d)).drm = s.drm
    BY <1>1 DEF Unlit, Backend
  <2> QED
    BY <2>1 DEF Inserted
<1> HIDE DEF open, active
<1> DEFINE t == [Unlit(s, CrtcsOf(d)) EXCEPT !.devices = open, !.drm = active]
<1>4. /\ t \in Rest({}) /\ t.devices = open /\ t.drm = active
      /\ t.pending_devices = s.pending_devices
      /\ KeepsOutputsBut(s, t, {d})
  BY <1>2, UnlitRests
<1> HIDE DEF t
<1>5. t = Inserted(s, d)
  BY <1>3 DEF t
<1> QED
  BY <1>4, <1>5 DEF open

LEMMA OpenedRests ==
    ASSUME NEW s \in Rest({}), NEW d \in Device, NEW t \in Opened(s, d)
    PROVE  /\ t \in Rest({}) /\ t.devices = s.devices \union {d}
           /\ t.pending_devices = s.pending_devices
           /\ KeepsOutputsBut(s, t, {d})
<1> DEFINE u == Inserted(s, d)
<1>1. t \in Scanned(u, d)
  BY DEF Opened
<1>2. /\ u \in Rest({}) /\ u.devices = s.devices \union {d}
      /\ u.pending_devices = s.pending_devices
      /\ KeepsOutputsBut(s, u, {d})
  BY InsertedRests
<1> HIDE DEF u
<1>3. t \in Rest({}) /\ KeepsOutputs(u, t)
  BY <1>1, <1>2, ScannedRests
<1>4. ASSUME NEW c \in Surfaces(s), Owner[c] # d
      PROVE  t.conn[c] = s.conn[c]
  <2>1. u.conn[c] = s.conn[c] /\ c \in Surfaces(u)
    BY <1>2, <1>4 DEF KeepsOutputsBut, Surfaces
  <2> QED
    BY <1>3, <2>1 DEF KeepsOutputs
<1> QED
  BY <1>2, <1>3, <1>4 DEF KeepsOutputs, KeepsOutputsBut

LEMMA RetriedRests ==
    ASSUME NEW s \in Rest({}), s.devices \subseteq present, NEW d \in Device, NEW t \in Retried(s, d)
    PROVE  /\ t \in Rest({}) /\ t.devices \subseteq present
           /\ t.pending_devices = s.pending_devices
           /\ KeepsOutputsBut(s, t, {d})
<1>1. CASE t = s
  BY <1>1 DEF KeepsOutputsBut
<1>2. CASE d \in present /\ t \in Opened(s, d)
  <2>1. /\ t \in Rest({}) /\ t.devices = s.devices \union {d}
        /\ t.pending_devices = s.pending_devices
        /\ KeepsOutputsBut(s, t, {d})
    BY <1>2, OpenedRests
  <2> QED
    BY <1>2, <2>1
<1>3. CASE d \in present /\ t = Inserted(s, d)
  BY <1>3, InsertedRests
<1> QED
  BY <1>1, <1>2, <1>3 DEF Retried

\* The list of devices set aside has no part in this.
LEMMA SetAsideRests ==
    ASSUME NEW s \in Rest({}), NEW ids \in Seq(Device)
    PROVE  LET t == [s EXCEPT !.pending_devices = ids]
           IN t \in Rest({}) /\ t.pending_devices = ids /\ t.conn = s.conn /\ t.devices = s.devices
<1> DEFINE t == [s EXCEPT !.pending_devices = ids]
<1>1. s \in Backend /\ Coherent(s) /\ Roused(s, {})
  BY DEF Rest
<1>2. /\ t \in Backend /\ t.pending_devices = ids /\ t.conn = s.conn /\ t.devices = s.devices
      /\ t.drm = s.drm /\ t.flip_pending = s.flip_pending /\ t.in_flight = s.in_flight
      /\ t.idle = s.idle /\ t.resize = s.resize /\ t.copy = s.copy /\ t.waiting = s.waiting
      /\ t.failed = s.failed /\ t.lost = s.lost /\ t.damaged = s.damaged /\ t.slide = s.slide
      /\ t.was_sliding = s.was_sliding /\ t.wakeup = s.wakeup
  BY <1>1 DEF Backend
<1> HIDE DEF t
<1>3. Coherent(t)
  BY <1>1, <1>2 DEF Coherent, Surfaces
<1>4. Roused(t, {})
  BY <1>1, <1>2 DEF Roused, Live, Surfaces, Due
<1>5. t \in Rest({})
  BY <1>2, <1>3, <1>4 DEF Rest
<1> QED
  BY <1>2, <1>5 DEF t

\* A resume, of the open devices and of those set aside.
LEMMA ResumedRests ==
    ASSUME NEW s \in Rest({}), s.devices \subseteq present, NEW t \in Resumed(s)
    PROVE  /\ t \in Rest({}) /\ t.devices \subseteq present
           /\ t.pending_devices = <<>>
           /\ KeepsOutputsBut(s, t, Range(s.pending_devices))
<1> DEFINE pending == s.pending_devices
           n == Len(pending)
           woken == UNION {Woken(s, ids) : ids \in SetToSeqs(s.devices)}
           emptied == {[u EXCEPT !.pending_devices = <<>>] : u \in woken}
           Y == {u \in Rest({}) : /\ u.devices \subseteq present /\ u.pending_devices = <<>>
                                  /\ KeepsOutputsBut(s, u, Range(pending))}
           next == [i \in 1 .. n |-> [u \in Y |-> Retried(u, pending[i])]]
           kept == [i \in 0 .. n |-> Y]
           states[i \in 0 .. Len(s.pending_devices)] ==
             IF i = 0 THEN {[u EXCEPT !.pending_devices = <<>>] : u \in woken}
             ELSE UNION {Retried(u, s.pending_devices[i]) : u \in states[i - 1]}
<1>1. pending \in Seq(Device)
  BY DEF Rest, Backend
<1>2. t \in states[n]
  BY DEF Resumed
<1>3. n \in Nat /\ \A i \in 1 .. n : pending[i] \in Device /\ pending[i] \in Range(pending)
  BY <1>1 DEF Range
<1>4. emptied \subseteq Y
  <2> SUFFICES ASSUME NEW u \in woken
               PROVE  [u EXCEPT !.pending_devices = <<>>] \in Y
    OBVIOUS
  <2> DEFINE v == [u EXCEPT !.pending_devices = <<>>]
  <2>1. PICK ids \in SetToSeqs(s.devices) : u \in Woken(s, ids)
    BY Zenon
  <2>2. u \in Rest({}) /\ KeepsOutputs(s, u)
    BY <2>1, WokenRests
  <2> HIDE DEF woken
  <2>3. <<>> \in Seq(Device)
    OBVIOUS
  <2>4. v \in Rest({}) /\ v.pending_devices = <<>> /\ v.conn = u.conn /\ v.devices = u.devices
    BY <2>2, <2>3, SetAsideRests
  <2> HIDE DEF v
  <2>7. v.devices \subseteq present
    BY <2>2, <2>4 DEF KeepsOutputs
  <2>8. KeepsOutputsBut(s, v, Range(pending))
    BY <2>2, <2>4 DEF KeepsOutputs, KeepsOutputsBut
  <2>9. v \in Y
    BY <2>4, <2>7, <2>8
  <2> QED
    BY <2>9 DEF v
<1>5. ASSUME NEW i \in 1 .. n, NEW u \in Y
      PROVE  Retried(u, pending[i]) \subseteq Y
  <2> DEFINE d == pending[i]
  <2>1. d \in Device /\ d \in Range(pending)
    BY <1>3
  <2> HIDE DEF d
  <2>2. ASSUME NEW v \in Retried(u, d)
        PROVE  v \in Y
    <3>1. u \in Rest({}) /\ u.devices \subseteq present /\ u.pending_devices = <<>>
          /\ KeepsOutputsBut(s, u, Range(pending))
      OBVIOUS
    <3>2. /\ v \in Rest({}) /\ v.devices \subseteq present
          /\ v.pending_devices = u.pending_devices
          /\ KeepsOutputsBut(u, v, {d})
      BY <2>1, <3>1, RetriedRests
    <3>3. ASSUME NEW c \in Surfaces(s), Owner[c] \notin Range(pending)
          PROVE  v.conn[c] = s.conn[c]
      <4>1. u.conn[c] = s.conn[c] /\ c \in Surfaces(u) /\ Owner[c] # d
        BY <2>1, <3>1, <3>3 DEF KeepsOutputsBut, Surfaces
      <4> QED
        BY <3>2, <4>1 DEF KeepsOutputsBut
    <3>4. KeepsOutputsBut(s, v, Range(pending))
      BY <3>3 DEF KeepsOutputsBut
    <3> QED
      BY <3>1, <3>2, <3>4
  <2>3. Retried(u, d) \subseteq Y
    BY <2>2
  <2> QED
    BY <2>3 DEF d
<1>6. \A i \in 1 .. n : \A u \in Y : next[i][u] = Retried(u, pending[i])
  OBVIOUS
<1>7. next \in [1 .. n -> [Y -> SUBSET Y]]
  BY <1>5
<1>8. \A i \in 1 .. n : i \in 0 .. n /\ i - 1 \in 0 .. n /\ i # 0
  BY <1>3
<1> HIDE DEF Y, next, woken
<1>9. states = [i \in 0 .. n |-> IF i = 0 THEN emptied ELSE UNION {Retried(u, pending[i]) : u \in states[i - 1]}]
  <2>1. PICK f \in [0 .. n -> SUBSET Y] : Branches(f, n, emptied, next)
    <3>1. emptied \in SUBSET Y
      BY <1>4
    <3> HIDE DEF n, states, emptied
    <3> QED
      BY <1>3, <1>7, <3>1, LoopOfSets
  <2>2. ASSUME NEW i \in 1 .. n
        PROVE  UNION {next[i][u] : u \in f[i - 1]} = UNION {Retried(u, pending[i]) : u \in f[i - 1]}
    <3>1. f[i - 1] \subseteq Y
      BY <1>8, <2>1
    <3> QED
      BY <1>6, <3>1
  <2>3. \A i \in 0 .. n : i # 0 => i \in 1 .. n
    BY <1>3
  <2>4. f = [i \in 0 .. n |-> IF i = 0 THEN emptied ELSE UNION {Retried(u, pending[i]) : u \in f[i - 1]}]
    BY <2>1, <2>2, <2>3 DEF Branches
  <2> QED
    BY <2>4
<1> HIDE DEF states, n, emptied
<1>10. states[0] \subseteq kept[0]
  BY <1>3, <1>4, <1>9
<1>11. ASSUME NEW i \in 1 .. n, states[i - 1] \subseteq kept[i - 1]
       PROVE  states[i] \subseteq kept[i]
  <2>1. states[i] = UNION {Retried(u, pending[i]) : u \in states[i - 1]}
    BY <1>8, <1>9
  <2>2. states[i - 1] \subseteq Y /\ kept[i] = Y
    BY <1>8, <1>11
  <2> QED
    BY <1>5, <2>1, <2>2
<1>12. states[n] \subseteq kept[n]
  <2> HIDE DEF kept
  <2> QED
    BY <1>3, <1>10, <1>11, LoopKeeps
<1>13. states[n] \subseteq Y
  BY <1>3, <1>12
<1> QED
  BY <1>2, <1>13 DEF Y

-----------------------------------------------------------------------------
(* The inductive invariant.                                                *)

FramesInv ==
  /\ backend \in Rest({})
  /\ Len(backend.pending_devices) <= MaxDeferred
  /\ backend.devices \subseteq present
  /\ present \in SUBSET Device /\ plugged \in SUBSET Connector

\* What OutputsKept says of a step.
OutputsStay ==
  \A c \in Surfaces(backend) :
    \/ backend'.conn[c] = backend.conn[c]
    \/ Owner[c] \notin present'
    \/ Owner[c] \in Range(backend.pending_devices)

LEMMA InitRests == Init => FramesInv
<1> SUFFICES ASSUME Init PROVE FramesInv
  OBVIOUS
<1>1. PICK ids \in SetToSeqs(Device) :
        backend = [ session |-> FALSE, devices |-> {}, drm |-> {}, pending_devices |-> ids,
                    conn |-> [c \in Crtc |-> None], flip_pending |-> {}, in_flight |-> {}, lost |-> {},
                    queued |-> {}, damaged |-> {}, idle |-> {}, copy |-> {}, failed |-> {},
                    resize |-> [c \in Crtc |-> "none"], gate |-> None, slide |-> "none",
                    was_sliding |-> FALSE, wakeup |-> 0, waiting |-> FALSE ]
  BY DEF Init
<1>2. ids \in Seq(Device) /\ Len(ids) = Cardinality(Device)
  BY FramesAssumption, Listing
<1>3. [c \in Crtc |-> None] \in [Crtc -> Connector \union {None}] /\ [c \in Crtc |-> "none"] \in [Crtc -> Resize]
  BY DEF Resize
<1>4. backend \in Backend
  BY <1>1, <1>2, <1>3, FramesAssumption DEF Backend
<1>5. backend.devices = {} /\ backend.drm = {} /\ backend.flip_pending = {} /\ backend.pending_devices = ids
      /\ \A c \in Crtc : backend.conn[c] = None
  BY <1>1
<1>6. Surfaces(backend) = {} /\ Live(backend) = {}
  BY <1>5 DEF Surfaces, Live
<1>7. backend \in Rest({})
  BY <1>4, <1>5, <1>6 DEF Rest, Coherent, Roused
<1>8. plugged \in SUBSET Connector
  BY FramesAssumption DEF Init
<1>9. Len(backend.pending_devices) <= MaxDeferred
  BY <1>2, <1>5, FramesAssumption
<1> QED
  BY <1>5, <1>7, <1>8, <1>9 DEF FramesInv, Init

\* A step that leaves the devices and the surfaces alone.
LEMMA OutputsUntouched ==
    ASSUME FramesInv, backend' \in Rest({}), SameOutputs(backend, backend'), UNCHANGED <<present, plugged>>
    PROVE  FramesInv' /\ OutputsStay
BY DEF FramesInv, OutputsStay, SameOutputs

\* schedule_render skips an output whose flip is pending, which VBlank will
\* render, and those that are not live.
LEMMA IdleRests ==
    ASSUME FramesInv, NEW c \in Crtc, Idle(c)
    PROVE  FramesInv' /\ OutputsStay
<1> DEFINE s == [backend EXCEPT !.idle = @ \ {c}]
<1>1. backend \in Backend /\ Coherent(backend) /\ Roused(backend, {})
  BY DEF FramesInv, Rest
<1>2. /\ s \in Backend /\ SameOutputs(backend, s) /\ s.idle = backend.idle \ {c}
      /\ s.flip_pending = backend.flip_pending /\ s.in_flight = backend.in_flight
      /\ s.resize = backend.resize /\ s.copy = backend.copy /\ s.waiting = backend.waiting
      /\ s.failed = backend.failed /\ s.damaged = backend.damaged /\ s.slide = backend.slide
      /\ s.was_sliding = backend.was_sliding /\ s.wakeup = backend.wakeup
  BY <1>1 DEF Backend, SameOutputs
<1>3. backend' \in (IF c \in Live(s) \ s.flip_pending THEN OnVblank(s, c) ELSE {s})
      /\ UNCHANGED <<present, plugged>>
  BY DEF Idle
<1> HIDE DEF s
<1>4. Surfaces(s) = Surfaces(backend) /\ Live(s) = Live(backend) /\ s.lost = backend.lost
  BY <1>2, SameSurfaces
<1>5. Coherent(s)
  BY <1>1, <1>2, <1>4 DEF Coherent, SameOutputs
<1>6. ASSUME NEW e \in Live(s) \ (s.failed \union s.lost), e # c, Due(s, e)
      PROVE  e \in s.idle \union s.in_flight
  <2>1. Due(backend, e)
    BY <1>2, <1>6 DEF Due
  <2> QED
    BY <1>1, <1>2, <1>4, <1>6, <2>1 DEF Roused
<1>7. s \in Rest({c})
  BY <1>2, <1>5, <1>6 DEF Rest, Roused
<1>8. CASE c \in Live(s) \ s.flip_pending
  <2>1. backend' \in Rest({c} \ {c}) /\ SameOutputs(s, backend')
    BY <1>3, <1>7, <1>8, OnVblankRests
  <2>2. {c} \ {c} = {}
    OBVIOUS
  <2>3. backend' \in Rest({}) /\ SameOutputs(backend, backend')
    BY <1>2, <2>1, <2>2 DEF SameOutputs
  <2> QED
    BY <1>3, <2>3, OutputsUntouched
<1>9. CASE c \notin Live(s) \ s.flip_pending
  <2>1. s \in Rest({})
    BY <1>2, <1>5, <1>6, <1>9 DEF Rest, Roused, Coherent
  <2>2. backend' = s
    BY <1>3, <1>9
  <2> QED
    BY <1>2, <1>3, <2>1, <2>2, OutputsUntouched
<1> QED
  BY <1>8, <1>9

\* A flip that completes may have been what an output was waiting for.
LEMMA VBlankRests ==
    ASSUME FramesInv, NEW c \in Crtc, VBlank(c)
    PROVE  FramesInv' /\ OutputsStay
<1> DEFINE s == Submitted(backend, c)
<1>1. backend \in Backend /\ Coherent(backend) /\ Roused(backend, {})
  BY DEF FramesInv, Rest
<1>2. /\ s \in Backend /\ SameOutputs(backend, s) /\ s.idle = backend.idle
      /\ s.flip_pending = backend.flip_pending \ {c}
      /\ \A e \in backend.in_flight : e # c => e \in s.in_flight
      /\ s.resize = backend.resize /\ s.copy = backend.copy /\ s.waiting = backend.waiting
      /\ s.failed = backend.failed /\ s.damaged = backend.damaged /\ s.slide = backend.slide
      /\ s.was_sliding = backend.was_sliding /\ s.wakeup = backend.wakeup
  BY <1>1 DEF Submitted, Backend, SameOutputs
<1>3. backend' \in OnVblank(s, c) /\ UNCHANGED <<present, plugged>>
  BY DEF VBlank
<1> HIDE DEF s
<1>4. Surfaces(s) = Surfaces(backend) /\ Live(s) = Live(backend) /\ s.lost = backend.lost
  BY <1>2, SameSurfaces
<1>5. Coherent(s)
  BY <1>1, <1>2, <1>4 DEF Coherent, SameOutputs
<1>6. ASSUME NEW e \in Live(s) \ (s.failed \union s.lost), e # c, Due(s, e)
      PROVE  e \in s.idle \union s.in_flight
  <2>1. Due(backend, e)
    BY <1>2, <1>6 DEF Due
  <2> QED
    BY <1>1, <1>2, <1>4, <1>6, <2>1 DEF Roused
<1>7. s \in Rest({c})
  BY <1>2, <1>5, <1>6 DEF Rest, Roused
<1>8. backend' \in Rest({c} \ {c}) /\ SameOutputs(s, backend')
  BY <1>3, <1>7, OnVblankRests
<1>9. {c} \ {c} = {}
  OBVIOUS
<1>10. backend' \in Rest({}) /\ SameOutputs(backend, backend')
  BY <1>2, <1>8, <1>9 DEF SameOutputs
<1> QED
  BY <1>3, <1>10, OutputsUntouched

\* Whoever changes what an output shows calls schedule_render.
LEMMA ChangeRests ==
    ASSUME FramesInv, NEW s \in Backend, SameOutputs(backend, s),
           s.flip_pending = backend.flip_pending, s.in_flight = backend.in_flight,
           backend' = Scheduled(s), UNCHANGED <<present, plugged>>
    PROVE  FramesInv' /\ OutputsStay
<1>1. Coherent(s)
  BY SameSurfaces DEF FramesInv, Rest, Coherent, SameOutputs
<1>2. Scheduled(s) \in Rest({}) /\ SameOutputs(s, Scheduled(s))
  BY <1>1, ScheduledRests
<1>3. backend' \in Rest({}) /\ SameOutputs(backend, backend')
  BY <1>2 DEF SameOutputs
<1> QED
  BY <1>3, OutputsUntouched

LEMMA CommitRests ==
    ASSUME FramesInv, NEW C \in SUBSET Surfaces(backend), Commit(C)
    PROVE  FramesInv' /\ OutputsStay
<1> DEFINE s == [backend EXCEPT !.waiting = TRUE, !.damaged = @ \union C]
<1>1. backend \in Backend /\ C \in SUBSET Crtc
  BY DEF FramesInv, Rest, Surfaces
<1>2. /\ s \in Backend /\ SameOutputs(backend, s)
      /\ s.flip_pending = backend.flip_pending /\ s.in_flight = backend.in_flight
  BY <1>1 DEF Backend, SameOutputs
<1>3. backend' = Scheduled(s) /\ UNCHANGED <<present, plugged>>
  BY DEF Commit
<1> HIDE DEF s
<1> QED
  BY <1>2, <1>3, ChangeRests

LEMMA ArrangeRests ==
    ASSUME FramesInv, NEW c \in Surfaces(backend), NEW resize \in Resizes, NEW slides \in BOOLEAN,
           Arrange(c, resize, slides)
    PROVE  FramesInv' /\ OutputsStay
<1> DEFINE slide == IF slides THEN "running" ELSE backend.slide
           sizes == [backend.resize EXCEPT ![c] = resize]
           s == [backend EXCEPT !.resize[c] = resize, !.damaged = @ \union {c},
                                !.slide = IF slides THEN "running" ELSE @]
<1>1. backend \in Backend /\ c \in Crtc
  BY DEF FramesInv, Rest, Surfaces
<1>2. slide \in {"none", "running", "elapsed"} /\ sizes \in [Crtc -> Resize]
  BY <1>1, FramesAssumption DEF Backend, Resize
<1>3. s = [backend EXCEPT !.resize = sizes, !.damaged = backend.damaged \union {c}, !.slide = slide]
  OBVIOUS
<1>4. backend' = Scheduled(s) /\ UNCHANGED <<present, plugged>>
  BY DEF Arrange
<1> HIDE DEF s, slide, sizes
<1>5. /\ s \in Backend /\ SameOutputs(backend, s)
      /\ s.flip_pending = backend.flip_pending /\ s.in_flight = backend.in_flight
  BY <1>1, <1>2, <1>3 DEF Backend, SameOutputs
<1> QED
  BY <1>4, <1>5, ChangeRests

LEMMA ClientAnswersRests ==
    ASSUME FramesInv, NEW c \in Surfaces(backend), ClientAnswers(c)
    PROVE  FramesInv' /\ OutputsStay
<1> DEFINE sizes == [backend.resize EXCEPT ![c] = "none"]
           s == [backend EXCEPT !.resize[c] = "none", !.damaged = @ \union {c}]
<1>1. backend \in Backend /\ c \in Crtc
  BY DEF FramesInv, Rest, Surfaces
<1>2. sizes \in [Crtc -> Resize]
  BY <1>1 DEF Backend, Resize
<1>3. s = [backend EXCEPT !.resize = sizes, !.damaged = backend.damaged \union {c}]
  OBVIOUS
<1>4. backend' = Scheduled(s) /\ UNCHANGED <<present, plugged>>
  BY DEF ClientAnswers
<1> HIDE DEF s, sizes
<1>5. /\ s \in Backend /\ SameOutputs(backend, s)
      /\ s.flip_pending = backend.flip_pending /\ s.in_flight = backend.in_flight
  BY <1>1, <1>2, <1>3 DEF Backend, SameOutputs
<1> QED
  BY <1>4, <1>5, ChangeRests

LEMMA CopyRests ==
    ASSUME FramesInv, NEW c \in Surfaces(backend), Copy(c)
    PROVE  FramesInv' /\ OutputsStay
<1> DEFINE s == [backend EXCEPT !.copy = @ \union {c}]
<1>1. backend \in Backend /\ c \in Crtc
  BY DEF FramesInv, Rest, Surfaces
<1>2. /\ s \in Backend /\ SameOutputs(backend, s)
      /\ s.flip_pending = backend.flip_pending /\ s.in_flight = backend.in_flight
  BY <1>1 DEF Backend, SameOutputs
<1>3. backend' = Scheduled(s) /\ UNCHANGED <<present, plugged>>
  BY DEF Copy
<1> HIDE DEF s
<1> QED
  BY <1>2, <1>3, ChangeRests

LEMMA CopyDestroyedRests ==
    ASSUME FramesInv, NEW c \in Surfaces(backend), CopyDestroyed(c)
    PROVE  FramesInv' /\ OutputsStay
<1>1. backend \in Rest({}) /\ c \in Crtc
  BY DEF FramesInv, Surfaces
<1>2. backend' = Copied(backend, c) /\ UNCHANGED <<present, plugged>>
  BY DEF CopyDestroyed, Copied
<1>3. backend' \in Rest({}) /\ SameOutputs(backend, backend')
  BY <1>1, <1>2, CopiedRests
<1> QED
  BY <1>2, <1>3, OutputsUntouched

\* A slide that has reached its end is still a reason to render.
LEMMA TickRests ==
    ASSUME FramesInv, Tick
    PROVE  FramesInv' /\ OutputsStay
<1> DEFINE gate == CASE backend.gate = "fresh" -> "late" [] backend.gate = "late" -> "expired" [] OTHER -> backend.gate
           slide == IF backend.slide = "running" THEN "elapsed" ELSE backend.slide
<1>1. backend \in Backend /\ Coherent(backend) /\ Roused(backend, {})
  BY DEF FramesInv, Rest
<1>2. gate \in Age \union {None}
  BY <1>1 DEF Backend, Age
<1>3. slide \in {"none", "running", "elapsed"} /\ (slide # "none" => backend.slide # "none")
  BY <1>1 DEF Backend
<1>4. backend' = [backend EXCEPT !.gate = gate, !.slide = slide] /\ UNCHANGED <<present, plugged>>
  BY DEF Tick
<1> HIDE DEF gate, slide
<1>5. /\ backend' \in Backend /\ SameOutputs(backend, backend') /\ backend'.idle = backend.idle
      /\ backend'.flip_pending = backend.flip_pending /\ backend'.in_flight = backend.in_flight
      /\ backend'.resize = backend.resize /\ backend'.copy = backend.copy
      /\ backend'.waiting = backend.waiting /\ backend'.failed = backend.failed
      /\ backend'.damaged = backend.damaged /\ backend'.slide = slide
      /\ backend'.was_sliding = backend.was_sliding /\ backend'.wakeup = backend.wakeup
  BY <1>1, <1>2, <1>3, <1>4 DEF Backend, SameOutputs
<1>6. Surfaces(backend') = Surfaces(backend) /\ Live(backend') = Live(backend) /\ backend'.lost = backend.lost
  BY <1>5, SameSurfaces
<1>7. Coherent(backend')
  BY <1>1, <1>5, <1>6 DEF Coherent, SameOutputs
<1>8. \A e \in Live(backend') : Due(backend', e) => Due(backend, e)
  BY <1>3, <1>5 DEF Due
<1>9. backend' \in Rest({})
  BY <1>1, <1>5, <1>6, <1>7, <1>8 DEF Rest, Roused
<1> QED
  BY <1>4, <1>5, <1>9, OutputsUntouched

\* Nothing is live while the session is paused ...
LEMMA PauseSessionRests ==
    ASSUME FramesInv, PauseSession
    PROVE  FramesInv' /\ OutputsStay
<1>1. backend \in Backend /\ Coherent(backend)
  BY DEF FramesInv, Rest
<1>2. /\ backend' \in Backend /\ backend'.conn = backend.conn /\ backend'.devices = backend.devices
      /\ backend'.pending_devices = backend.pending_devices /\ backend'.drm = {}
      /\ backend'.flip_pending = backend.flip_pending /\ backend'.in_flight = backend.in_flight
      /\ UNCHANGED <<present, plugged>>
  BY <1>1 DEF PauseSession, Backend
<1>3. Surfaces(backend') = Surfaces(backend) /\ Live(backend') = {}
  BY <1>2 DEF Surfaces, Live
<1>4. backend' \in Rest({})
  BY <1>1, <1>2, <1>3 DEF Rest, Coherent, Roused
<1> QED
  BY <1>2, <1>4 DEF FramesInv, OutputsStay

\* ... and whatever happened meanwhile is made up for at its end.
LEMMA ResumeStep ==
    ASSUME FramesInv, NEW s \in Rest({}), SameOutputs(backend, s), backend' \in Resumed(s),
           UNCHANGED <<present, plugged>>
    PROVE  FramesInv' /\ OutputsStay
<1>1. s.devices \subseteq present /\ Surfaces(s) = Surfaces(backend)
  BY SameSurfaces DEF FramesInv, SameOutputs
<1> DEFINE t == backend'
<1>2. t \in Resumed(s)
  OBVIOUS
<1> HIDE DEF t
<1>3. /\ t \in Rest({}) /\ t.devices \subseteq present
      /\ t.pending_devices = <<>>
      /\ KeepsOutputsBut(s, t, Range(s.pending_devices))
  BY <1>1, <1>2, ResumedRests
<1>4. Len(t.pending_devices) <= MaxDeferred
  BY <1>3, FramesAssumption
<1>5. OutputsStay
  BY <1>1, <1>3 DEF OutputsStay, KeepsOutputsBut, SameOutputs, t
<1> QED
  BY <1>3, <1>4, <1>5 DEF FramesInv, t

LEMMA ActivateSessionRests ==
    ASSUME FramesInv, ActivateSession
    PROVE  FramesInv' /\ OutputsStay
<1> DEFINE s == [backend EXCEPT !.session = TRUE]
<1>1. backend \in Backend /\ Coherent(backend) /\ Roused(backend, {})
  BY DEF FramesInv, Rest
<1>2. /\ s \in Backend /\ SameOutputs(backend, s) /\ s.idle = backend.idle
      /\ s.flip_pending = backend.flip_pending /\ s.in_flight = backend.in_flight
      /\ s.resize = backend.resize /\ s.copy = backend.copy /\ s.waiting = backend.waiting
      /\ s.failed = backend.failed /\ s.damaged = backend.damaged /\ s.slide = backend.slide
      /\ s.was_sliding = backend.was_sliding /\ s.wakeup = backend.wakeup
  BY <1>1 DEF Backend, SameOutputs
<1>3. backend' \in Resumed(s) /\ UNCHANGED <<present, plugged>>
  BY DEF ActivateSession
<1> HIDE DEF s
<1>4. Surfaces(s) = Surfaces(backend) /\ Live(s) = Live(backend) /\ s.lost = backend.lost
  BY <1>2, SameSurfaces
<1>5. s \in Rest({})
  BY <1>1, <1>2, <1>4 DEF Rest, Coherent, Roused, Due, SameOutputs
<1> QED
  BY <1>2, <1>3, <1>5, ResumeStep

LEMMA IpcResumeRests ==
    ASSUME FramesInv, IpcResume
    PROVE  FramesInv' /\ OutputsStay
<1>1. backend \in Rest({}) /\ SameOutputs(backend, backend)
  BY DEF FramesInv, SameOutputs
<1> QED
  BY <1>1, ResumeStep DEF IpcResume

\* A device that was not there has no outputs yet.
LEMMA DeviceAddedRests ==
    ASSUME FramesInv, NEW d \in Device, DeviceAdded(d)
    PROVE  FramesInv' /\ OutputsStay
<1>1. backend \in Rest({}) /\ backend \in Backend /\ Coherent(backend)
  BY DEF FramesInv, Rest
<1>2. d \notin present /\ present' = present \union {d} /\ plugged' = plugged
  BY DEF DeviceAdded
<1>3. \A c \in Surfaces(backend) : Owner[c] # d
  BY <1>1, <1>2 DEF FramesInv, Coherent
<1> DEFINE t == backend'
<1>4. ASSUME Len(backend.pending_devices) < MaxDeferred,
             NEW s \in {backend, Inserted(backend, d)},
             t = [s EXCEPT !.pending_devices = Append(s.pending_devices, d)]
      PROVE  FramesInv' /\ OutputsStay
  <2> HIDE DEF t
  <2>1. /\ s \in Rest({}) /\ s.devices \subseteq present \union {d}
        /\ s.pending_devices = backend.pending_devices
        /\ KeepsOutputsBut(backend, s, {d})
    <3>1. CASE s = backend
      BY <1>1, <3>1 DEF FramesInv, KeepsOutputsBut
    <3>2. CASE s = Inserted(backend, d)
      <4>1. /\ s \in Rest({}) /\ s.devices = backend.devices \union {d}
            /\ s.pending_devices = backend.pending_devices
            /\ KeepsOutputsBut(backend, s, {d})
        BY <1>1, <3>2, InsertedRests
      <4> QED
        BY <4>1 DEF FramesInv
    <3> QED
      BY <3>1, <3>2
  <2> DEFINE ids == Append(s.pending_devices, d)
  <2>2. s.pending_devices \in Seq(Device) /\ Len(s.pending_devices) < MaxDeferred
    BY <1>1, <1>4, <2>1 DEF Backend
  <2>3. ids \in Seq(Device) /\ Len(ids) <= MaxDeferred
    BY <2>2, FramesAssumption
  <2>4. t = [s EXCEPT !.pending_devices = ids]
    BY <1>4
  <2> HIDE DEF ids
  <2>5. t \in Rest({}) /\ t.pending_devices = ids /\ t.conn = s.conn /\ t.devices = s.devices
    BY <2>1, <2>3, <2>4, SetAsideRests
  <2>6. OutputsStay
    BY <1>3, <2>1, <2>5 DEF OutputsStay, KeepsOutputsBut, t
  <2> QED
    BY <1>2, <2>1, <2>3, <2>5, <2>6 DEF FramesInv, t
<1>5. ASSUME t \in Opened(backend, d)
      PROVE  FramesInv' /\ OutputsStay
  <2> HIDE DEF t
  <2>1. /\ t \in Rest({}) /\ t.devices = backend.devices \union {d}
        /\ t.pending_devices = backend.pending_devices
        /\ KeepsOutputsBut(backend, t, {d})
    BY <1>1, <1>5, OpenedRests
  <2>2. OutputsStay
    BY <1>3, <2>1 DEF OutputsStay, KeepsOutputsBut, t
  <2> QED
    BY <1>2, <2>1, <2>2 DEF FramesInv, t
<1> QED
  BY <1>4, <1>5 DEF DeviceAdded

\* The outputs of a device go with it.
LEMMA DeviceRemovedRests ==
    ASSUME FramesInv, NEW d \in Device, DeviceRemoved(d)
    PROVE  FramesInv' /\ OutputsStay
<1> DEFINE open == backend.devices \ {d}
           active == backend.drm \ {d}
           s == [Unlit(backend, CrtcsOf(d)) EXCEPT !.devices = open, !.drm = active]
<1>1. backend \in Rest({}) /\ backend \in Backend /\ Coherent(backend)
  BY DEF FramesInv, Rest
<1>2. /\ open \in SUBSET Device /\ active \in SUBSET open
      /\ backend.devices \ {d} \subseteq open /\ active \subseteq backend.drm \union {d}
  BY <1>1 DEF Backend, Coherent
<1>3. Unlit(backend, CrtcsOf(d)).devices = backend.devices /\ Unlit(backend, CrtcsOf(d)).drm = backend.drm
  BY <1>1 DEF Unlit, Backend
<1>4. /\ present' = present \ {d} /\ plugged' = plugged
      /\ backend' = Scheduled(s) \/ backend' = s
  BY <1>3 DEF DeviceRemoved
<1>5. open \subseteq present'
  BY <1>4 DEF FramesInv
<1> HIDE DEF open, active
<1>6. /\ s \in Rest({}) /\ s.devices = open /\ s.drm = active
      /\ s.pending_devices = backend.pending_devices
      /\ KeepsOutputsBut(backend, s, {d})
  BY <1>1, <1>2, UnlitRests
<1> HIDE DEF s
<1>7. s \in Backend /\ Coherent(s)
  BY <1>6 DEF Rest
<1>8. backend' \in Rest({}) /\ SameOutputs(s, backend')
  <2>1. CASE backend' = s
    BY <1>6, <2>1 DEF SameOutputs
  <2>2. CASE backend' = Scheduled(s)
    BY <1>7, <2>2, ScheduledRests
  <2> QED
    BY <1>4, <2>1, <2>2
<1>9. OutputsStay
  BY <1>4, <1>6, <1>8 DEF OutputsStay, KeepsOutputsBut, SameOutputs
<1> QED
  BY <1>4, <1>5, <1>6, <1>8, <1>9 DEF FramesInv, SameOutputs

LEMMA DeviceChangedRests ==
    ASSUME FramesInv, NEW d \in Device, DeviceChanged(d)
    PROVE  FramesInv' /\ OutputsStay
<1>1. backend \in Rest({})
  BY DEF FramesInv
<1>2. backend' \in Rest({}) /\ KeepsOutputs(backend, backend')
  BY <1>1, ScannedRests DEF DeviceChanged
<1> QED
  BY <1>2 DEF FramesInv, OutputsStay, KeepsOutputs, DeviceChanged

LEMMA PlugRests ==
    ASSUME FramesInv, NEW k \in Removable, Plug(k)
    PROVE  FramesInv' /\ OutputsStay
BY FramesAssumption DEF FramesInv, OutputsStay, Plug

LEMMA StepRests ==
    ASSUME FramesInv, [Next]_vars
    PROVE  FramesInv' /\ OutputsStay
<1>1. CASE UNCHANGED vars
  BY <1>1 DEF vars, FramesInv, OutputsStay
<1>2. CASE Next
  <2>1. CASE \E c \in Crtc : Idle(c) \/ VBlank(c)
    BY <2>1, IdleRests, VBlankRests
  <2>2. CASE \E C \in SUBSET Surfaces(backend) : Commit(C)
    BY <2>2, CommitRests
  <2>3. CASE \E c \in Surfaces(backend) \intersect Tiled, resize \in Resizes, slides \in BOOLEAN :
               Arrange(c, resize, slides)
    BY <2>3, ArrangeRests
  <2>4. CASE \E c \in Surfaces(backend) : ClientAnswers(c)
    BY <2>4, ClientAnswersRests
  <2>5. CASE \E c \in Surfaces(backend) \intersect Captured : Copy(c) \/ CopyDestroyed(c)
    BY <2>5, CopyRests, CopyDestroyedRests
  <2>6. CASE Tick \/ PauseSession \/ ActivateSession \/ IpcResume
    BY <2>6, TickRests, PauseSessionRests, ActivateSessionRests, IpcResumeRests
  <2>7. CASE \E d \in Device : DeviceAdded(d) \/ DeviceRemoved(d) \/ DeviceChanged(d)
    BY <2>7, DeviceAddedRests, DeviceRemovedRests, DeviceChangedRests
  <2>8. CASE \E k \in Removable : Plug(k)
    BY <2>8, PlugRests
  <2> QED
    BY <1>2, <2>1, <2>2, <2>3, <2>4, <2>5, <2>6, <2>7, <2>8 DEF Next
<1> QED
  BY <1>1, <1>2

LEMMA FramesInvariant == Spec => []FramesInv
<1>1. FramesInv /\ [Next]_vars => FramesInv'
  BY StepRests
<1> QED
  BY <1>1, InitRests, PTL DEF Spec

-----------------------------------------------------------------------------
(* The theorems.                                                           *)

\* The frame loop keeps its state well-formed: whatever devices, outputs and
\* clients do, every field holds what its type says, the list of devices set
\* aside stays within its bound, and only open devices are active.
THEOREM FramesTypeCorrect == Spec => []TypeOK
<1>1. FramesInv => TypeOK
  BY DEF FramesInv, TypeOK, Rest, Coherent
<1> QED
  BY <1>1, FramesInvariant, PTL

\* No new contents and no screencopy request are left on a live output
\* without a render or a VBlank to come, unless the layout gate holds the
\* output, its last frame failed or the kernel discarded its flip on a
\* pause: schedule_render, on_vblank, the resume of a session and connector
\* scans together leave no other gap.
THEOREM WakeupsAreKept == Spec => []WakeupKept
<1>1. ASSUME FramesInv
      PROVE  WakeupKept
  <2> SUFFICES ASSUME NEW c \in Crtc \ Broken, Unshown(c), backend.resize[c] = "none"
               PROVE  Awake(c)
    BY DEF WakeupKept
  <2>1. c \in Live(backend) /\ Due(backend, c)
    BY DEF Unshown, Due
  <2> QED
    BY <1>1, <2>1 DEF FramesInv, Rest, Roused, Awake, Broken
<1> QED
  BY <1>1, FramesInvariant, PTL

\* While no live output has failed or lost its flip, a client that waits for
\* a frame callback, a slide and the countdown after it all find an output
\* that will run on_vblank: on_vblank re-arms the loop itself as long as any
\* of them lasts.
THEOREM LoopGoesOn == Spec => []LoopKept
<1>1. ASSUME FramesInv
      PROVE  LoopKept
  <2> SUFFICES ASSUME Working,
                      backend.waiting \/ (Animating /\ \A c \in Crtc : backend.resize[c] = "none")
               PROVE  \E c \in Live(backend) : Awake(c)
    BY DEF LoopKept
  <2>1. PICK c \in Live(backend) : c \notin Broken
    BY DEF Working
  <2>2. c \in Crtc
    BY DEF Live, Surfaces
  <2>3. Due(backend, c)
    BY <2>2 DEF Due, Animating
  <2> QED
    BY <1>1, <2>1, <2>3 DEF FramesInv, Rest, Roused, Awake, Broken
<1> QED
  BY <1>1, FramesInvariant, PTL

\* Scans, resumes and hotplug never move a CRTC to another connector while
\* its device stays: collect_conn_infos hands out only CRTCs that drive
\* nothing.
THEOREM OutputsAreKept == Spec => OutputsKept
<1>1. FramesInv /\ [Next]_vars => [OutputsStay]_vars
  BY StepRests
<1>2. Spec => [][OutputsStay]_vars
  BY <1>1, FramesInvariant, PTL DEF Spec
<1> QED
  BY <1>2, PTL DEF OutputsKept, OutputsStay
=============================================================================
