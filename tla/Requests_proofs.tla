-------------------------- MODULE Requests_proofs --------------------------
(***************************************************************************)
(* Proofs about what a request meets on its way: the standing continuation *)
(* of Continuation, for every set of slots, every bound on rounds, chains  *)
(* and deliveries and every continuation that may be installed; the relays *)
(* of Relay; the capability Handshake hands out; the retries of Network;   *)
(* and the nested handlers of SubDispatch.  Each has its own inductive     *)
(* invariant.                                                              *)
(***************************************************************************)
EXTENDS Continuation, SubDispatch, Relay, Handshake, Network, FiniteSetTheorems, SequenceTheorems,
        NaturalsInduction, WellFoundedInduction, TLAPS

Conts == [received : [Slots -> Nat], remaining : Nat, round : Nat, late : BOOLEAN]

Waiting == {"sweeping", "reaping", "dispatching"}
States  == {"new", "ok", "refused"} \cup Waiting

Deliveries == [id : Nat \ {0}, slot : Slots, tag : Nat, bad : BOOLEAN, depth : Nat,
               chain : Nat, pc : States, held : Conts \cup {None}]

Fires == [by : Nat, of : [Slots -> Nat], round : Nat, full : BOOLEAN]

(* The round each delivery so far names. *)
Tags == [i \in DOMAIN call |-> call[i].tag]

(* Deliveries that may stand in round r, each in the slot that names it. *)
OfRound(received, r, T) ==
    \A s \in Slots : received[s] # 0 =>
        /\ received[s] \in DOMAIN T
        /\ Join /\ Timed => T[received[s]] \in {Untagged, r}

(* An entity at the path, or the copy of it a call holds over an await. *)
Sound(c, T) ==
    /\ c \in Conts
    /\ OfRound(c.received, c.round, T)
    /\ c.late => Join /\ Timed
    /\ c.remaining = Forever <=> fixed.remaining = Forever

Placed(c, T) == c # None => Sound(c, T) /\ (~Join => c.received = Empty)

SoundFire(f, T) ==
    /\ f \in Fires
    /\ OfRound(f.of, f.round, T)
    /\ f.full => \A s \in Slots : f.of[s] # 0

TypeOK ==
    /\ fixed \in Installs
    /\ call \in Seq(Deliveries)
    /\ \A i \in DOMAIN call : call[i].id = i /\ call[i].chain \in DOMAIN call
    /\ suspended \subseteq DOMAIN call

(* What makes RoundPure inductive: what a call holds over an await is of   *)
(* one round too, for it ages from that copy.                              *)
RoundInv ==
    /\ TypeOK
    /\ Placed(cont, Tags)
    /\ \A i \in Live : Sound(call[i].held, Tags) /\ (call[i].pc # "dispatching" => Join)
    /\ \A f \in fired : SoundFire(f, Tags)

-----------------------------------------------------------------------------
Marked(seg) == UNION {m.of : m \in seg.marks}

(* The dispatch a segment awaits: a partial one takes what has arrived, a  *)
(* full one the delivery itself too.                                       *)
Awaits(seg, d, f) ==
    /\ seg.fire = {f} /\ f.by = d.id
    /\ Contents(seg.cont) \subseteq Named(f)
    /\ f.full <=> seg.pc = "dispatching"
    /\ f.full => d.id \in Named(f)
    /\ ~f.full => Join /\ fixed.policy = "fire-partial"

Fields == {"cont", "pc", "held", "marks", "fire", "suspend"}

(* What a segment of delivery d does to the entity c it starts from.       *)
Orderly(seg, c, d, T) ==
    /\ DOMAIN seg = Fields
    /\ Sound(seg.cont, T) /\ seg.cont.remaining = c.remaining
    /\ ~Join => seg.cont.received = Empty
    /\ seg.pc \in {"ok", "refused"} \cup Waiting
    /\ seg.held \in Conts \cup {None}
    /\ seg.suspend \in BOOLEAN
    /\ \A f \in seg.fire : SoundFire(f, T)
    /\ Contents(c) \subseteq Contents(seg.cont) \cup Marked(seg)
    /\ seg.pc = "ok" => d.id \in Contents(seg.cont) \cup Marked(seg)
    /\ seg.pc \notin Waiting => seg.fire = {}
    /\ seg.pc \in Waiting =>
         /\ Sound(seg.held, T) /\ seg.held.remaining = c.remaining
         /\ \E f : Awaits(seg, d, f)

LEMMA NoneUnsound == \A c \in Conts : c # None
  <1> SUFFICES ASSUME None \in Conts PROVE FALSE
    OBVIOUS
  <1>1. "late" \in DOMAIN None
    BY DEF Conts
  <1> QED BY <1>1 DEF None

LEMMA FillOrderly ==
    ASSUME ContinuationAssumption, NEW T, NEW d \in Deliveries,
           d.id \in DOMAIN T, T[d.id] = d.tag,
           NEW c, Sound(c, T), Join
    PROVE  /\ Orderly(Fill(c, d), c, d, T)
           /\ Fill(c, d).pc \in Waiting => Fill(c, d).pc = "dispatching"
  <1> DEFINE to == [c EXCEPT !.received[d.slot] = d.id]
             noted(seg) == IF d.bad THEN Mark(seg, "join_error_slot", {d.id}) ELSE seg
  <1>0. /\ c \in Conts /\ d.slot \in Slots /\ d.id \in Nat \ {0} /\ d.tag \in Nat
        /\ c.received \in [Slots -> Nat] /\ c.round \in Nat
    BY DEF Sound, Deliveries, Conts
  <1>1. CASE Straggler(c, d)
    <2>1. Fill(c, d) = Mark(Segment(c, "ok"), "join_late", {d.id})
      BY <1>1 DEF Fill
    <2>2. /\ Fill(c, d).cont = c /\ Fill(c, d).pc = "ok" /\ Fill(c, d).held = None
          /\ Fill(c, d).marks = {[code |-> "join_late", of |-> {d.id}]}
          /\ Fill(c, d).fire = {} /\ Fill(c, d).suspend = FALSE /\ DOMAIN Fill(c, d) = Fields
      BY <2>1 DEF Mark, Segment, Fields
    <2>3. Marked(Fill(c, d)) = {d.id}
      BY <2>2 DEF Marked
    <2> QED BY <2>2, <2>3 DEF Orderly, Waiting
  <1>2. CASE ~Straggler(c, d) /\ d.slot \in Filled(c)
    <2>1. Fill(c, d) = Segment(c, "refused")
      BY <1>2 DEF Fill
    <2>2. DOMAIN Segment(c, "refused") = Fields
      BY DEF Segment, Fields
    <2> QED BY <2>1, <2>2 DEF Orderly, Marked, Waiting, Segment
  <1>3. CASE ~Straggler(c, d) /\ d.slot \notin Filled(c)
    <2>1. /\ to \in Conts /\ to.remaining = c.remaining /\ to.round = c.round /\ to.late = c.late
          /\ to.received = [c.received EXCEPT ![d.slot] = d.id]
      BY <1>0 DEF Conts
    <2>2. \A s \in Slots : to.received[s] = IF s = d.slot THEN d.id ELSE c.received[s]
      BY <1>0, <2>1
    <2>3. Join /\ Timed => d.tag \in {Untagged, c.round}
      BY <1>3 DEF Straggler
    <2>4. OfRound(to.received, to.round, T)
      BY <2>1, <2>2, <2>3 DEF OfRound, Sound
    <2>5. Sound(to, T)
      BY <2>1, <2>4 DEF Sound
    <2>6. Contents(to) = Contents(c) \cup {d.id}
      BY <1>0, <1>3, <2>1, <2>2 DEF Contents, Filled
    <2> HIDE DEF to
    <2>7. CASE Filled(to) # Slots
      <3>1. Fill(c, d) = noted(Accumulated(to))
        BY <1>3, <2>7 DEF Fill, to
      <3>2. /\ noted(Accumulated(to)).cont = to /\ noted(Accumulated(to)).pc = "ok"
            /\ noted(Accumulated(to)).fire = {} /\ noted(Accumulated(to)).held = None
            /\ noted(Accumulated(to)).suspend = FALSE /\ DOMAIN noted(Accumulated(to)) = Fields
        BY DEF Accumulated, Segment, Mark, Fields
      <3> HIDE DEF noted
      <3> QED BY <2>1, <2>5, <2>6, <3>1, <3>2 DEF Orderly, Waiting
    <2>8. CASE Filled(to) = Slots /\ Brakes(d)
      <3>1. Fill(c, d) = noted(Suspends(c, d))
        BY <1>3, <2>8 DEF Fill, to
      <3>2. /\ noted(Suspends(c, d)).cont = c /\ noted(Suspends(c, d)).pc = "refused"
            /\ noted(Suspends(c, d)).fire = {} /\ noted(Suspends(c, d)).held = None
            /\ noted(Suspends(c, d)).suspend = TRUE /\ DOMAIN noted(Suspends(c, d)) = Fields
        BY DEF Suspends, Segment, Mark, Fields
      <3> HIDE DEF noted
      <3> QED BY <3>1, <3>2 DEF Orderly, Waiting
    <2>9. CASE Filled(to) = Slots /\ ~Brakes(d)
      <3> DEFINE f == [by |-> d.id, of |-> to.received, round |-> to.round, full |-> TRUE]
                 seg == [Fire(Segment(c, "dispatching"), d, to, TRUE) EXCEPT !.held = c]
      <3>1. Fill(c, d) = noted(seg)
        BY <1>3, <2>9 DEF Fill, to
      <3>2. /\ seg.cont = c /\ seg.pc = "dispatching" /\ seg.fire = {f} /\ seg.held = c
            /\ seg.suspend = FALSE
            /\ DOMAIN seg = Fields
        BY DEF Segment, Fire, Fields
      <3> HIDE DEF seg
      <3>3. /\ noted(seg).cont = c /\ noted(seg).pc = "dispatching"
            /\ noted(seg).fire = {f} /\ noted(seg).held = c
            /\ noted(seg).suspend = FALSE /\ DOMAIN noted(seg) = Fields
        BY <3>2 DEF Mark, Fields
      <3>4. SoundFire(f, T)
        <4>1. to.received \in [Slots -> Nat] /\ to.round \in Nat
          BY <2>1 DEF Conts
        <4>2. \A s \in Slots : to.received[s] # 0
          BY <2>9, <4>1 DEF Filled
        <4>3. f \in Fires
          BY <1>0, <4>1 DEF Fires
        <4> QED BY <2>4, <4>2, <4>3 DEF SoundFire
      <3>5. Named(f) = Contents(to)
        BY <2>1, <2>9 DEF Named, Contents, Filled, Conts
      <3> HIDE DEF noted
      <3>6. Awaits(noted(seg), d, f)
        BY <2>6, <3>3, <3>5 DEF Awaits
      <3> HIDE DEF f
      <3>7. \A g \in noted(seg).fire : SoundFire(g, T)
        BY <3>3, <3>4
      <3> QED BY <3>1, <3>3, <3>6, <3>7, <1>0 DEF Orderly, Waiting
    <2> QED BY <2>7, <2>8, <2>9
  <1> QED BY <1>1, <1>2, <1>3

LEMMA TurnoverSound ==
    ASSUME NEW T, NEW c, Sound(c, T)
    PROVE  /\ Sound(Turnover(c), T)
           /\ Turnover(c).received = Empty
           /\ Turnover(c).remaining = c.remaining
           /\ ~Turnover(c).late
           /\ Contents(Turnover(c)) = {}
  <1>1. /\ Turnover(c) \in Conts /\ Turnover(c).received = Empty
        /\ Turnover(c).remaining = c.remaining /\ Turnover(c).late = FALSE
    <2>1. c \in Conts /\ Empty \in [Slots -> Nat]
      BY DEF Sound, Empty
    <2>2. CASE Timed
      <3>1. Turnover(c) = [c EXCEPT !.received = Empty, !.round = @ + 1, !.late = FALSE]
        BY <2>2 DEF Turnover
      <3>2. /\ Turnover(c).received = Empty /\ Turnover(c).round = c.round + 1
            /\ Turnover(c).late = FALSE /\ Turnover(c).remaining = c.remaining
            /\ DOMAIN Turnover(c) = DOMAIN c
        BY <2>1, <3>1 DEF Conts
      <3>3. c.round + 1 \in Nat
        BY <2>1 DEF Conts
      <3>4. Turnover(c) = [received |-> Empty, remaining |-> c.remaining,
                           round |-> c.round + 1, late |-> FALSE]
        BY <2>1, <3>1 DEF Conts
      <3> QED BY <2>1, <3>2, <3>3, <3>4 DEF Conts
    <2>3. CASE ~Timed
      <3>1. Turnover(c) = [c EXCEPT !.received = Empty, !.round = c.round, !.late = FALSE]
        BY <2>3 DEF Turnover
      <3> QED BY <2>1, <3>1 DEF Conts
    <2> QED BY <2>2, <2>3
  <1>2. Contents(Turnover(c)) = {}
    BY <1>1 DEF Contents, Filled, Empty
  <1> QED BY <1>1, <1>2 DEF Sound, OfRound, Empty

LEMMA AgedSound ==
    ASSUME NEW T, NEW c, Sound(c, T)
    PROVE  /\ c.remaining = 1 => Aged(c) = None
           /\ c.remaining # 1 =>
                /\ Sound(Aged(c), T)
                /\ Aged(c).remaining = IF c.remaining = Forever THEN Forever ELSE c.remaining - 1
                /\ ~Aged(c).late
                /\ Contents(Aged(c)) = {}
  <1>1. CASE c.remaining = 1
    BY <1>1 DEF Aged
  <1>2. CASE c.remaining # 1
    <2> DEFINE t == Turnover(c)
    <2>1. /\ Sound(t, T) /\ t.remaining = c.remaining /\ ~t.late /\ t.received = Empty
          /\ Contents(t) = {} /\ t \in Conts /\ c \in Conts
      BY TurnoverSound DEF Sound
    <2>2. Aged(c) = [t EXCEPT !.remaining = IF @ = Forever THEN @ ELSE @ - 1]
      BY <1>2 DEF Aged
    <2> HIDE DEF t
    <2>3. c.remaining \in Nat
      BY <2>1 DEF Conts
    <2>4. /\ Aged(c) \in Conts /\ Aged(c).received = t.received /\ Aged(c).round = t.round
          /\ Aged(c).late = t.late
          /\ Aged(c).remaining = IF c.remaining = Forever THEN Forever ELSE c.remaining - 1
      BY <1>2, <2>1, <2>2, <2>3 DEF Conts, Forever
    <2>5. Contents(Aged(c)) = {}
      BY <2>1, <2>4 DEF Contents, Filled
    <2>6. Aged(c).remaining = Forever <=> c.remaining = Forever
      BY <1>2, <2>3, <2>4 DEF Forever
    <2> QED BY <1>2, <2>1, <2>4, <2>5, <2>6 DEF Sound
  <1> QED BY <1>1, <1>2

LEMMA AgedEmpty ==
    ASSUME NEW T, NEW c, Sound(c, T), Aged(c) # None
    PROVE  Aged(c).received = Empty
  <1>1. Turnover(c) \in Conts /\ Turnover(c).received = Empty
    BY TurnoverSound DEF Sound
  <1> QED BY <1>1 DEF Aged, Conts

(* A partial fire of an expired round. *)
LEMMA PartialOrderly ==
    ASSUME NEW T, NEW d \in Deliveries, NEW c, Sound(c, T), Join, fixed.policy = "fire-partial",
           NEW pc \in {"sweeping", "reaping"}
    PROVE  Orderly(Fire(Segment(c, pc), d, c, FALSE), c, d, T)
  <1> DEFINE f == [by |-> d.id, of |-> c.received, round |-> c.round, full |-> FALSE]
             seg == Fire(Segment(c, pc), d, c, FALSE)
  <1>1. /\ seg.cont = c /\ seg.pc = pc /\ seg.held = c /\ seg.fire = {f} /\ seg.suspend = FALSE
        /\ DOMAIN seg = Fields
    BY DEF Segment, Fire, Fields
  <1>2. c \in Conts /\ d.id \in Nat
    BY DEF Sound, Deliveries
  <1>3. f \in Fires /\ Named(f) = Contents(c)
    BY <1>2 DEF Fires, Conts, Named, Contents, Filled
  <1>4. SoundFire(f, T)
    BY <1>3 DEF SoundFire, Sound
  <1> HIDE DEF seg
  <1>5. Awaits(seg, d, f)
    BY <1>1, <1>3 DEF Awaits
  <1> HIDE DEF f
  <1>6. Orderly(seg, c, d, T)
    BY <1>1, <1>2, <1>4, <1>5 DEF Orderly, Waiting
  <1> QED BY <1>6 DEF seg

(* A marker for what the entity had received, and none has it any more.    *)
LEMMA MarkOrderly ==
    ASSUME NEW T, NEW d, NEW c, NEW e, NEW seg, Orderly(seg, e, d, T), e.remaining = c.remaining,
           NEW code
    PROVE  Orderly(Mark(seg, code, Contents(c)), c, d, T)
  <1> DEFINE m == Mark(seg, code, Contents(c))
  <1>1. /\ DOMAIN m = Fields
        /\ m.cont = seg.cont /\ m.pc = seg.pc /\ m.held = seg.held /\ m.fire = seg.fire
        /\ m.suspend = seg.suspend
        /\ m.marks = seg.marks \cup {[code |-> code, of |-> Contents(c)]}
    BY DEF Orderly, Mark, Fields
  <1> HIDE DEF m
  <1>2. Marked(seg) \cup Contents(c) \subseteq Marked(m)
    <2>1. [code |-> code, of |-> Contents(c)].of = Contents(c)
      OBVIOUS
    <2>2. [code |-> code, of |-> Contents(c)] \in m.marks /\ seg.marks \subseteq m.marks
      BY <1>1
    <2> QED BY <2>1, <2>2 DEF Marked
  <1>3. \A f : Awaits(seg, d, f) => Awaits(m, d, f)
    BY <1>1 DEF Awaits
  <1>4. Orderly(m, c, d, T)
    BY <1>1, <1>2, <1>3 DEF Orderly
  <1> QED BY <1>4 DEF m

LEMMA TouchOrderly ==
    ASSUME ContinuationAssumption, NEW T, NEW d \in Deliveries,
           d.id \in DOMAIN T, T[d.id] = d.tag,
           fixed \in Installs, NEW c, Sound(c, T), Join
    PROVE  /\ Orderly(Touch(c, d), c, d, T)
           /\ ~c.late => Touch(c, d).pc # "reaping"
  <1>1. CASE ~Expired(c)
    <2>1. Touch(c, d) = Fill(c, d)
      BY <1>1 DEF Touch
    <2> QED BY <2>1, FillOrderly DEF Waiting
  <1>2. CASE Expired(c) /\ fixed.policy = "abandon"
    <2> DEFINE seg == Fill(Turnover(c), d)
    <2>1. Touch(c, d) = Mark(seg, "join_abandoned", Contents(c))
      BY <1>2 DEF Touch, Reaped
    <2>2. /\ Orderly(seg, Turnover(c), d, T) /\ Turnover(c).remaining = c.remaining
          /\ seg.pc \in Waiting => seg.pc = "dispatching"
      BY FillOrderly, TurnoverSound
    <2> HIDE DEF seg
    <2>3. Orderly(Touch(c, d), c, d, T)
      BY <2>1, <2>2, MarkOrderly
    <2>4. Touch(c, d).pc = seg.pc
      BY <2>1, <2>2 DEF Mark, Orderly, Fields
    <2> QED BY <2>2, <2>3, <2>4 DEF Waiting
  <1>3. CASE Expired(c) /\ fixed.policy # "abandon"
    <2>1. Touch(c, d) = Fire(Segment(c, "reaping"), d, c, FALSE)
      BY <1>3 DEF Touch, Reaped
    <2>2. c.late /\ fixed.policy = "fire-partial"
      BY <1>3 DEF Expired, Sound, Timed, ContinuationAssumption
    <2> QED BY <2>1, <2>2, PartialOrderly
  <1> QED BY <1>1, <1>2, <1>3

LEMMA ForwardOrderly ==
    ASSUME ContinuationAssumption, NEW T, NEW d \in Deliveries,
           d.id \in DOMAIN T, T[d.id] = d.tag,
           NEW c, Sound(c, T), ~Join, c.received = Empty
    PROVE  Orderly(Forward(c, d), c, d, T) /\ Forward(c, d).pc \notin {"sweeping", "reaping"}
  <1>0. c \in Conts /\ d.id \in Nat \ {0}
    BY DEF Sound, Deliveries
  <1>1. Contents(c) = {}
    BY <1>0 DEF Contents, Filled, Empty
  <1>2. CASE Brakes(d)
    <2> DEFINE seg == Suspends(c, d)
    <2>1. Forward(c, d) = seg
      BY <1>2 DEF Forward
    <2>2. /\ seg.cont = c /\ seg.pc = "refused" /\ seg.fire = {} /\ seg.held = None
          /\ seg.suspend = TRUE /\ DOMAIN seg = Fields
      BY DEF Suspends, Segment, Mark, Fields
    <2> HIDE DEF seg
    <2> QED BY <1>1, <2>1, <2>2 DEF Orderly, Waiting
  <1>3. CASE ~Brakes(d) /\ d.bad /\ fixed.onError
    <2> DEFINE seg == Mark(Segment(c, "ok"), "on_error", {d.id})
    <2>1. Forward(c, d) = seg
      BY <1>3 DEF Forward
    <2>2. /\ seg.cont = c /\ seg.pc = "ok" /\ seg.fire = {} /\ seg.held = None
          /\ seg.suspend = FALSE /\ DOMAIN seg = Fields
          /\ seg.marks = {[code |-> "on_error", of |-> {d.id}]}
      BY DEF Segment, Mark, Fields
    <2> HIDE DEF seg
    <2>3. Marked(seg) = {d.id}
      BY <2>2 DEF Marked
    <2> QED BY <1>1, <2>1, <2>2, <2>3 DEF Orderly, Waiting
  <1>4. CASE ~Brakes(d) /\ ~(d.bad /\ fixed.onError)
    <2> DEFINE e == [c EXCEPT !.received = [s \in Slots |-> d.id]]
               f == [by |-> d.id, of |-> e.received, round |-> e.round, full |-> TRUE]
               seg == Fire(Segment(c, "dispatching"), d, e, TRUE)
    <2>1. Forward(c, d) = seg
      BY <1>4 DEF Forward
    <2>2. /\ seg.cont = c /\ seg.pc = "dispatching" /\ seg.fire = {f} /\ seg.held = e
          /\ seg.suspend = FALSE /\ DOMAIN seg = Fields
      BY DEF Segment, Fire, Fields
    <2>3. /\ e \in Conts /\ e.round = c.round /\ e.remaining = c.remaining /\ e.late = c.late
          /\ e.received = [s \in Slots |-> d.id]
      BY <1>0 DEF Conts
    <2> HIDE DEF e
    <2>4. OfRound(e.received, e.round, T) /\ e.received \in [Slots -> Nat] /\ e.round \in Nat
      BY <1>0, <2>3 DEF OfRound, Conts
    <2>5. Sound(e, T)
      BY <2>3, <2>4 DEF Sound
    <2>6. f \in Fires /\ Named(f) = {d.id}
      BY <1>0, <2>3, <2>4 DEF Fires, Named, ContinuationAssumption
    <2>7. SoundFire(f, T)
      BY <1>0, <2>3, <2>4, <2>6 DEF SoundFire
    <2> HIDE DEF seg
    <2>8. Awaits(seg, d, f)
      BY <1>1, <2>2, <2>6 DEF Awaits
    <2> HIDE DEF f
    <2> QED BY <1>1, <2>1, <2>2, <2>3, <2>5, <2>7, <2>8 DEF Orderly, Waiting
  <1> QED BY <1>2, <1>3, <1>4

LEMMA AdvanceOrderly ==
    ASSUME ContinuationAssumption, NEW T, NEW d \in Deliveries,
           d.id \in DOMAIN T, T[d.id] = d.tag, fixed \in Installs,
           NEW c, Sound(c, T), ~Join => c.received = Empty, c # None
    PROVE  /\ Orderly(Advance(c, d), c, d, T)
           /\ ~c.late => Advance(c, d).pc \notin {"sweeping", "reaping"}
  <1>1. CASE Join
    <2>1. Advance(c, d) = Touch(c, d)
      BY <1>1 DEF Advance
    <2>2. Touch(c, d).pc # "sweeping"
      <3>1. CASE ~Expired(c)
        BY <1>1, <3>1, FillOrderly DEF Touch, Orderly, Waiting
      <3>2. CASE Expired(c) /\ fixed.policy = "abandon"
        <4> DEFINE seg == Fill(Turnover(c), d)
        <4>1. Touch(c, d) = Mark(seg, "join_abandoned", Contents(c))
          BY <3>2 DEF Touch, Reaped
        <4>2. Orderly(seg, Turnover(c), d, T) /\ (seg.pc \in Waiting => seg.pc = "dispatching")
          BY <1>1, FillOrderly, TurnoverSound
        <4> HIDE DEF seg
        <4>3. Touch(c, d).pc = seg.pc
          BY <4>1, <4>2 DEF Mark, Orderly, Fields
        <4> QED BY <4>2, <4>3 DEF Waiting
      <3>3. CASE Expired(c) /\ fixed.policy # "abandon"
        BY <3>3 DEF Touch, Reaped, Fire, Segment
      <3> QED BY <3>1, <3>2, <3>3
    <2> QED BY <1>1, <2>1, <2>2, TouchOrderly
  <1>2. CASE ~Join
    BY <1>2, ForwardOrderly DEF Advance
  <1> QED BY <1>1, <1>2

LEMMA SweepFirstOrderly ==
    ASSUME ContinuationAssumption, NEW T, NEW d \in Deliveries,
           d.id \in DOMAIN T, T[d.id] = d.tag, fixed \in Installs,
           Sound(cont, T), ~Join => cont.received = Empty, cont # None, NEW sweeps
    PROVE  Orderly(SweepFirst(d, sweeps), cont, d, T)
  <1>1. CASE sweeps /\ Expired(cont) /\ fixed.policy = "fire-partial"
    <2>1. SweepFirst(d, sweeps) = Fire(Segment(cont, "sweeping"), d, cont, FALSE)
      BY <1>1 DEF SweepFirst
    <2> QED BY <1>1, <2>1, PartialOrderly DEF Expired
  <1>2. CASE ~(sweeps /\ Expired(cont) /\ fixed.policy = "fire-partial")
    <2>1. SweepFirst(d, sweeps) = Advance(cont, d)
      BY <1>2 DEF SweepFirst
    <2> QED BY <2>1, AdvanceOrderly
  <1> QED BY <1>1, <1>2

-----------------------------------------------------------------------------
(* A delivery that enters, or one that goes on.                            *)
Comes(d) ==
    /\ d \in Deliveries
    /\ \/ d.id = Len(call) + 1 /\ d.chain \in 1..d.id
       \/ d.id \in DOMAIN call /\ call[d.id] = d

TagsWith(d) == [i \in DOMAIN call \cup {d.id} |-> IF i = d.id THEN d.tag ELSE call[i].tag]

(* What the invariant asks of a segment.                                   *)
Proper(seg, T) ==
    /\ Placed(seg.cont, T)
    /\ seg.pc \in {"ok", "refused"} \cup Waiting
    /\ seg.held \in Conts \cup {None}
    /\ seg.suspend \in BOOLEAN
    /\ \A f \in seg.fire : SoundFire(f, T)
    /\ seg.pc \in Waiting => Sound(seg.held, T) /\ (seg.pc # "dispatching" => Join)

LEMMA OrderlyProper ==
    ASSUME NEW seg, NEW c, NEW d, NEW T, Orderly(seg, c, d, T)
    PROVE  Proper(seg, T)
  BY DEF Orderly, Proper, Awaits, Placed

LEMMA TagsGrow ==
    ASSUME TypeOK, NEW d, Comes(d), NEW seg, Proper(seg, TagsWith(d)), NEW left, Takes(d, seg, left)
    PROVE  /\ call' \in Seq(Deliveries)
           /\ DOMAIN call' = DOMAIN call \cup {d.id}
           /\ \A i \in DOMAIN call \ {d.id} : call'[i] = call[i]
           /\ call'[d.id].id = d.id /\ call'[d.id].chain = d.chain
           /\ call'[d.id].pc = seg.pc /\ call'[d.id].held = seg.held
           /\ Tags' = TagsWith(d)
           /\ d.chain \in DOMAIN call'
  <1>1. /\ Len(call) \in Nat /\ DOMAIN call = 1..Len(call) /\ d \in Deliveries
        /\ call \in [1..Len(call) -> Deliveries]
    BY LenProperties DEF TypeOK, Comes
  <1> DEFINE n == IF d.id = Len(call) + 1 THEN Len(call) + 1 ELSE Len(call)
             e == [d EXCEPT !.pc = seg.pc, !.held = seg.held]
  <1>2. n \in Nat /\ DOMAIN call \cup {d.id} = 1..n
    BY <1>1 DEF Comes
  <1>3. /\ e \in Deliveries /\ e.id = d.id /\ e.chain = d.chain /\ e.tag = d.tag
        /\ e.pc = seg.pc /\ e.held = seg.held
    <2>1. seg.pc \in States /\ seg.held \in Conts \cup {None}
      BY DEF Proper, States
    <2> HIDE DEF n
    <2> QED BY <1>1, <2>1 DEF Deliveries
  <1>4. call' = [i \in 1..n |-> IF i = d.id THEN e ELSE call[i]]
    BY <1>2 DEF Takes
  <1> HIDE DEF n, e
  <1>5. \A i \in 1..n : i # d.id => i \in 1..Len(call)
    BY <1>1, <1>2
  <1>6. call' \in [1..n -> Deliveries]
    BY <1>1, <1>3, <1>4, <1>5
  <1>7. call' \in Seq(Deliveries)
    BY <1>2, <1>6, SeqDef
  <1>8. d.id \in 1..n
    BY <1>2
  <1>9. Tags' = TagsWith(d)
    BY <1>2, <1>3, <1>4, <1>5, <1>8 DEF Tags, TagsWith
  <1>10. d.chain \in DOMAIN call'
    BY <1>1, <1>2, <1>4 DEF Comes, TypeOK
  <1> QED BY <1>1, <1>2, <1>3, <1>4, <1>5, <1>7, <1>8, <1>9, <1>10

(* What was of one round stays so when deliveries come.                    *)
LEMMA StaySound ==
    ASSUME TypeOK, NEW d, Comes(d)
    PROVE  /\ \A c : Sound(c, Tags) => Sound(c, TagsWith(d))
           /\ \A f : SoundFire(f, Tags) => SoundFire(f, TagsWith(d))
           /\ d.id \in DOMAIN TagsWith(d) /\ TagsWith(d)[d.id] = d.tag
  <1>1. \A i \in DOMAIN Tags : i \in DOMAIN TagsWith(d) /\ TagsWith(d)[i] = Tags[i]
    BY DEF Tags, TagsWith, Comes
  <1>2. \A r, s : OfRound(r, s, Tags) => OfRound(r, s, TagsWith(d))
    BY <1>1 DEF OfRound
  <1> QED BY <1>2 DEF Sound, SoundFire, TagsWith

LEMMA TakesKeeps ==
    ASSUME RoundInv, NEW d, Comes(d), NEW seg, Proper(seg, TagsWith(d)),
           NEW left \in SUBSET DOMAIN call, Takes(d, seg, left)
    PROVE  RoundInv'
  <1> USE DEF RoundInv
  <1>1. /\ call' \in Seq(Deliveries)
        /\ DOMAIN call' = DOMAIN call \cup {d.id}
        /\ \A i \in DOMAIN call \ {d.id} : call'[i] = call[i]
        /\ call'[d.id].id = d.id /\ call'[d.id].chain = d.chain
        /\ call'[d.id].pc = seg.pc /\ call'[d.id].held = seg.held
        /\ Tags' = TagsWith(d)
        /\ d.chain \in DOMAIN call'
    BY TagsGrow
  <1>2. fixed' = fixed /\ cont' = seg.cont /\ fired' = fired \cup seg.fire
    BY DEF Takes
  <1>3. suspended' \subseteq DOMAIN call'
    <2>1. suspended' \subseteq left \cup {d.chain}
      BY DEF Takes
    <2> QED BY <1>1, <2>1
  <1>4. TypeOK'
    BY <1>1, <1>2, <1>3 DEF TypeOK
  <1>5. /\ \A c : Sound(c, Tags)' <=> Sound(c, TagsWith(d))
        /\ \A f : SoundFire(f, Tags)' <=> SoundFire(f, TagsWith(d))
        /\ Join' = Join
    BY <1>1, <1>2 DEF Sound, SoundFire, OfRound, Join, Timed
  <1>6. Placed(cont, Tags)'
    BY <1>2, <1>5 DEF Proper, Placed
  <1>7. \A i \in Live' : Sound(call[i].held, Tags)' /\ (call'[i].pc # "dispatching" => Join')
    BY <1>1, <1>5, StaySound DEF Proper, Live, Waiting
  <1>8. \A f \in fired' : SoundFire(f, Tags)'
    BY <1>2, <1>5, StaySound DEF Proper
  <1> QED BY <1>4, <1>6, <1>7, <1>8

(* A segment that dispatches nothing, and leaves what is sound.            *)
LEMMA PlainProper ==
    ASSUME NEW T, NEW c, Placed(c, T),
           NEW pc \in {"ok", "refused"}, NEW code, NEW of
    PROVE  Proper(Segment(c, pc), T) /\ Proper(Mark(Segment(c, pc), code, of), T)
  <1> DEFINE seg == Segment(c, pc)
             m   == Mark(seg, code, of)
  <1>1. /\ seg.cont = c /\ seg.pc = pc /\ seg.held = None /\ seg.fire = {} /\ seg.suspend = FALSE
        /\ m.cont = c /\ m.pc = pc /\ m.held = None /\ m.fire = {} /\ m.suspend = FALSE
    BY DEF Segment, Mark
  <1> HIDE DEF seg, m
  <1>2. Proper(seg, T) /\ Proper(m, T)
    BY <1>1 DEF Proper, Waiting
  <1> QED BY <1>2 DEF seg, m

LEMMA DeliveryComes ==
    ASSUME RoundInv, NEW s \in Slots, NEW t \in Nat, NEW bad \in BOOLEAN, NEW depth \in Nat,
           NEW chain \in 1..(Len(call) + 1)
    PROVE  Comes(Delivery(s, t, bad, depth, chain))
  <1>1. Len(call) \in Nat
    BY LenProperties DEF RoundInv, TypeOK
  <1> QED BY <1>1 DEF Comes, Delivery, Deliveries, States

LEMMA EntersProper ==
    ASSUME ContinuationAssumption, RoundInv, NEW d, Comes(d), NEW sweeps
    PROVE  /\ Proper(IF cont = None THEN Segment(cont, "refused") ELSE SweepFirst(d, sweeps), TagsWith(d))
           /\ Proper(IF cont = None THEN Segment(cont, "refused") ELSE Advance(cont, d), TagsWith(d))
  <1>1. Placed(cont, TagsWith(d))
    BY StaySound DEF RoundInv, Placed
  <1>2. d \in Deliveries /\ d.id \in DOMAIN TagsWith(d) /\ TagsWith(d)[d.id] = d.tag /\ fixed \in Installs
    BY StaySound DEF Comes, RoundInv, TypeOK
  <1>3. CASE cont = None
    BY <1>1, <1>3, PlainProper
  <1>4. CASE cont # None
    <2>1. Orderly(SweepFirst(d, sweeps), cont, d, TagsWith(d))
      BY <1>1, <1>2, <1>4, SweepFirstOrderly DEF Placed
    <2>2. Orderly(Advance(cont, d), cont, d, TagsWith(d))
      BY <1>1, <1>2, <1>4, AdvanceOrderly DEF Placed
    <2> QED BY <1>4, <2>1, <2>2, OrderlyProper
  <1> QED BY <1>3, <1>4

LEMMA ReceiveKeeps ==
    ASSUME ContinuationAssumption, RoundInv, NEW d, Comes(d), NEW sweeps, Receive(d, sweeps)
    PROVE  RoundInv'
  <1>1. suspended \in SUBSET DOMAIN call
    BY DEF RoundInv, TypeOK
  <1> QED BY <1>1, EntersProper, TakesKeeps DEF Receive

LEMMA DeliveredComes ==
    ASSUME ContinuationAssumption, RoundInv, Delivered
    PROVE  \E d, sweeps : Comes(d) /\ d.id = Len(call) + 1 /\ Receive(d, sweeps)
  <1>1. PICK s \in IF Join THEN Slots ELSE {CHOOSE s \in Slots : TRUE},
             t \in IF Timed THEN 0..Rounds ELSE {Untagged},
             bad \in IF fixed.errors THEN BOOLEAN ELSE {FALSE}, sweeps \in BOOLEAN :
             Receive(Delivery(s, t, bad, 0, Len(call) + 1), sweeps)
    BY DEF Delivered
  <1>2. s \in Slots /\ t \in Nat /\ bad \in BOOLEAN
    <2>1. Slots # {} /\ Rounds \in Nat
      BY DEF ContinuationAssumption
    <2>2. (CHOOSE x \in Slots : TRUE) \in Slots
      BY <2>1
    <2>3. s \in Slots
      BY <1>1, <2>2
    <2>4. t \in Nat
      BY <1>1, <2>1 DEF Untagged
    <2>5. bad \in BOOLEAN
      BY <1>1
    <2> QED BY <2>3, <2>4, <2>5
  <1>3. Len(call) + 1 \in 1..(Len(call) + 1)
    BY LenProperties DEF RoundInv, TypeOK
  <1>4. Delivery(s, t, bad, 0, Len(call) + 1).id = Len(call) + 1
    BY DEF Delivery
  <1> QED BY <1>1, <1>2, <1>3, <1>4, DeliveryComes

LEMMA LoopsComes ==
    ASSUME ContinuationAssumption, RoundInv, NEW i \in DOMAIN call, Loops(i)
    PROVE  \E d, sweeps : Comes(d) /\ Receive(d, sweeps)
  <1> DEFINE d == Delivery(call[i].slot, Untagged, FALSE, call[i].depth + 1, call[i].chain)
  <1>1. /\ Len(call) \in Nat /\ DOMAIN call = 1..Len(call) /\ call[i] \in Deliveries
        /\ call[i].chain \in DOMAIN call
    BY LenProperties, ElementOfSeq DEF RoundInv, TypeOK
  <1>2. call[i].slot \in Slots /\ Untagged \in Nat /\ call[i].depth + 1 \in Nat
    BY <1>1 DEF Deliveries, ContinuationAssumption, Untagged
  <1>3. call[i].chain \in 1..(Len(call) + 1)
    BY <1>1
  <1>4. Comes(d)
    BY <1>2, <1>3, DeliveryComes
  <1>5. Receive(d, FALSE)
    BY DEF Loops
  <1> QED BY <1>4, <1>5

(* A call that goes on is one of the deliveries.                           *)
LEMMA GoesOn ==
    ASSUME RoundInv, NEW i \in DOMAIN call
    PROVE  /\ Comes(call[i]) /\ call[i].id = i /\ call[i] \in Deliveries
           /\ suspended \in SUBSET DOMAIN call
           /\ call[i].pc \in Waiting => i \in Live /\ Sound(call[i].held, Tags)
                                        /\ Sound(call[i].held, TagsWith(call[i]))
                                        /\ (call[i].pc # "dispatching" => Join)
  <1>1. call[i] \in Deliveries /\ call[i].id = i
    BY LenProperties, ElementOfSeq DEF RoundInv, TypeOK
  <1>2. Comes(call[i])
    BY <1>1 DEF Comes
  <1> QED BY <1>1, <1>2, StaySound DEF RoundInv, TypeOK, Live, Waiting

LEMMA ForwardReturnsKeeps ==
    ASSUME RoundInv, NEW i \in DOMAIN call, ForwardReturns(i)
    PROVE  RoundInv'
  <1> DEFINE c == call[i].held
             e == IF c.remaining # Forever THEN Aged(c) ELSE cont
             s == Segment(e, "ok")
  <1>1. call[i].pc = "dispatching"
    BY DEF ForwardReturns
  <1>2. PICK bad \in BOOLEAN :
            Continues(i, IF bad /\ ~fixed.onError THEN Mark(s, "dispatch_code", {i}) ELSE s)
    BY DEF ForwardReturns
  <1>3. Placed(e, TagsWith(call[i]))
    <2>1. CASE c.remaining # Forever
      <3>1. Sound(c, TagsWith(call[i]))
        BY <1>1, GoesOn DEF Waiting
      <3>2. Aged(c) # None => Aged(c).received = Empty
        BY <3>1, AgedEmpty
      <3>3. Aged(c) = None \/ Sound(Aged(c), TagsWith(call[i]))
        BY <3>1, AgedSound
      <3> HIDE DEF c
      <3> QED BY <2>1, <3>2, <3>3 DEF Placed
    <2>2. CASE c.remaining = Forever
      BY <2>2, GoesOn, StaySound DEF RoundInv, Placed
    <2> QED BY <2>1, <2>2
  <1> HIDE DEF e
  <1>4. Proper(s, TagsWith(call[i])) /\ Proper(Mark(s, "dispatch_code", {i}), TagsWith(call[i]))
    BY <1>3, PlainProper
  <1> HIDE DEF s
  <1> QED BY <1>2, <1>4, GoesOn, TakesKeeps DEF Continues

LEMMA JoinReturnsKeeps ==
    ASSUME RoundInv, NEW i \in DOMAIN call, JoinReturns(i)
    PROVE  RoundInv'
  <1> DEFINE c == call[i].held
             s == Segment(Aged(c), "ok")
  <1>1. Join /\ call[i].pc = "dispatching" /\ Takes(call[i], s, suspended)
    BY DEF JoinReturns, Continues
  <1>2. Sound(c, TagsWith(call[i]))
    BY <1>1, GoesOn DEF Waiting
  <1>3. Aged(c) = None \/ Sound(Aged(c), TagsWith(call[i]))
    BY <1>2, AgedSound
  <1> HIDE DEF c
  <1>4. Proper(s, TagsWith(call[i]))
    BY <1>1, <1>3, PlainProper DEF Placed
  <1> HIDE DEF s
  <1> QED BY <1>1, <1>4, GoesOn, TakesKeeps

LEMMA UndeliveredKeeps ==
    ASSUME RoundInv, NEW i \in DOMAIN call, Undelivered(i)
    PROVE  RoundInv'
  <1> DEFINE s == Mark(Segment(cont, "refused"), "transport_code", {i})
  <1>1. Takes(call[i], s, suspended)
    BY DEF Undelivered, Continues
  <1>2. Placed(cont, TagsWith(call[i]))
    BY GoesOn, StaySound DEF RoundInv, Placed
  <1>3. Proper(s, TagsWith(call[i]))
    BY <1>2, PlainProper
  <1> HIDE DEF s
  <1> QED BY <1>1, <1>3, GoesOn, TakesKeeps

(* What the rest of a call does with the join that its partial fire aged.  *)
Onward(i, c) ==
    IF c = None THEN Segment(c, "ok")
    ELSE IF call[i].pc = "sweeping" THEN Advance(c, call[i]) ELSE Fill(c, call[i])

LEMMA OnwardOrderly ==
    ASSUME ContinuationAssumption, RoundInv, NEW i \in DOMAIN call, Join,
           NEW c, Sound(c, TagsWith(call[i])), ~c.late, c # None
    PROVE  /\ Orderly(Onward(i, c), c, call[i], TagsWith(call[i]))
           /\ Onward(i, c).pc \in Waiting => Onward(i, c).pc = "dispatching"
  <1>1. /\ call[i] \in Deliveries /\ fixed \in Installs
        /\ call[i].id \in DOMAIN TagsWith(call[i]) /\ TagsWith(call[i])[call[i].id] = call[i].tag
    BY GoesOn, StaySound DEF RoundInv, TypeOK
  <1>2. CASE call[i].pc = "sweeping"
    BY <1>1, <1>2, AdvanceOrderly DEF Onward, Waiting
  <1>3. CASE call[i].pc # "sweeping"
    BY <1>1, <1>3, FillOrderly DEF Onward
  <1> QED BY <1>2, <1>3

LEMMA PartialEndsKeeps ==
    ASSUME ContinuationAssumption, RoundInv, NEW i \in DOMAIN call, PartialEnds(i)
    PROVE  RoundInv'
  <1> DEFINE c == Aged(call[i].held)
  <1>1. call[i].pc \in {"sweeping", "reaping"} /\ Takes(call[i], Onward(i, c), suspended)
    BY DEF PartialEnds, Continues, Onward
  <1>2. Sound(call[i].held, TagsWith(call[i])) /\ Join
    BY <1>1, GoesOn DEF Waiting
  <1>3. c # None => Sound(c, TagsWith(call[i])) /\ ~c.late
    <2>1. CASE call[i].held.remaining = 1
      BY <1>2, <2>1, AgedSound
    <2>2. CASE call[i].held.remaining # 1
      BY <1>2, <2>2, AgedSound
    <2> QED BY <2>1, <2>2
  <1> HIDE DEF c
  <1>4. Proper(Onward(i, c), TagsWith(call[i]))
    <2>1. CASE c = None
      BY <2>1, PlainProper DEF Onward, Placed
    <2>2. CASE c # None
      BY <1>2, <1>3, <2>2, OnwardOrderly, OrderlyProper
    <2> QED BY <2>1, <2>2
  <1> QED BY <1>1, <1>4, GoesOn, TakesKeeps

LEMMA DeadlineKeeps ==
    ASSUME RoundInv, Deadline
    PROVE  RoundInv'
  <1>1. /\ Join /\ Timed /\ Sound(cont, Tags) /\ cont' = [cont EXCEPT !.late = TRUE]
        /\ UNCHANGED <<fixed, call, fired, suspended>>
    BY DEF Deadline, RoundInv, Placed
  <1>2. /\ cont' \in Conts /\ cont'.received = cont.received /\ cont'.round = cont.round
        /\ cont'.remaining = cont.remaining
    BY <1>1 DEF Sound, Conts
  <1>3. /\ Tags' = Tags /\ Live' = Live /\ Join' = Join /\ Timed' = Timed
        /\ \A r, s : OfRound(r, s, Tags)' <=> OfRound(r, s, Tags)
    BY <1>1 DEF Tags, Live, Join, Timed, OfRound
  <1>4. Sound(cont, Tags)'
    BY <1>1, <1>2, <1>3 DEF Sound
  <1>5. /\ \A i \in Live : Sound(call[i].held, Tags)' /\ (call[i].pc # "dispatching" => Join)
        /\ \A f \in fired : SoundFire(f, Tags)'
    BY <1>1, <1>3 DEF Sound, SoundFire, RoundInv
  <1>6. TypeOK'
    BY <1>1 DEF TypeOK, RoundInv
  <1> QED BY <1>1, <1>3, <1>4, <1>5, <1>6 DEF RoundInv, Placed

LEMMA ResumeComes ==
    ASSUME ContinuationAssumption, RoundInv, NEW ch \in suspended, Resume(ch)
    PROVE  \E d : /\ Comes(d) /\ d.id = Len(call) + 1
                  /\ Takes(d, IF cont = None THEN Segment(cont, "refused") ELSE Advance(cont, d),
                           suspended \ {ch})
  <1> DEFINE d == Delivery(call[ch].slot, Untagged, FALSE, 0, ch)
  <1>1. Len(call) \in Nat /\ DOMAIN call = 1..Len(call) /\ ch \in DOMAIN call /\ call[ch] \in Deliveries
    BY LenProperties, ElementOfSeq DEF RoundInv, TypeOK
  <1>2. call[ch].slot \in Slots /\ Untagged \in Nat /\ ch \in 1..(Len(call) + 1)
    BY <1>1 DEF Deliveries, ContinuationAssumption, Untagged
  <1>3. Comes(d)
    BY <1>2, DeliveryComes
  <1>4. d.id = Len(call) + 1
    BY DEF Delivery
  <1> QED BY <1>3, <1>4 DEF Resume

LEMMA ResumeKeeps ==
    ASSUME ContinuationAssumption, RoundInv, NEW ch \in suspended, Resume(ch)
    PROVE  RoundInv'
  <1>1. PICK d : /\ Comes(d)
                 /\ Takes(d, IF cont = None THEN Segment(cont, "refused") ELSE Advance(cont, d),
                          suspended \ {ch})
    BY ResumeComes
  <1>2. suspended \ {ch} \in SUBSET DOMAIN call
    BY DEF RoundInv, TypeOK
  <1> QED BY <1>1, <1>2, EntersProper, TakesKeeps

LEMMA StillKeeps ==
    ASSUME RoundInv, UNCHANGED <<fixed, cont, call, fired>>, suspended' \subseteq suspended
    PROVE  RoundInv'
  <1>1. /\ Tags' = Tags /\ Live' = Live /\ Join' = Join /\ Timed' = Timed
        /\ \A r, s : OfRound(r, s, Tags)' <=> OfRound(r, s, Tags)
    BY DEF Tags, Live, Join, Timed, OfRound
  <1>2. /\ \A c : Sound(c, Tags)' <=> Sound(c, Tags)
        /\ \A f : SoundFire(f, Tags)' <=> SoundFire(f, Tags)
    BY <1>1 DEF Sound, SoundFire
  <1>3. TypeOK'
    BY DEF TypeOK, RoundInv
  <1> QED BY <1>1, <1>2, <1>3 DEF RoundInv, Placed

LEMMA RoundInit == ASSUME ContinuationAssumption PROVE Init => RoundInv
  <1> SUFFICES ASSUME Init PROVE RoundInv
    OBVIOUS
  <1>1. PICK f \in Installs : Install(f)
    BY DEF Init
  <1>2. fixed \in Installs /\ fixed.remaining \in Nat
    BY <1>1 DEF Install, ContinuationAssumption
  <1>3. call = <<>> /\ suspended = {} /\ fired = {} /\ DOMAIN call = {}
    BY DEF Init
  <1>4. TypeOK
    BY <1>2, <1>3, EmptySeq DEF TypeOK
  <1>5. cont = [received |-> Empty, remaining |-> fixed.remaining, round |-> 0, late |-> FALSE]
    BY <1>1 DEF Install
  <1>6. Placed(cont, Tags)
    BY <1>2, <1>5 DEF Placed, Sound, Conts, OfRound, Empty
  <1> QED BY <1>3, <1>4, <1>6 DEF RoundInv, Live

LEMMA RoundStep == ASSUME ContinuationAssumption PROVE RoundInv /\ [Next]_vars => RoundInv'
  <1> SUFFICES ASSUME RoundInv, [Next]_vars PROVE RoundInv'
    OBVIOUS
  <1>1. CASE Delivered
    BY <1>1, DeliveredComes, ReceiveKeeps
  <1>2. CASE Deadline
    BY <1>2, DeadlineKeeps
  <1>3. ASSUME NEW i \in DOMAIN call, Loops(i) PROVE RoundInv'
    BY <1>3, LoopsComes, ReceiveKeeps
  <1>4. ASSUME NEW i \in DOMAIN call, PartialEnds(i) PROVE RoundInv'
    BY <1>4, PartialEndsKeeps
  <1>5. ASSUME NEW i \in DOMAIN call, ForwardReturns(i) PROVE RoundInv'
    BY <1>5, ForwardReturnsKeeps
  <1>6. ASSUME NEW i \in DOMAIN call, JoinReturns(i) PROVE RoundInv'
    BY <1>6, JoinReturnsKeeps
  <1>7. ASSUME NEW i \in DOMAIN call, ForwardFails(i) \/ JoinFails(i) PROVE RoundInv'
    BY <1>7, UndeliveredKeeps DEF ForwardFails, JoinFails
  <1>8. ASSUME NEW ch \in suspended, Resume(ch) PROVE RoundInv'
    BY <1>8, ResumeKeeps
  <1>9. ASSUME NEW ch \in suspended, Abandon(ch) PROVE RoundInv'
    <2>1. UNCHANGED <<fixed, cont, call, fired>> /\ suspended' \subseteq suspended
      BY <1>9 DEF Abandon
    <2> QED BY <2>1, StillKeeps
  <1>10. CASE UNCHANGED vars
    BY <1>10, StillKeeps DEF vars
  <1> QED BY <1>1, <1>2, <1>3, <1>4, <1>5, <1>6, <1>7, <1>8, <1>9, <1>10 DEF Next

(* The rounds of a join, however many deliveries interleave in their       *)
(* advances: RoundInv holds in every state.                                *)
THEOREM RoundInvCorrect == ASSUME ContinuationAssumption PROVE Spec => []RoundInv
  BY RoundInit, RoundStep, PTL DEF Spec

(* "drops the straggler (MUST)" (continuation.py _advance_join()): what a  *)
(* dispatch of a join with a deadline carries was sent for one round, and  *)
(* only a partial fire misses a slot.                                      *)
THEOREM RoundPureCorrect == ASSUME ContinuationAssumption PROVE Spec => []RoundPure
  <1>1. RoundInv => RoundPure
    <2> SUFFICES ASSUME RoundInv, NEW f \in fired
                 PROVE  /\ f.full => 0 \notin {f.of[s] : s \in Slots}
                        /\ Join /\ Timed => \A i \in Named(f) : call[i].tag \in {Untagged, f.round}
      BY DEF RoundPure
    <2>1. SoundFire(f, Tags)
      BY DEF RoundInv
    <2> QED BY <2>1 DEF SoundFire, OfRound, Named, Fires, Tags
  <1> QED BY <1>1, RoundInvCorrect, PTL

-----------------------------------------------------------------------------
(* With a local target: at most one call waits, for one dispatch it has    *)
(* not been charged for, which names all that is left at the path.         *)
Spent == fixed.policy = "fire-partial" /\ fixed.remaining # Forever

Left(c) == IF c = None THEN 0 ELSE c.remaining

Kept(i, S, E) ==
    \/ i \in mailbox \cup S
    \/ \E f \in fired : i \in Named(f) /\ (f.full => f \in E)
    \/ \E m \in markers : i \in m.of

(* Where the dispatches E are charged for and c is at the path.            *)
Basis(c, E) ==
    /\ E \subseteq fired /\ IsFiniteSet(E)
    /\ fixed.remaining # Forever => Cardinality(E) + Left(c) = fixed.remaining
    /\ ~Spent => \A i \in DOMAIN call : Kept(i, Contents(c), E)

WaitsFor(i, f) ==
    /\ Mine(i) \ ended = {f}
    /\ Contents(cont) \subseteq Named(f)
    /\ f.full <=> call[i].pc = "dispatching"
    /\ f.full => i \in Named(f)
    /\ ~f.full => fixed.policy = "fire-partial" /\ \A g \in Mine(i) : ~g.full

LocalInv ==
    fixed.target = "local" =>
        /\ Basis(cont, ended)
        /\ \A f \in fired : f.by \in DOMAIN call
        /\ \A i, j \in Live : i = j
        /\ \A i \in Live :
             /\ cont # None /\ call[i].held.remaining = cont.remaining
             /\ \E f \in fired : WaitsFor(i, f)

(* What becomes of the calls, once d has taken a segment.                  *)
LEMMA CallsAfter ==
    ASSUME RoundInv, NEW d, Comes(d), NEW seg, Proper(seg, TagsWith(d)), NEW left,
           Takes(d, seg, left), Live \subseteq {d.id}
    PROVE  /\ DOMAIN call' = DOMAIN call \cup {d.id}
           /\ call'[d.id].pc = seg.pc /\ call'[d.id].held = seg.held
           /\ Live' = {i \in {d.id} : seg.pc \in Waiting}
           /\ cont' = seg.cont /\ markers' = markers \cup seg.marks
           /\ fired' = fired \cup seg.fire /\ fixed' = fixed
           /\ mailbox' = IF CleansUp(seg.pc) THEN mailbox \ {d.id} ELSE mailbox \cup {d.id}
  <1>1. /\ DOMAIN call' = DOMAIN call \cup {d.id}
        /\ \A i \in DOMAIN call \ {d.id} : call'[i] = call[i]
        /\ call'[d.id].pc = seg.pc /\ call'[d.id].held = seg.held
    BY TagsGrow DEF RoundInv
  <1>2. Live' = {i \in {d.id} : seg.pc \in Waiting}
    BY <1>1 DEF Live, Waiting
  <1> QED BY <1>1, <1>2 DEF Takes

(* Nothing is dispatched: c stays at the path.                             *)
LEMMA PlainLocal ==
    ASSUME RoundInv, fixed.target = "local", NEW d, Comes(d), Live \subseteq {d.id},
           NEW seg, Proper(seg, TagsWith(d)), seg.pc \notin Waiting, seg.fire = {},
           NEW left, Takes(d, seg, left),
           Basis(seg.cont, ended'), \A f \in fired : f.by \in DOMAIN call,
           seg.pc = "ok" => Spent \/ \E f \in fired : d.id \in Named(f) /\ f \in ended'
    PROVE  LocalInv'
  <1>1. /\ DOMAIN call' = DOMAIN call \cup {d.id} /\ Live' = {}
        /\ cont' = seg.cont /\ markers' = markers \cup seg.marks
        /\ fired' = fired /\ fixed' = fixed
        /\ mailbox' = IF CleansUp(seg.pc) THEN mailbox \ {d.id} ELSE mailbox \cup {d.id}
    BY CallsAfter
  <1>2. ~Spent => \A i \in DOMAIN call' : Kept(i, Contents(cont), ended)'
    <2> SUFFICES ASSUME ~Spent, NEW i \in DOMAIN call' PROVE Kept(i, Contents(cont), ended)'
      OBVIOUS
    <2>1. Contents(cont)' = Contents(seg.cont)
      BY <1>1 DEF Contents, Filled
    <2>2. CASE i = d.id
      <3>1. CASE seg.pc # "ok"
        BY <1>1, <2>2, <3>1 DEF Kept, CleansUp
      <3>2. CASE seg.pc = "ok"
        <4>1. PICK f \in fired : d.id \in Named(f) /\ f \in ended'
          BY <3>2 DEF Spent
        <4> QED BY <1>1, <2>2, <4>1 DEF Kept, Named
      <3> QED BY <3>1, <3>2
    <2>3. CASE i # d.id
      BY <1>1, <2>1, <2>3 DEF Kept, Basis, Named
    <2> QED BY <2>2, <2>3
  <1>3. Basis(cont, ended)'
    BY <1>1, <1>2 DEF Basis, Spent, Left
  <1> QED BY <1>1, <1>3 DEF LocalInv

(* A segment that starts from c, after the dispatches E are charged for.   *)
LEMMA OrderlyLocal ==
    ASSUME ContinuationAssumption, RoundInv, fixed.target = "local",
           NEW d, Comes(d), Live \subseteq {d.id},
           NEW seg, NEW c, Orderly(seg, c, d, TagsWith(d)), NEW left, Takes(d, seg, left),
           c # None, c.remaining # Forever => c.remaining > 0,
           Basis(c, ended'), \A f \in fired : f.by \in DOMAIN call,
           Mine(d.id) \subseteq ended',
           Mine(d.id) # {} => /\ \A g \in Mine(d.id) : ~g.full
                              /\ seg.pc \in Waiting => seg.pc = "dispatching"
    PROVE  LocalInv'
  <1>0. Proper(seg, TagsWith(d))
    BY OrderlyProper
  <1>1. /\ DOMAIN call' = DOMAIN call \cup {d.id}
        /\ call'[d.id].pc = seg.pc /\ call'[d.id].held = seg.held
        /\ Live' = {i \in {d.id} : seg.pc \in Waiting}
        /\ cont' = seg.cont /\ markers' = markers \cup seg.marks
        /\ fired' = fired \cup seg.fire /\ fixed' = fixed
        /\ mailbox' = IF CleansUp(seg.pc) THEN mailbox \ {d.id} ELSE mailbox \cup {d.id}
    BY <1>0, CallsAfter
  <1>2. Contents(cont)' = Contents(seg.cont)
    BY <1>1 DEF Contents, Filled
  <1>3. seg.cont # None /\ seg.cont.remaining = c.remaining
    BY NoneUnsound DEF Orderly, Sound
  <1>4. ~Spent => \A i \in DOMAIN call' : Kept(i, Contents(cont), ended)'
    <2> SUFFICES ASSUME ~Spent, NEW i \in DOMAIN call' PROVE Kept(i, Contents(cont), ended)'
      OBVIOUS
    <2>1. Contents(c) \subseteq Contents(seg.cont) \cup Marked(seg)
      BY DEF Orderly
    <2>2. CASE i = d.id
      BY <1>1, <1>2, <2>2 DEF Orderly, Kept, Marked, CleansUp
    <2>3. CASE i # d.id
      <3>1. Kept(i, Contents(c), ended')
        BY <1>1, <2>3 DEF Basis
      <3> QED BY <1>1, <1>2, <2>1, <2>3, <3>1 DEF Kept, Marked, Named
    <2> QED BY <2>2, <2>3
  <1>5. Basis(cont, ended)'
    BY <1>1, <1>3, <1>4 DEF Basis, Spent, Left
  <1>6. \A f \in fired' : f.by \in DOMAIN call'
    BY <1>1 DEF Orderly, Awaits
  <1>7. ASSUME NEW i \in Live'
        PROVE  /\ cont' # None /\ call'[i].held.remaining = cont'.remaining
               /\ \E f \in fired' : WaitsFor(i, f)'
    <2>1. i = d.id /\ seg.pc \in Waiting
      BY <1>1, <1>7
    <2>2. PICK f : Awaits(seg, d, f)
      BY <2>1 DEF Orderly
    <2>3. seg.held.remaining = c.remaining
      BY <2>1 DEF Orderly
    <2>4. f \notin ended'
      <3> SUFFICES ASSUME f \in ended' PROVE FALSE
        OBVIOUS
      <3>1. f \in Mine(d.id)
        BY <2>2 DEF Awaits, Basis, Mine
      <3> QED BY <2>1, <2>2, <3>1 DEF Awaits
    <2>5. Mine(i)' = Mine(d.id) \cup {f}
      BY <1>1, <2>1, <2>2 DEF Mine, Awaits
    <2>6. Mine(i)' \ ended' = {f}
      BY <2>4, <2>5
    <2>7. WaitsFor(i, f)'
      BY <1>1, <1>2, <2>1, <2>2, <2>5, <2>6 DEF WaitsFor, Awaits, Named
    <2>8. f \in fired'
      BY <1>1, <2>2 DEF Awaits
    <2> QED BY <1>1, <1>3, <2>1, <2>3, <2>7, <2>8
  <1> QED BY <1>1, <1>5, <1>6, <1>7 DEF LocalInv

(* The dispatch a call waits for is over, and charged for.                 *)
LEMMA AgedBasis ==
    ASSUME RoundInv, LocalInv, fixed.target = "local", NEW i \in Live,
           NEW E, E = ended \cup Mine(i)
    PROVE  /\ Basis(IF fixed.remaining = Forever THEN cont ELSE Aged(call[i].held), E)
           /\ Join => Basis(Aged(call[i].held), E)
           /\ call[i].pc = "dispatching" => \E f \in fired : i \in Named(f) /\ f \in E
  <1> DEFINE c == call[i].held
  <1>1. PICK f \in fired : WaitsFor(i, f)
    BY DEF LocalInv
  <1>2. /\ cont # None /\ c.remaining = cont.remaining /\ Sound(cont, Tags) /\ Sound(c, Tags)
        /\ Basis(cont, ended)
    BY DEF LocalInv, RoundInv, Placed
  <1>3. E = ended \cup {f} /\ f \notin ended /\ Mine(i) \subseteq fired
    BY <1>1 DEF WaitsFor, Mine
  <1>4. E \subseteq fired /\ IsFiniteSet(E) /\ Cardinality(E) = Cardinality(ended) + 1
    <2>1. IsFiniteSet(ended) /\ ended \subseteq fired
      BY <1>2 DEF Basis
    <2>2. IsFiniteSet(ended \cup {f}) /\ Cardinality(ended \cup {f}) = Cardinality(ended) + 1
      BY <1>3, <2>1, FS_AddElement
    <2> QED BY <1>3, <2>1, <2>2
  <1>5. ~Spent => \A j \in DOMAIN call : Kept(j, {}, E)
    BY <1>1, <1>2, <1>3 DEF Basis, Kept, WaitsFor
  <1>7. fixed.remaining # Forever => Cardinality(E) + Left(Aged(c)) = fixed.remaining
    <2> SUFFICES ASSUME fixed.remaining # Forever
                 PROVE  Cardinality(E) + Left(Aged(c)) = fixed.remaining
      OBVIOUS
    <2>1. Cardinality(ended) + c.remaining = fixed.remaining /\ c.remaining # Forever
      BY <1>2 DEF Basis, Left, Sound
    <2>2. c.remaining \in Nat /\ Cardinality(ended) \in Nat
      BY <1>2, FS_CardinalityType DEF Sound, Conts, Basis
    <2>3. CASE c.remaining = 1
      <3>1. Aged(c) = None
        BY <1>2, <2>3, AgedSound
      <3> QED BY <1>4, <2>1, <2>2, <2>3, <3>1 DEF Left
    <2>4. CASE c.remaining # 1
      <3>1. Sound(Aged(c), Tags) /\ Aged(c).remaining = c.remaining - 1
        BY <1>2, <2>1, <2>4, AgedSound
      <3>2. Aged(c) # None
        BY <3>1, NoneUnsound DEF Sound
      <3> QED BY <1>4, <2>1, <2>2, <3>1, <3>2 DEF Left
    <2> QED BY <2>3, <2>4
  <1>8. Basis(Aged(c), E)
    <2>1. \A j, S : Kept(j, {}, E) => Kept(j, S, E)
      BY DEF Kept
    <2> QED BY <1>4, <1>5, <1>7, <2>1 DEF Basis
  <1>9. fixed.remaining = Forever => Basis(cont, E)
    <2>1. \A j, S : Kept(j, {}, E) => Kept(j, S, E)
      BY DEF Kept
    <2> QED BY <1>4, <1>5, <2>1 DEF Basis
  <1>10. call[i].pc = "dispatching" => f \in fired /\ i \in Named(f) /\ f \in E
    BY <1>1, <1>3 DEF WaitsFor
  <1> QED BY <1>8, <1>9, <1>10

LEMMA NewcomerAlone ==
    ASSUME RoundInv, LocalInv, fixed.target = "local", Live = {}, NEW d, d.id = Len(call) + 1
    PROVE  Mine(d.id) = {} /\ Live \subseteq {d.id}
  <1>1. d.id \notin DOMAIN call
    BY LenProperties DEF RoundInv, TypeOK
  <1> QED BY <1>1 DEF LocalInv, Mine

(* A delivery enters, which finds something to advance or does not.        *)
LEMMA EntersLocal ==
    ASSUME ContinuationAssumption, RoundInv, LocalInv, fixed.target = "local", Live = {},
           NEW d, Comes(d), d.id = Len(call) + 1,
           NEW seg, cont = None => seg = Segment(cont, "refused"),
           cont # None => Orderly(seg, cont, d, TagsWith(d)),
           NEW left, Takes(d, seg, left), ended' = ended
    PROVE  LocalInv'
  <1>1. Mine(d.id) = {} /\ Live \subseteq {d.id}
    BY NewcomerAlone
  <1>2. Basis(cont, ended') /\ \A f \in fired : f.by \in DOMAIN call
    BY DEF LocalInv
  <1>3. CASE cont = None
    <2>1. seg.cont = cont /\ seg.pc = "refused" /\ seg.fire = {}
      BY <1>3 DEF Segment
    <2>2. Proper(seg, TagsWith(d))
      BY <1>3, PlainProper DEF Placed
    <2> QED BY <1>1, <1>2, <2>1, <2>2, PlainLocal DEF Waiting
  <1>4. CASE cont # None
    <2>1. Sound(cont, Tags)
      BY <1>4 DEF RoundInv, Placed
    <2>2. cont.remaining # Forever => cont.remaining > 0
      BY <2>1 DEF Sound, Conts, Forever
    <2> QED BY <1>1, <1>2, <1>4, <2>2, OrderlyLocal
  <1> QED BY <1>3, <1>4

LEMMA DeliveredLocal ==
    ASSUME ContinuationAssumption, RoundInv, LocalInv, fixed.target = "local", Delivered
    PROVE  LocalInv'
  <1>1. PICK d, sweeps : Comes(d) /\ d.id = Len(call) + 1 /\ Receive(d, sweeps)
    BY DeliveredComes
  <1> DEFINE seg == IF cont = None THEN Segment(cont, "refused") ELSE SweepFirst(d, sweeps)
  <1>2. Takes(d, seg, suspended)
    BY <1>1 DEF Receive
  <1>3. Live = {} /\ ended' = ended
    BY DEF Delivered
  <1>4. cont # None => Orderly(seg, cont, d, TagsWith(d))
    BY <1>1, SweepFirstOrderly, StaySound DEF RoundInv, Placed, TypeOK, Comes
  <1>5. cont = None => seg = Segment(cont, "refused")
    OBVIOUS
  <1> HIDE DEF seg
  <1> QED BY <1>1, <1>2, <1>3, <1>4, <1>5, EntersLocal

LEMMA ResumeLocal ==
    ASSUME ContinuationAssumption, RoundInv, LocalInv, fixed.target = "local",
           NEW ch \in suspended, Resume(ch)
    PROVE  LocalInv'
  <1>1. PICK d : /\ Comes(d) /\ d.id = Len(call) + 1
                 /\ Takes(d, IF cont = None THEN Segment(cont, "refused") ELSE Advance(cont, d),
                          suspended \ {ch})
    BY ResumeComes
  <1> DEFINE seg == IF cont = None THEN Segment(cont, "refused") ELSE Advance(cont, d)
  <1>2. Takes(d, seg, suspended \ {ch})
    BY <1>1
  <1>3. Live = {} /\ ended' = ended
    BY DEF Resume
  <1>4. cont # None => Orderly(seg, cont, d, TagsWith(d))
    BY <1>1, AdvanceOrderly, StaySound DEF RoundInv, Placed, TypeOK, Comes
  <1>5. cont = None => seg = Segment(cont, "refused")
    OBVIOUS
  <1> HIDE DEF seg
  <1> QED BY <1>1, <1>2, <1>3, <1>4, <1>5, EntersLocal

(* The one call that waits goes on.                                        *)
LEMMA AloneGoesOn ==
    ASSUME RoundInv, LocalInv, fixed.target = "local", NEW i \in DOMAIN call, call[i].pc \in Waiting
    PROVE  /\ i \in Live /\ Live \subseteq {call[i].id} /\ call[i].id = i /\ Comes(call[i])
           /\ \A f \in fired : f.by \in DOMAIN call
           /\ Basis(cont, ended) /\ cont # None
  BY GoesOn DEF LocalInv

LEMMA ReturnsLocal ==
    ASSUME RoundInv, LocalInv, fixed.target = "local", NEW i \in DOMAIN call,
           ForwardReturns(i) \/ JoinReturns(i)
    PROVE  LocalInv'
  <1> DEFINE E == ended \cup Mine(i)
  <1>1. call[i].pc = "dispatching" /\ ended' = E
    BY DEF ForwardReturns, JoinReturns
  <1>2. /\ i \in Live /\ Live \subseteq {call[i].id} /\ call[i].id = i /\ Comes(call[i])
        /\ \A f \in fired : f.by \in DOMAIN call
        /\ Sound(call[i].held, TagsWith(call[i])) /\ Sound(call[i].held, Tags)
    BY <1>1, AloneGoesOn, GoesOn DEF Waiting
  <1>3. /\ Basis(IF fixed.remaining = Forever THEN cont ELSE Aged(call[i].held), E)
        /\ Join => Basis(Aged(call[i].held), E)
        /\ \E f \in fired : i \in Named(f) /\ f \in E
    BY <1>1, <1>2, AgedBasis
  <1>4. Placed(Aged(call[i].held), TagsWith(call[i])) /\ Placed(cont, TagsWith(call[i]))
    <2>1. Aged(call[i].held) # None => Sound(Aged(call[i].held), TagsWith(call[i]))
      BY <1>2, AgedSound
    <2>2. Aged(call[i].held) # None => Aged(call[i].held).received = Empty
      BY <1>2, AgedEmpty
    <2> QED BY <1>2, <2>1, <2>2, StaySound DEF Placed, RoundInv
  <1>5. ASSUME NEW e, Basis(e, E), Placed(e, TagsWith(call[i])), NEW seg,
               seg \in {Segment(e, "ok"), Mark(Segment(e, "ok"), "dispatch_code", {i})},
               Takes(call[i], seg, suspended)
        PROVE  LocalInv'
    <2>1. Proper(seg, TagsWith(call[i]))
      BY <1>5, PlainProper
    <2>2. seg.cont = e /\ seg.pc = "ok" /\ seg.fire = {}
      BY <1>5 DEF Segment, Mark
    <2> HIDE DEF E
    <2> QED BY <1>1, <1>2, <1>3, <1>5, <2>1, <2>2, PlainLocal DEF Waiting
  <1>6. CASE JoinReturns(i)
    <2>1. Join /\ Takes(call[i], Segment(Aged(call[i].held), "ok"), suspended)
      BY <1>6 DEF JoinReturns, Continues
    <2> QED BY <1>3, <1>4, <1>5, <2>1
  <1>7. CASE ForwardReturns(i)
    <2> DEFINE e == IF call[i].held.remaining # Forever THEN Aged(call[i].held) ELSE cont
    <2>1. Basis(e, E) /\ Placed(e, TagsWith(call[i]))
      <3>1. call[i].held.remaining = Forever <=> fixed.remaining = Forever
        BY <1>2 DEF Sound
      <3> HIDE DEF E
      <3> QED BY <1>3, <1>4, <3>1
    <2>2. PICK bad \in BOOLEAN :
             Takes(call[i], IF bad /\ ~fixed.onError THEN Mark(Segment(e, "ok"), "dispatch_code", {i})
                                                     ELSE Segment(e, "ok"), suspended)
      BY <1>7 DEF ForwardReturns, Continues
    <2> HIDE DEF e, E
    <2> QED BY <1>5, <2>1, <2>2
  <1> QED BY <1>6, <1>7

LEMMA FailsLocal ==
    ASSUME RoundInv, LocalInv, fixed.target = "local", NEW i \in DOMAIN call,
           ForwardFails(i) \/ JoinFails(i)
    PROVE  LocalInv'
  <1> DEFINE seg == Mark(Segment(cont, "refused"), "transport_code", {i})
  <1>1. call[i].pc = "dispatching" /\ ended' = ended /\ Takes(call[i], seg, suspended)
    BY DEF ForwardFails, JoinFails, Undelivered, Continues
  <1>2. /\ i \in Live /\ Live \subseteq {call[i].id} /\ Comes(call[i])
        /\ \A f \in fired : f.by \in DOMAIN call
        /\ Basis(cont, ended)
    BY <1>1, AloneGoesOn DEF Waiting
  <1>3. Proper(seg, TagsWith(call[i]))
    BY <1>2, PlainProper, StaySound DEF RoundInv, Placed
  <1>4. seg.cont = cont /\ seg.pc = "refused" /\ seg.fire = {}
    BY DEF Segment, Mark
  <1> HIDE DEF seg
  <1> QED BY <1>1, <1>2, <1>3, <1>4, PlainLocal DEF Waiting

LEMMA PartialEndsLocal ==
    ASSUME ContinuationAssumption, RoundInv, LocalInv, fixed.target = "local",
           NEW i \in DOMAIN call, PartialEnds(i)
    PROVE  LocalInv'
  <1> DEFINE c == Aged(call[i].held)
             E == ended \cup Mine(i)
  <1>1. /\ call[i].pc \in {"sweeping", "reaping"} /\ Takes(call[i], Onward(i, c), suspended)
        /\ ended' = E
    BY DEF PartialEnds, Continues, Onward
  <1>2. /\ i \in Live /\ Live \subseteq {call[i].id} /\ call[i].id = i /\ Comes(call[i])
        /\ \A f \in fired : f.by \in DOMAIN call
        /\ Sound(call[i].held, TagsWith(call[i])) /\ Join
    BY <1>1, AloneGoesOn, GoesOn DEF Waiting
  <1>3. PICK f \in fired : WaitsFor(i, f)
    BY <1>2 DEF LocalInv
  <1>4. fixed.policy = "fire-partial" /\ \A g \in Mine(i) : ~g.full
    BY <1>1, <1>3 DEF WaitsFor
  <1>5. Basis(c, E)
    BY <1>2, AgedBasis
  <1>6. c = None <=> call[i].held.remaining = 1
    <2>1. CASE call[i].held.remaining = 1
      BY <1>2, <2>1, AgedSound
    <2>2. CASE call[i].held.remaining # 1
      BY <1>2, <2>2, AgedSound, NoneUnsound DEF Sound
    <2> QED BY <2>1, <2>2
  <1>7. c # None => Sound(c, TagsWith(call[i])) /\ ~c.late
    BY <1>2, <1>6, AgedSound
  <1> HIDE DEF c
  <1>8. CASE c = None
    <2> DEFINE seg == Segment(c, "ok")
    <2>1. Takes(call[i], seg, suspended)
      BY <1>1, <1>8 DEF Onward
    <2>2. Spent
      BY <1>2, <1>4, <1>6, <1>8 DEF Spent, Sound, Forever
    <2>3. Proper(seg, TagsWith(call[i]))
      BY <1>8, PlainProper DEF Placed
    <2>4. seg.cont = c /\ seg.pc = "ok" /\ seg.fire = {}
      BY DEF Segment
    <2> HIDE DEF seg, E
    <2> QED BY <1>1, <1>2, <1>5, <2>1, <2>2, <2>3, <2>4, PlainLocal DEF Waiting
  <1>9. CASE c # None
    <2> DEFINE seg == Onward(i, c)
    <2>1. /\ Orderly(seg, c, call[i], TagsWith(call[i]))
          /\ seg.pc \in Waiting => seg.pc = "dispatching"
      BY <1>2, <1>7, <1>9, OnwardOrderly
    <2>2. c.remaining # Forever => c.remaining > 0
      BY <1>7, <1>9 DEF Sound, Conts, Forever
    <2>3. Mine(call[i].id) \subseteq E
      BY <1>2
    <2> HIDE DEF seg, E
    <2>4. Takes(call[i], seg, suspended)
      BY <1>1 DEF seg
    <2> QED BY <1>1, <1>2, <1>4, <1>5, <1>9, <2>1, <2>2, <2>3, <2>4, OrderlyLocal
  <1> QED BY <1>8, <1>9

LEMMA DeadlineLocal ==
    ASSUME RoundInv, LocalInv, fixed.target = "local", Deadline
    PROVE  LocalInv'
  <1>1. /\ cont \in Conts /\ cont # None /\ cont' = [cont EXCEPT !.late = TRUE]
        /\ UNCHANGED <<fixed, call, mailbox, markers, fired, ended>>
    BY DEF Deadline, RoundInv, Placed, Sound
  <1>2. cont' \in Conts /\ cont'.received = cont.received /\ cont'.remaining = cont.remaining
    BY <1>1 DEF Conts
  <1>3. Contents(cont)' = Contents(cont) /\ Left(cont)' = Left(cont) /\ cont' # None
    BY <1>1, <1>2, NoneUnsound DEF Contents, Filled, Left
  <1>4. \A j, S, E : Kept(j, S, E)' <=> Kept(j, S, E)
    BY <1>1 DEF Kept, Named
  <1>5. Basis(cont, ended)'
    BY <1>1, <1>3, <1>4 DEF LocalInv, Basis, Spent, Kept, Named
  <1>6. \A i, f : WaitsFor(i, f)' <=> WaitsFor(i, f)
    BY <1>1, <1>3 DEF WaitsFor, Mine, Named
  <1> QED BY <1>1, <1>2, <1>3, <1>5, <1>6 DEF LocalInv, Live

LEMMA StillLocal ==
    ASSUME LocalInv, UNCHANGED <<fixed, cont, call, mailbox, markers, fired, ended>>
    PROVE  LocalInv'
  BY DEF LocalInv, Basis, Kept, Named, Contents, Filled, Left, Spent, Live, WaitsFor, Mine

LEMMA LocalInit == ASSUME ContinuationAssumption PROVE Init => LocalInv
  <1> SUFFICES ASSUME Init PROVE LocalInv
    OBVIOUS
  <1>1. PICK f \in Installs : Install(f)
    BY DEF Init
  <1>2. /\ cont.remaining = fixed.remaining /\ fixed.remaining \in Nat
        /\ call = <<>> /\ fired = {} /\ ended = {}
    BY <1>1 DEF Install, Init, ContinuationAssumption
  <1>3. cont # None
    <2>1. cont \in Conts
      BY <1>1, <1>2 DEF Install, Conts, Empty
    <2> QED BY <2>1, NoneUnsound
  <1>4. DOMAIN call = {} /\ Live = {}
    BY <1>2 DEF Live
  <1>5. Basis(cont, ended)
    BY <1>2, <1>3, <1>4, FS_EmptySet DEF Basis, Left
  <1> QED BY <1>2, <1>4, <1>5 DEF LocalInv

LEMMA LocalStep ==
    ASSUME ContinuationAssumption
    PROVE  RoundInv /\ LocalInv /\ [Next]_vars => LocalInv'
  <1> SUFFICES ASSUME RoundInv, LocalInv, [Next]_vars PROVE LocalInv'
    OBVIOUS
  <1>1. fixed' = fixed
    <2>1. \A d, seg, left : Takes(d, seg, left) => fixed' = fixed
      BY DEF Takes
    <2> QED
      BY <2>1 DEF Next, Delivered, Deadline, Loops, PartialEnds, ForwardReturns, JoinReturns, ForwardFails,
                  JoinFails, Undelivered, Continues, Receive, Resume, Abandon, vars
  <1>2. CASE fixed.target # "local"
    BY <1>1, <1>2 DEF LocalInv
  <1>3. CASE fixed.target = "local"
    <2>1. CASE Delivered
      BY <1>3, <2>1, DeliveredLocal
    <2>2. CASE Deadline
      BY <1>3, <2>2, DeadlineLocal
    <2>3. ASSUME NEW i \in DOMAIN call, PartialEnds(i) PROVE LocalInv'
      BY <1>3, <2>3, PartialEndsLocal
    <2>4. ASSUME NEW i \in DOMAIN call, ForwardReturns(i) \/ JoinReturns(i) PROVE LocalInv'
      BY <1>3, <2>4, ReturnsLocal
    <2>5. ASSUME NEW i \in DOMAIN call, ForwardFails(i) \/ JoinFails(i) PROVE LocalInv'
      BY <1>3, <2>5, FailsLocal
    <2>6. ASSUME NEW ch \in suspended, Resume(ch) PROVE LocalInv'
      BY <1>3, <2>6, ResumeLocal
    <2>7. ASSUME NEW ch \in suspended, Abandon(ch) PROVE LocalInv'
      BY <2>7, StillLocal DEF Abandon
    <2>8. CASE UNCHANGED vars
      BY <2>8, StillLocal DEF vars
    <2>9. \A i \in DOMAIN call : ~Loops(i)
      BY <1>3 DEF Loops
    <2> QED BY <2>1, <2>2, <2>3, <2>4, <2>5, <2>6, <2>7, <2>8, <2>9 DEF Next
  <1> QED BY <1>2, <1>3

(* A target on the peer is dispatched to without suspending, so only one   *)
(* delivery is ever between its read of the continuation and its write     *)
(* (continuation.py _advance_join(), _advance_forward()).                  *)
THEOREM LocalInvCorrect == ASSUME ContinuationAssumption PROVE Spec => []LocalInv
  <1>1. Init => RoundInv /\ LocalInv
    BY RoundInit, LocalInit
  <1>2. RoundInv /\ LocalInv /\ [Next]_vars => (RoundInv /\ LocalInv)'
    BY RoundStep, LocalStep
  <1> QED BY <1>1, <1>2, PTL DEF Spec

(* "a counted join fire more times than it was installed for"              *)
(* (continuation.py _age_join_after_fire()): with a target dispatched to   *)
(* without suspending it does not, and the inbox and the join lose none of *)
(* the deliveries.                                                         *)
THEOREM OneAtATimeCorrect == ASSUME ContinuationAssumption PROVE Spec => []OneAtATime
  <1>1. RoundInv /\ LocalInv => OneAtATime
    <2> SUFFICES ASSUME RoundInv, LocalInv, fixed.target = "local"
                 PROVE  CountHolds /\ (~Spent => \A i \in DOMAIN call : Accounted(i))
      BY DEF OneAtATime, Spent
    <2>1. Basis(cont, ended)
      BY DEF LocalInv
    <2>2. CountHolds
      <3> SUFFICES ASSUME fixed.remaining # Forever PROVE Cardinality(ended) <= fixed.remaining
        BY DEF CountHolds
      <3>1. Left(cont) \in Nat
        BY DEF Left, RoundInv, Placed, Sound, Conts
      <3>2. Cardinality(ended) \in Nat /\ Cardinality(ended) + Left(cont) = fixed.remaining
        BY <2>1, FS_CardinalityType DEF Basis
      <3> QED BY <3>1, <3>2
    <2>3. ~Spent => \A i \in DOMAIN call : Accounted(i)
      BY <2>1 DEF Basis, Kept, Accounted
    <2> QED BY <2>2, <2>3
  <1> QED BY <1>1, RoundInvCorrect, LocalInvCorrect, PTL

-----------------------------------------------------------------------------
(* Relays.  That a relay's answer accounts for the message is kept by      *)
(* telling where every message of an answered request is; an answer comes  *)
(* back along the chain of requests for the same message (SameMessage).    *)

Stages == {"new", "waiting", "forwarded", "queued", "refused", "lost"}
Routes == Seq(Relays)
SenderDeadlines == {DeadlineOf[m] : m \in Msgs}
Hops == Relays \cup {Nothing}
Requests == [msg : Msgs, at : Relays, ttl : Int, route : Routes, deadline : SenderDeadlines,
             parent : Nat, stage : Stages, next : Hops]

(* A request at another stage, and one that waits for the next relay. *)
With(o, how) == [o EXCEPT !.stage = how]
WaitingFor(o, next) == [o EXCEPT !.stage = "waiting", !.next = next]

LEMMA Replaced ==
    ASSUME NEW o \in Requests, NEW how \in Stages
    PROVE  /\ With(o, how) \in Requests
           /\ With(o, how).msg = o.msg
           /\ With(o, how).parent = o.parent
           /\ With(o, how).stage = how
  BY DEF Requests, With

LEMMA Waits ==
    ASSUME NEW o \in Requests, NEW next \in Hops
    PROVE  /\ WaitingFor(o, next) \in Requests
           /\ WaitingFor(o, next).msg = o.msg
           /\ WaitingFor(o, next).parent = o.parent
           /\ WaitingFor(o, next).stage = "waiting"
  BY DEF Requests, Stages, WaitingFor

LEMMA Asked ==
    ASSUME NEW m \in Msgs, NEW r \in Relays, NEW ttl \in Int, NEW route \in Routes,
           NEW deadline \in SenderDeadlines, NEW parent \in Nat
    PROVE  /\ Op(m, r, ttl, route, deadline, parent) \in Requests
           /\ Op(m, r, ttl, route, deadline, parent).msg = m
           /\ Op(m, r, ttl, route, deadline, parent).parent = parent
           /\ Op(m, r, ttl, route, deadline, parent).stage = "new"
  BY DEF Op, Requests, Stages, Hops

RelayTypeOK == ops \in Seq(Requests)

(* A request another relay passed on carries that relay's message. *)
SameMessage ==
    \A i \in 1 .. Len(ops) :
        ops[i].parent # 0 => ops[i].parent \in 1 .. Len(ops) /\ ops[ops[i].parent].msg = ops[i].msg

KeptBy(m, requests, stored, handed) ==
    \/ m \in handed
    \/ \E e \in stored : e.msg = m
    \/ \E j \in 1 .. Len(requests) : requests[j].msg = m /\ requests[j].stage = "refused"
KeptSomewhere(m) == KeptBy(m, ops, store, delivered)

ToldKept == \A i \in 1 .. Len(ops) : ops[i].stage \in {"forwarded", "queued"} => KeptSomewhere(ops[i].msg)

RelayInv == RelayTypeOK /\ SameMessage /\ ToldKept

(* What was kept stays kept: stages of others, the store and what was      *)
(* delivered only grow.                                                    *)
LEMMA KeptGrows ==
    ASSUME RelayInv, RelayTypeOK', Len(ops') >= Len(ops),
           \A i \in 1 .. Len(ops) : /\ ops'[i].msg = ops[i].msg
                                    /\ ops[i].stage = "refused" => ops'[i].stage = "refused",
           delivered \subseteq delivered', store \subseteq store', NEW m, KeptSomewhere(m)
    PROVE  KeptBy(m, ops', store', delivered')
  <1>1. CASE \E j \in 1 .. Len(ops) : ops[j].msg = m /\ ops[j].stage = "refused"
    <2>1. PICK j \in 1 .. Len(ops) : ops[j].msg = m /\ ops[j].stage = "refused"
      BY <1>1
    <2>2. j \in 1 .. Len(ops') /\ ops'[j].msg = m /\ ops'[j].stage = "refused"
      BY <2>1 DEF RelayInv, RelayTypeOK
    <2> QED BY <2>2 DEF KeptSomewhere, KeptBy
  <1>2. CASE m \in delivered \/ \E e \in store : e.msg = m
    BY <1>2 DEF KeptSomewhere, KeptBy
  <1> QED BY <1>1, <1>2 DEF KeptSomewhere, KeptBy

LEMMA StoredKeeps ==
    ASSUME NEW r, NEW m, NEW deadline, NEW put, Stored(r, m, deadline, put)
    PROVE  store \subseteq store' /\ \E e \in store' : e.msg = m
  <1> DEFINE e(k) == [at |-> r, msg |-> m, put |-> put, expires |-> ClampExpiry(deadline), rank |-> k]
  <1>1. \E k \in Ranks : store' = store \cup {e(k)}
    BY DEF Stored
  <1>2. PICK k \in Ranks : store' = store \cup {e(k)}
    BY <1>1
  <1>3. e(k).msg = m
    OBVIOUS
  <1> QED BY <1>2, <1>3

(* A request is answered: it stands where it stood, with another stage.    *)
LEMMA AnswerIs ==
    ASSUME RelayInv, NEW i \in 1 .. Len(ops), NEW how \in Stages, ops' = Answer(i, how)
    PROVE  /\ RelayTypeOK' /\ Len(ops') = Len(ops)
           /\ \A j \in 1 .. Len(ops) : /\ ops'[j].msg = ops[j].msg /\ ops'[j].parent = ops[j].parent
                                       /\ ops'[j].stage = IF j = i THEN how ELSE ops[j].stage
           /\ SameMessage'
  <1>1. ops \in Seq(Requests)
    BY DEF RelayInv, RelayTypeOK
  <1>2. With(ops[i], how) \in Requests
    BY <1>1, Replaced
  <1>3. ops' \in Seq(Requests) /\ Len(ops') = Len(ops)
    BY <1>1, <1>2 DEF Answer, With
  <1>4. \A j \in 1 .. Len(ops) : ops'[j] = IF j = i THEN With(ops[i], how) ELSE ops[j]
    BY <1>1 DEF Answer, With
  <1>5. \A j \in 1 .. Len(ops) : /\ ops'[j].msg = ops[j].msg /\ ops'[j].parent = ops[j].parent
                                 /\ ops'[j].stage = IF j = i THEN how ELSE ops[j].stage
    <2> SUFFICES ASSUME NEW j \in 1 .. Len(ops)
                 PROVE  /\ ops'[j].msg = ops[j].msg /\ ops'[j].parent = ops[j].parent
                        /\ ops'[j].stage = IF j = i THEN how ELSE ops[j].stage
      OBVIOUS
    <2>1. CASE j = i
      BY <1>1, <1>4, <2>1, Replaced
    <2>2. CASE j # i
      BY <1>4, <2>2
    <2> QED BY <2>1, <2>2
  <1>6. SameMessage'
    BY <1>1, <1>3, <1>5 DEF RelayInv, SameMessage
  <1> QED BY <1>3, <1>5, <1>6 DEF RelayTypeOK

(* An answer that leaves its message kept. *)
LEMMA AnswerKeeps ==
    ASSUME RelayInv, NEW i \in 1 .. Len(ops), NEW how \in Stages, ops' = Answer(i, how),
           ops[i].stage # "refused", delivered \subseteq delivered', store \subseteq store',
           how \in {"forwarded", "queued"} => KeptSomewhere(ops[i].msg) \/ ops[i].msg \in delivered' \/ \E e \in store' : e.msg = ops[i].msg
    PROVE  RelayInv'
  <1>1. /\ RelayTypeOK' /\ Len(ops') = Len(ops) /\ SameMessage'
        /\ \A j \in 1 .. Len(ops) : /\ ops'[j].msg = ops[j].msg /\ ops'[j].parent = ops[j].parent
                                    /\ ops'[j].stage = IF j = i THEN how ELSE ops[j].stage
    BY AnswerIs
  <1>2. \A m : KeptSomewhere(m) => KeptBy(m, ops', store', delivered')
    <2> SUFFICES ASSUME NEW m, KeptSomewhere(m) PROVE KeptBy(m, ops', store', delivered')
      OBVIOUS
    <2>1. Len(ops') >= Len(ops)
      BY <1>1 DEF RelayInv, RelayTypeOK
    <2>2. \A j \in 1 .. Len(ops) : /\ ops'[j].msg = ops[j].msg
                                   /\ ops[j].stage = "refused" => ops'[j].stage = "refused"
      BY <1>1
    <2> QED BY <1>1, <2>1, <2>2, KeptGrows
  <1>3. ASSUME NEW j \in 1 .. Len(ops'), ops'[j].stage \in {"forwarded", "queued"}
        PROVE  KeptBy(ops'[j].msg, ops', store', delivered')
    <2>1. CASE j = i
      <3>1. ops'[i].msg = ops[i].msg /\ how \in {"forwarded", "queued"}
        BY <1>1, <1>3, <2>1
      <3> QED BY <1>2, <2>1, <3>1 DEF KeptSomewhere, KeptBy
    <2>2. CASE j # i
      <3>1. KeptSomewhere(ops[j].msg) /\ ops'[j].msg = ops[j].msg
        BY <1>1, <1>3, <2>2 DEF RelayInv, ToldKept
      <3> QED BY <1>2, <3>1
    <2> QED BY <2>1, <2>2
  <1> QED BY <1>1, <1>3 DEF RelayInv, ToldKept, KeptSomewhere

(* A request is added, and the one it came from waits for it. *)
LEMMA PassKeeps ==
    ASSUME RelayInv, NEW was \in Seq(Requests), Len(was) = Len(ops), NEW o \in Requests, ops' = Append(was, o),
           \A i \in 1 .. Len(ops) : /\ was[i].msg = ops[i].msg /\ was[i].parent = ops[i].parent
                                    /\ was[i].stage = ops[i].stage \/ (was[i].stage = "waiting" /\ ops[i].stage = "new"),
           o.stage = "new", o.parent # 0 => o.parent \in 1 .. Len(ops) /\ ops[o.parent].msg = o.msg,
           delivered' = delivered, store' = store
    PROVE  RelayInv'
  <1>1. /\ ops \in Seq(Requests) /\ RelayTypeOK' /\ Len(ops') = Len(ops) + 1
        /\ \A i \in 1 .. Len(ops) : ops'[i] = was[i]
        /\ ops'[Len(ops) + 1] = o
    BY DEF RelayInv, RelayTypeOK
  <1>2. SameMessage'
    BY <1>1 DEF RelayInv, SameMessage
  <1>3. \A m : KeptSomewhere(m) => KeptBy(m, ops', store', delivered')
    <2> SUFFICES ASSUME NEW m, KeptSomewhere(m) PROVE KeptBy(m, ops', store', delivered')
      OBVIOUS
    <2>1. Len(ops') >= Len(ops)
      BY <1>1
    <2>2. \A j \in 1 .. Len(ops) : /\ ops'[j].msg = ops[j].msg
                                   /\ ops[j].stage = "refused" => ops'[j].stage = "refused"
      BY <1>1
    <2>3. delivered \subseteq delivered' /\ store \subseteq store'
      OBVIOUS
    <2> QED BY <1>1, <2>1, <2>2, <2>3, KeptGrows
  <1>4. ASSUME NEW j \in 1 .. Len(ops'), ops'[j].stage \in {"forwarded", "queued"}
        PROVE  KeptBy(ops'[j].msg, ops', store', delivered')
    <2>1. j \in 1 .. Len(ops)
      BY <1>1, <1>4
    <2>2. KeptSomewhere(ops[j].msg) /\ ops'[j].msg = ops[j].msg
      BY <1>1, <1>4, <2>1 DEF RelayInv, ToldKept
    <2> QED BY <1>3, <2>2
  <1> QED BY <1>1, <1>2, <1>4 DEF RelayInv, ToldKept, KeptSomewhere

LEMMA RelayInvInit == RelayInit => RelayInv
  BY DEF RelayInit, RelayInv, RelayTypeOK, SameMessage, ToldKept

LEMMA RelaySame ==
    ASSUME RelayInv, UNCHANGED ops, delivered \subseteq delivered', store \subseteq store' PROVE RelayInv'
  BY DEF RelayInv, RelayTypeOK, SameMessage, ToldKept, KeptSomewhere, KeptBy

LEMMA RelayInvStep == ASSUME RelayAssumption PROVE RelayInv /\ [RelayNext]_relayVars => RelayInv'
  <1> SUFFICES ASSUME RelayInv, [RelayNext]_relayVars PROVE RelayInv'
    OBVIOUS
  <1>t. ops \in Seq(Requests) /\ Len(ops) \in Nat /\ \A i \in 1 .. Len(ops) : ops[i] \in Requests
    BY DEF RelayInv, RelayTypeOK
  <1>1. ASSUME NEW m \in Msgs, NEW r \in Relays, HandlePut(r, m) PROVE RelayInv'
    <2>1. UNCHANGED <<ops, delivered>> /\ Stored(r, m, DeadlineOf[m], TRUE)
      BY <1>1 DEF HandlePut
    <2> QED BY <2>1, StoredKeeps, RelaySame
  <1>2. ASSUME NEW m \in Msgs, NEW r \in Relays, NEW s \in Sends, SendForward(m, r, s) PROVE RelayInv'
    <2> DEFINE o == Op(m, r, s.ttl, s.route, DeadlineOf[m], 0)
    <2>0. s.ttl \in Int /\ s.route \in Routes /\ DeadlineOf[m] \in SenderDeadlines
      BY DEF RelayAssumption, Routes, SenderDeadlines
    <2>1. o \in Requests /\ o.stage = "new" /\ o.parent = 0
      BY <2>0, Asked
    <2>3. ops' = Append(ops, o) /\ UNCHANGED <<delivered, store>>
      BY <1>2 DEF SendForward
    <2> HIDE DEF o
    <2>4. /\ ops \in Seq(Requests) /\ Len(ops) = Len(ops)
          /\ \A i \in 1 .. Len(ops) : /\ ops[i].msg = ops[i].msg /\ ops[i].parent = ops[i].parent
                                      /\ ops[i].stage = ops[i].stage \/ (ops[i].stage = "waiting" /\ ops[i].stage = "new")
          /\ o.parent # 0 => o.parent \in 1 .. Len(ops) /\ ops[o.parent].msg = o.msg
          /\ delivered' = delivered /\ store' = store
      BY <1>t, <2>1, <2>3
    <2> QED BY <2>1, <2>3, <2>4, PassKeeps
  <1>3. ASSUME NEW i \in 1 .. Len(ops), HandleForward(i) PROVE RelayInv'
    <2> DEFINE o == ops[i]
               next == NextHop(o)
    <2>s. o \in Requests /\ o.stage = "new"
      BY <1>3, <1>t DEF HandleForward
    <2>1. CASE ops' = Answer(i, "refused") /\ UNCHANGED <<store, delivered>>
      BY <2>1, <2>s, AnswerKeeps DEF Stages
    <2>2. CASE DeliverTerminal(i)
      <3>1. ops' = Answer(i, "forwarded") /\ store' = store /\ delivered' = delivered \cup {ops[i].msg}
        BY <2>2 DEF DeliverTerminal, RelaySend
      <3> QED BY <2>s, <3>1, AnswerKeeps DEF Stages
    <2>3. CASE /\ next \in Relays
               /\ ops' = Append([ops EXCEPT ![i].stage = "waiting", ![i].next = next], PassedOn(i))
               /\ UNCHANGED <<store, delivered>>
      <3> DEFINE was == [ops EXCEPT ![i].stage = "waiting", ![i].next = next]
                 new == PassedOn(i)
      <3> HIDE DEF next
      <3>0. was = [ops EXCEPT ![i] = WaitingFor(ops[i], next)]
        BY <1>t DEF WaitingFor
      <3> HIDE DEF was
      <3>1. WaitingFor(ops[i], next) \in Requests
        BY <1>t, <2>3, Waits DEF Hops
      <3>2. was \in Seq(Requests) /\ Len(was) = Len(ops)
        BY <1>t, <3>0, <3>1
      <3>3. \A j \in 1 .. Len(ops) : was[j] = IF j = i THEN WaitingFor(ops[i], next) ELSE ops[j]
        BY <1>t, <3>0
      <3>4. \A j \in 1 .. Len(ops) : /\ was[j].msg = ops[j].msg /\ was[j].parent = ops[j].parent
                                     /\ was[j].stage = ops[j].stage \/ (was[j].stage = "waiting" /\ ops[j].stage = "new")
        <4> SUFFICES ASSUME NEW j \in 1 .. Len(ops)
                     PROVE  /\ was[j].msg = ops[j].msg /\ was[j].parent = ops[j].parent
                            /\ was[j].stage = ops[j].stage \/ (was[j].stage = "waiting" /\ ops[j].stage = "new")
          OBVIOUS
        <4>1. CASE j = i
          BY <1>t, <2>s, <2>3, <3>3, <4>1, Waits DEF Hops
        <4>2. CASE j # i
          BY <3>3, <4>2
        <4> QED BY <4>1, <4>2
      <3>5. new \in Requests /\ new.stage = "new" /\ new.parent = i /\ new.msg = ops[i].msg
        <4>1. (IF ops[i].route # <<>> THEN Tail(ops[i].route) ELSE <<>>) \in Routes
          BY <1>t DEF Requests, Routes
        <4>2. NextHop(ops[i]) \in Relays
          BY <2>3 DEF next
        <4>3. /\ ops[i].msg \in Msgs /\ ops[i].ttl - 1 \in Int /\ ops[i].deadline \in SenderDeadlines
              /\ i \in Nat
          BY <1>t DEF Requests
        <4> QED BY <4>1, <4>2, <4>3, Asked DEF PassedOn
      <3> HIDE DEF was, new
      <3>7. ops' = Append(was, new) /\ delivered' = delivered /\ store' = store
        BY <2>3 DEF was, new
      <3> QED BY <3>2, <3>4, <3>5, <3>7, PassKeeps
    <2>4. CASE Stored(o.at, o.msg, o.deadline, FALSE) /\ ops' = Answer(i, "queued") /\ UNCHANGED delivered
      <3>1. store \subseteq store' /\ \E e \in store' : e.msg = ops[i].msg
        BY <2>4, StoredKeeps
      <3> QED BY <2>4, <2>s, <3>1, AnswerKeeps DEF Stages
    <2> QED BY <1>3, <2>1, <2>2, <2>3, <2>4 DEF HandleForward
  <1>4. ASSUME NEW i \in 1 .. Len(ops), HopAnswers(i) PROVE RelayInv'
    <2>1. PICK j \in 1 .. Len(ops) : ops[j].parent = i /\ ops[j].stage \in {"refused", "forwarded", "queued"}
      BY <1>4 DEF HopAnswers, HopEnds
    <2>2. ops[j].msg = ops[i].msg
      BY <2>1 DEF RelayInv, SameMessage
    <2>3. KeptSomewhere(ops[i].msg)
      BY <2>1, <2>2 DEF RelayInv, ToldKept, KeptSomewhere, KeptBy
    <2>4. ops' = Answer(i, "forwarded") /\ ops[i].stage # "refused" /\ UNCHANGED <<store, delivered>>
      BY <1>4 DEF HopAnswers
    <2> QED BY <2>3, <2>4, AnswerKeeps DEF Stages
  <1>5. ASSUME NEW i \in 1 .. Len(ops), HopLost(i) PROVE RelayInv'
    <2>1. /\ ops' = Answer(i, "queued") /\ ops[i].stage # "refused" /\ UNCHANGED delivered
          /\ Stored(ops[i].at, ops[i].msg, ops[i].deadline, FALSE)
      BY <1>5 DEF HopLost
    <2>2. store \subseteq store' /\ \E e \in store' : e.msg = ops[i].msg
      BY <2>1, StoredKeeps
    <2> QED BY <2>1, <2>2, AnswerKeeps DEF Stages
  <1>6. ASSUME NEW r \in Relays, NEW l, HandlePoll(r, l) PROVE RelayInv'
    BY <1>6, RelaySame DEF HandlePoll
  <1>7. ASSUME NEW p, RelayChanges(p) PROVE RelayInv'
    <2>1. ops' = [i \in 1 .. Len(ops) |->
                     IF up[p] /\ ops[i].at = p /\ ops[i].stage \in {"new", "waiting"}
                     THEN [ops[i] EXCEPT !.stage = "lost"] ELSE ops[i]] /\ UNCHANGED <<store, delivered>>
      BY <1>7 DEF RelayChanges
    <2>2. ops' \in Seq(Requests) /\ Len(ops') = Len(ops)
      <3>1. \A i \in 1 .. Len(ops) : With(ops[i], "lost") \in Requests
        BY <1>t, Replaced DEF Stages
      <3> QED BY <1>t, <2>1, <3>1 DEF With
    <2>3. \A i \in 1 .. Len(ops) : /\ ops'[i].msg = ops[i].msg /\ ops'[i].parent = ops[i].parent
                                   /\ ops'[i].stage = ops[i].stage \/ (ops'[i].stage = "lost" /\ ops[i].stage \in {"new", "waiting"})
      <3> SUFFICES ASSUME NEW i \in 1 .. Len(ops)
                   PROVE  /\ ops'[i].msg = ops[i].msg /\ ops'[i].parent = ops[i].parent
                          /\ ops'[i].stage = ops[i].stage \/ (ops'[i].stage = "lost" /\ ops[i].stage \in {"new", "waiting"})
        OBVIOUS
      <3>1. ops'[i] = ops[i] \/ (ops'[i] = With(ops[i], "lost") /\ ops[i].stage \in {"new", "waiting"})
        BY <2>1 DEF With
      <3> QED BY <1>t, <3>1, Replaced DEF Stages
    <2>4. \A m : KeptSomewhere(m) => KeptBy(m, ops', store', delivered')
      <3> SUFFICES ASSUME NEW m, KeptSomewhere(m) PROVE KeptBy(m, ops', store', delivered')
        OBVIOUS
      <3>1. Len(ops') >= Len(ops) /\ RelayTypeOK' /\ delivered \subseteq delivered' /\ store \subseteq store'
        BY <1>t, <2>1, <2>2 DEF RelayTypeOK
      <3>2. \A i \in 1 .. Len(ops) : /\ ops'[i].msg = ops[i].msg
                                     /\ ops[i].stage = "refused" => ops'[i].stage = "refused"
        BY <2>3
      <3> QED BY <3>1, <3>2, KeptGrows
    <2>5. SameMessage'
      BY <1>t, <2>2, <2>3 DEF RelayInv, SameMessage
    <2>6. ToldKept'
      BY <1>t, <2>2, <2>3, <2>4 DEF RelayInv, ToldKept, KeptSomewhere
    <2> QED BY <2>2, <2>5, <2>6 DEF RelayInv, RelayTypeOK
  <1>8. CASE RelayTick
    BY <1>8, RelaySame DEF RelayTick
  <1>9. CASE UNCHANGED relayVars
    BY <1>9, RelaySame DEF relayVars
  <1> QED BY <1>1, <1>2, <1>3, <1>4, <1>5, <1>6, <1>7, <1>8, <1>9 DEF RelayNext

(* A message a sender was told is on its way or queued was handed over, is *)
(* stored or was refused by a relay (relay.py forward, put and poll),      *)
(* through any relays, tables, hop counts and losses of relays.            *)
THEOREM NotDroppedCorrect == ASSUME RelayAssumption PROVE RelaySpec => []NotDropped
  <1>1. RelayInv => NotDropped
    BY DEF RelayInv, ToldKept, KeptSomewhere, KeptBy, NotDropped
  <1> QED BY <1>1, RelayInvInit, RelayInvStep, PTL DEF RelaySpec

-----------------------------------------------------------------------------
(* Handshakes.  The record and the channel follow a newest connection      *)
(* because clocks do not go back (Latest): what is established now is      *)
(* newest, and what ends closes a record of its own instant only.          *)

(* Connections were established in the past. *)
Latest == now \in Nat /\ \A c \in Established : conns[c].established \in Nat /\ conns[c].established <= now

(* Before the first connection there is nothing to follow. *)
NothingYet == Established = {} => channel = Nothing

HandshakeInv == DOMAIN conns = Conns /\ Latest /\ NothingYet /\ FollowsNewest

LEMMA HandshakeInvInit == ASSUME HandshakeAssumption PROVE HandshakeInit => HandshakeInv
  <1> SUFFICES ASSUME HandshakeInit PROVE HandshakeInv
    OBVIOUS
  <1>1. Established = {} /\ DOMAIN conns = Conns
    BY DEF HandshakeInit, Established
  <1> QED BY <1>1 DEF HandshakeInit, HandshakeInv, Latest, NothingYet, FollowsNewest

(* A step that changes of the connections neither when they were           *)
(* established nor how far they ended, and of the rest neither the record  *)
(* nor the channel.                                                        *)
LEMMA HandshakeStays ==
    ASSUME HandshakeInv, DOMAIN conns' = Conns, now' \in Nat, now' >= now, UNCHANGED <<channel, record>>,
           \A c \in Conns : /\ conns'[c].established = conns[c].established
                            /\ Alive(c)' = Alive(c)
                            /\ (conns'[c].phase = "closed") = (conns[c].phase = "closed")
    PROVE  HandshakeInv'
  <1>1. Established' = Established
    BY DEF Established
  <1>2. Newest' = Newest
    BY <1>1 DEF Newest, Established
  <1>3. Newest \subseteq Established /\ Established \subseteq Conns
    BY DEF Newest, Established
  <1>4. Latest'
    BY <1>1, <1>3 DEF HandshakeInv, Latest
  <1>5. FollowsNewest'
    BY <1>1, <1>2, <1>3 DEF HandshakeInv, FollowsNewest
  <1> QED BY <1>1, <1>4, <1>5 DEF HandshakeInv, NothingYet

LEMMA HandshakeInvStep == ASSUME HandshakeAssumption PROVE HandshakeInv /\ [HandshakeNext]_handshakeVars => HandshakeInv'
  <1> SUFFICES ASSUME HandshakeInv, [HandshakeNext]_handshakeVars PROVE HandshakeInv'
    OBVIOUS
  <1>0. DOMAIN conns = Conns /\ now \in Nat /\ Newest \subseteq Established /\ Established \subseteq Conns
    BY DEF HandshakeInv, Latest, Newest, Established
  <1>1. ASSUME NEW c \in Conns, NEW f \in Formats, NEW rdv \in BOOLEAN, Hello(c, f, rdv) PROVE HandshakeInv'
    <2>1. /\ conns' = [conns EXCEPT ![c].phase = "awaiting_authenticate", ![c].format = f, ![c].rendezvous = rdv]
          /\ conns[c].phase = "awaiting_hello" /\ UNCHANGED <<channel, record, now>>
      BY <1>1 DEF Hello
    <2> QED BY <1>0, <2>1, HandshakeStays DEF Alive
  <1>2. ASSUME NEW c \in Conns, Authenticate(c) PROVE HandshakeInv'
    <2>1. /\ conns' = [conns EXCEPT ![c].phase = "complete"]
          /\ conns[c].phase = "awaiting_authenticate" /\ UNCHANGED <<channel, record, now>>
      BY <1>2 DEF Authenticate, Verifies
    <2> QED BY <1>0, <2>1, HandshakeStays DEF Alive
  <1>3. ASSUME NEW c \in Conns, Establish(c) PROVE HandshakeInv'
    <2>1. /\ conns' = [conns EXCEPT ![c].established = now] /\ conns[c].phase = "complete"
          /\ channel' = c /\ record' = [status |-> "active", at |-> now] /\ now' = now
      BY <1>3 DEF Establish, RegisterInboundReentry, WriteConnectionStatus
    <2>2. now # Nothing => Established' = Established \cup {c}
      BY <1>0, <2>1 DEF Established
    <2>3. now # Nothing
      BY <1>0 DEF HandshakeAssumption
    <2>4. conns'[c].established = now /\ conns'[c].phase = "complete" /\ DOMAIN conns' = Conns
      BY <1>0, <2>1
    <2>5. \A d \in Established' : conns'[d].established \in Nat /\ conns'[d].established <= now
      BY <1>0, <2>1, <2>2, <2>3, <2>4 DEF HandshakeInv, Latest
    <2>6. c \in Newest'
      BY <2>2, <2>3, <2>4, <2>5 DEF Newest
    <2>7. FollowsNewest'
      <3>1. record' = [status |-> IF conns'[c].phase = "closed" THEN "closed" ELSE "active",
                       at |-> conns'[c].established]
        BY <2>1, <2>4
      <3>2. channel' = IF Alive(c)' THEN c ELSE Nothing
        BY <2>1, <2>4 DEF Alive
      <3> QED BY <2>6, <3>1, <3>2 DEF FollowsNewest
    <2> QED BY <1>0, <2>1, <2>2, <2>3, <2>4, <2>5, <2>7 DEF HandshakeInv, Latest, NothingYet
  <1>4. ASSUME NEW c \in Conns, CloseBegins(c) PROVE HandshakeInv'
    <2>1. /\ conns' = [conns EXCEPT ![c].phase = "closing", ![c].waiting = FALSE] /\ Alive(c)
          /\ channel' = (IF channel = c THEN Nothing ELSE channel) /\ UNCHANGED <<record, now>>
      BY <1>4 DEF CloseBegins, UnregisterInboundReentry
    <2>a. \A d \in Conns : conns'[d].established = conns[d].established
      BY <1>0, <2>1
    <2>b. \A d \in Conns : conns'[d].phase = "closed" <=> conns[d].phase = "closed"
      BY <1>0, <2>1 DEF Alive
    <2>c. \A d \in Conns : d # c => (Alive(d)' <=> Alive(d))
      BY <1>0, <2>1 DEF Alive
    <2>2. DOMAIN conns' = Conns /\ ~Alive(c)'
      BY <1>0, <2>1 DEF Alive
    <2>3. Established' = Established
      BY <2>a DEF Established
    <2>4. Newest' = Newest
      BY <1>0, <2>a, <2>3 DEF Newest
    <2>5. Latest'
      BY <1>0, <2>1, <2>a, <2>3 DEF HandshakeInv, Latest
    <2>6. FollowsNewest'
      <3> SUFFICES ASSUME Established # {}
                   PROVE  /\ \E d \in Newest :
                                record' = [status |-> IF conns'[d].phase = "closed" THEN "closed" ELSE "active",
                                           at |-> conns'[d].established]
                          /\ \E d \in Newest : channel' = IF Alive(d)' THEN d ELSE Nothing
        BY <2>3, <2>4 DEF FollowsNewest
      <3>1. PICK d \in Newest : record = [status |-> IF conns[d].phase = "closed" THEN "closed" ELSE "active",
                                          at |-> conns[d].established]
        BY DEF HandshakeInv, FollowsNewest
      <3>2. PICK e \in Newest : channel = IF Alive(e) THEN e ELSE Nothing
        BY DEF HandshakeInv, FollowsNewest
      <3>3. record' = [status |-> IF conns'[d].phase = "closed" THEN "closed" ELSE "active",
                       at |-> conns'[d].established]
        BY <1>0, <2>1, <2>a, <2>b, <3>1
      <3>4. channel' = IF Alive(e)' THEN e ELSE Nothing
        <4>1. e \in Conns
          BY <1>0
        <4>2. CASE e = c
          BY <2>1, <2>2, <3>2, <4>2
        <4>3. CASE e # c
          <5>1. channel # c
            BY <3>2, <4>3 DEF HandshakeAssumption
          <5> QED BY <2>1, <2>c, <3>2, <4>1, <4>3, <5>1
        <4> QED BY <4>2, <4>3
      <3> QED BY <3>3, <3>4
    <2>7. NothingYet'
      BY <2>1, <2>3 DEF HandshakeInv, NothingYet
    <2> QED BY <2>2, <2>5, <2>6, <2>7 DEF HandshakeInv
  <1>5. ASSUME NEW c \in Conns, CloseEnds(c) PROVE HandshakeInv'
    <2>1. /\ conns' = [conns EXCEPT ![c].phase = "closed"] /\ conns[c].phase = "closing"
          /\ record' = MarkConnectionClosed(c) /\ UNCHANGED <<channel, now>>
      BY <1>5 DEF CloseEnds
    <2>a. \A d \in Conns : conns'[d].established = conns[d].established
      BY <1>0, <2>1
    <2>b. \A d \in Conns : Alive(d)' <=> Alive(d)
      BY <1>0, <2>1 DEF Alive
    <2>c. \A d \in Conns : d # c => conns'[d].phase = conns[d].phase
      BY <1>0, <2>1
    <2>2. DOMAIN conns' = Conns /\ conns'[c].phase = "closed"
      BY <1>0, <2>1
    <2>3. Established' = Established
      BY <2>a DEF Established
    <2>4. Newest' = Newest
      BY <1>0, <2>a, <2>3 DEF Newest
    <2>5. Latest'
      BY <1>0, <2>1, <2>a, <2>3 DEF HandshakeInv, Latest
    <2>6. FollowsNewest'
      <3> SUFFICES ASSUME Established # {}
                   PROVE  /\ \E d \in Newest :
                                record' = [status |-> IF conns'[d].phase = "closed" THEN "closed" ELSE "active",
                                           at |-> conns'[d].established]
                          /\ \E d \in Newest : channel' = IF Alive(d)' THEN d ELSE Nothing
        BY <2>3, <2>4 DEF FollowsNewest
      <3>1. PICK d \in Newest : record = [status |-> IF conns[d].phase = "closed" THEN "closed" ELSE "active",
                                          at |-> conns[d].established]
        BY DEF HandshakeInv, FollowsNewest
      <3>2. PICK e \in Newest : channel = IF Alive(e) THEN e ELSE Nothing
        BY DEF HandshakeInv, FollowsNewest
      <3>3. channel' = IF Alive(e)' THEN e ELSE Nothing
        <4>1. Alive(e)' <=> Alive(e)
          BY <1>0, <2>b
        <4> QED BY <2>1, <3>2, <4>1
      <3>4. CASE conns[c].established # Nothing /\ record = [status |-> "active", at |-> conns[c].established]
        <4>1. record' = [status |-> "closed", at |-> conns[c].established]
          BY <2>1, <3>4 DEF MarkConnectionClosed
        <4>2. conns[c].established = conns[d].established
          BY <3>1, <3>4
        <4>3. c \in Newest
          BY <3>4, <4>2 DEF Newest, Established
        <4>4. record' = [status |-> IF conns'[c].phase = "closed" THEN "closed" ELSE "active",
                         at |-> conns'[c].established]
          BY <2>2, <2>a, <4>1
        <4> QED BY <3>3, <4>3, <4>4
      <3>5. CASE ~(conns[c].established # Nothing /\ record = [status |-> "active", at |-> conns[c].established])
        <4>1. record' = record
          BY <2>1, <3>5 DEF MarkConnectionClosed
        <4>2. d # c
          BY <1>0, <2>1, <3>1, <3>5 DEF Established
        <4>3. record' = [status |-> IF conns'[d].phase = "closed" THEN "closed" ELSE "active",
                         at |-> conns'[d].established]
          <5>1. d \in Conns
            BY <1>0
          <5>2. conns'[d].established = conns[d].established /\ conns'[d].phase = conns[d].phase
            BY <2>a, <2>c, <4>2, <5>1
          <5> QED BY <3>1, <4>1, <5>2
        <4> QED BY <3>3, <4>3
      <3> QED BY <3>4, <3>5
    <2>7. NothingYet'
      BY <2>1, <2>3 DEF HandshakeInv, NothingYet
    <2> QED BY <2>2, <2>5, <2>6, <2>7 DEF HandshakeInv
  <1>6. ASSUME NEW c \in Conns, AcceptReciprocalGrant(c) PROVE HandshakeInv'
    <2>1. conns' = [conns EXCEPT ![c].granted = TRUE, ![c].waiting = FALSE] /\ UNCHANGED <<channel, record, now>>
      BY <1>6 DEF AcceptReciprocalGrant
    <2> QED BY <1>0, <2>1, HandshakeStays DEF Alive
  <1>7. ASSUME NEW c \in Conns, GrantWaitEnds(c) PROVE HandshakeInv'
    <2>1. conns' = [conns EXCEPT ![c].waiting = FALSE] /\ UNCHANGED <<channel, record, now>>
      BY <1>7 DEF GrantWaitEnds
    <2> QED BY <1>0, <2>1, HandshakeStays DEF Alive
  <1>8. CASE Originate
    <2>1. conns' = [conns EXCEPT ![channel].waiting = TRUE] /\ UNCHANGED <<channel, record, now>>
      BY <1>8 DEF Originate
    <2> QED BY <1>0, <2>1, HandshakeStays DEF Alive
  <1>9. CASE HandshakeTick
    <2>1. now' = now + 1 /\ UNCHANGED <<conns, channel, record>>
      BY <1>9 DEF HandshakeTick
    <2> QED BY <1>0, <2>1, HandshakeStays DEF Alive
  <1>10. ASSUME UNCHANGED <<conns, channel, record, now>> PROVE HandshakeInv'
    BY <1>0, <1>10, HandshakeStays DEF Alive
  <1>11. ASSUME NEW u, PersistHeld(u) PROVE HandshakeInv'
    BY <1>10, <1>11 DEF PersistHeld
  <1>12. ASSUME NEW e \in Entries, NEW g \in Grants \cup {Nothing}, SetPolicy(e, g) PROVE HandshakeInv'
    BY <1>10, <1>12 DEF SetPolicy
  <1>13. CASE UNCHANGED handshakeVars
    BY <1>10, <1>13 DEF handshakeVars
  <1> QED BY <1>1, <1>2, <1>3, <1>4, <1>5, <1>6, <1>7, <1>8, <1>9, <1>11, <1>12, <1>13 DEF HandshakeNext

(* However the ends of older connections trail behind, the connection      *)
(* record and the reentry channel are those of a newest connection         *)
(* (peer.py _handle_connection(), liveness.py mark_connection_closed()).   *)
THEOREM FollowsNewestCorrect == ASSUME HandshakeAssumption PROVE HandshakeSpec => []FollowsNewest
  <1>1. HandshakeInv => FollowsNewest
    BY DEF HandshakeInv
  <1> QED BY <1>1, HandshakeInvInit, HandshakeInvStep, PTL DEF HandshakeSpec

-----------------------------------------------------------------------------
(* Maintained peers.  A retry survives because the session in the table is *)
(* one that was made (Known), its peer's loss is dated and announced to it *)
(* (Recorded, Hears), and only what leaves something behind ends a flow.   *)

(* The table and the operations know sessions that were made. *)
Known(s) == s \in Ids /\ sessions[s] \in Session

FlowOK(f) ==
    /\ Known(f.sess)
    /\ f.op \in {"maintain", "reconnect"}
    /\ f.task \in {0, f.sess}

NetworkTypeOK ==
    /\ DOMAIN sessions = Ids /\ DOMAIN timer = Ids
    /\ current # 0 => Known(current)
    /\ \A f \in flows : FlowOK(f)
    /\ events \in Nat /\ now \in Int

(* A connection is recorded, and a demotion is dated. *)
Recorded ==
    /\ conn => status.is = "connected"
    /\ status.since \in Int \cup {Nothing}
    /\ status.is = "disconnected" => status.since \in Int

(* The session in the table hears of its peer once its graph is complete.  *)
Hears == current # 0 /\ sessions[current].graph => current \in subs

(* A session that was neither released nor dropped is in the table.        *)
InTheTable ==
    \A s \in Made : /\ Known(s)
                    /\ ~sessions[s].released /\ ~sessions[s].dropped => s = current

(* KeepsTrying, of the session in the table. *)
CurrentTries ==
    (/\ current # 0 /\ sessions[current].graph
     /\ wired /\ status.is = "disconnected" /\ ~conn) => Trying(current, status.since)

NetworkInv == NetworkTypeOK /\ Recorded /\ Hears /\ InTheTable /\ CurrentTries

LEMMA CurrentSuffices == NetworkInv => KeepsTrying
  <1> SUFFICES ASSUME NetworkInv, NEW s \in Made, sessions[s].graph, ~sessions[s].released, ~sessions[s].dropped,
                      wired, status.is = "disconnected", ~conn
               PROVE  Trying(s, status.since)
    BY DEF KeepsTrying
  <1>1. s = current /\ s # 0
    BY DEF NetworkInv, InTheTable, Made, Ids
  <1> QED BY <1>1 DEF NetworkInv, CurrentTries

LEMMA SpareIs == Made # Ids => Spare \in Ids
  BY DEF Made, Spare

LEMMA NetworkInvInit == ASSUME NetworkAssumption PROVE NetworkInit => NetworkInv
  <1> SUFFICES ASSUME NetworkInit PROVE NetworkInv
    OBVIOUS
  <1>1. current = 0 /\ flows = {} /\ conn = FALSE /\ status.is = "none" /\ status.since = Nothing /\ events = 0 /\ now = 0
    BY DEF NetworkInit
  <1>2. DOMAIN sessions = Ids /\ DOMAIN timer = Ids
    BY DEF NetworkInit
  <1>3. NetworkTypeOK
    BY <1>1, <1>2 DEF NetworkTypeOK
  <1>4. Recorded /\ Hears
    BY <1>1 DEF Recorded, Hears
  <1>5. CurrentTries
    BY <1>1 DEF CurrentTries
  <1>6. InTheTable
    BY DEF NetworkInit, InTheTable, Made
  <1> QED BY <1>3, <1>4, <1>5, <1>6 DEF NetworkInv

(* A session gets a record again, the others keep theirs. *)
LEMMA KnownStays ==
    ASSUME NetworkInv, NEW s \in Ids, NEW z \in Session, sessions' = [sessions EXCEPT ![s] = z], NEW r, Known(r)
    PROVE  Known(r)'
  BY DEF NetworkInv, NetworkTypeOK, Known

(* A session that keeps what a table is told of it stays where it is; one  *)
(* that leaves the table was told.                                         *)
LEMMA TableStays ==
    ASSUME NetworkAssumption, NetworkInv, UNCHANGED current,
           sessions' = sessions \/ \E s \in Ids, z \in Session :
               /\ sessions' = [sessions EXCEPT ![s] = z] /\ Known(s)
               /\ z.released = sessions[s].released /\ z.dropped = sessions[s].dropped
    PROVE  InTheTable'
  <1>1. CASE sessions' = sessions
    BY <1>1 DEF NetworkInv, InTheTable, Made, Known
  <1>2. ASSUME NEW s \in Ids, NEW z \in Session, sessions' = [sessions EXCEPT ![s] = z], Known(s),
               z.released = sessions[s].released, z.dropped = sessions[s].dropped
        PROVE  InTheTable'
    <2> SUFFICES ASSUME NEW r \in Ids, sessions'[r] # Nothing
                 PROVE  Known(r)' /\ (~sessions'[r].released /\ ~sessions'[r].dropped => r = current)
      BY <1>2 DEF InTheTable, Made
    <2>1. CASE r # s
      <3>1. sessions'[r] = sessions[r]
        BY <1>2, <2>1 DEF NetworkInv, NetworkTypeOK
      <3> QED BY <3>1 DEF NetworkInv, InTheTable, Made, Known
    <2>2. CASE r = s
      <3>1. sessions'[r] = z
        BY <1>2, <2>2 DEF NetworkInv, NetworkTypeOK
      <3>2. ~sessions[s].released /\ ~sessions[s].dropped => s = current
        <4>1. sessions[s] # Nothing
          BY <1>2 DEF Known, NetworkAssumption
        <4> QED BY <4>1 DEF NetworkInv, InTheTable, Made
      <3> QED BY <1>2, <2>2, <3>1, <3>2 DEF Known
    <2> QED BY <2>1, <2>2
  <1> QED BY <1>1, <1>2

LEMMA TableLeft ==
    ASSUME NetworkInv, current' = 0,
           current = 0 => sessions' = sessions,
           current # 0 => \E z \in Session : sessions' = [sessions EXCEPT ![current] = z]
                                            /\ (z.released \/ z.dropped)
    PROVE  InTheTable'
  <1> SUFFICES ASSUME NEW r \in Ids, sessions'[r] # Nothing
               PROVE  Known(r)' /\ (sessions'[r].released \/ sessions'[r].dropped)
    BY DEF InTheTable, Made
  <1>1. CASE current # 0
    <2>1. PICK z \in Session : sessions' = [sessions EXCEPT ![current] = z] /\ (z.released \/ z.dropped)
      BY <1>1
    <2>2. sessions' = [sessions EXCEPT ![current] = z]
      BY <2>1
    <2>3. r = current => sessions'[r] = z
      BY <2>2 DEF NetworkInv, NetworkTypeOK
    <2>4. r # current => sessions'[r] = sessions[r]
      BY <2>2 DEF NetworkInv, NetworkTypeOK
    <2> QED BY <2>1, <2>3, <2>4 DEF NetworkInv, InTheTable, Made, Known
  <1>2. CASE current = 0
    <2>1. r # current
      BY <1>2 DEF Ids
    <2> QED BY <1>2, <2>1 DEF NetworkInv, InTheTable, Made, Known
  <1> QED BY <1>1, <1>2

LEMMA NetworkInvStep == ASSUME NetworkAssumption PROVE NetworkInv /\ [NetworkNext]_networkVars => NetworkInv'
  <1> SUFFICES ASSUME NetworkInv, [NetworkNext]_networkVars PROVE NetworkInv'
    OBVIOUS
  <1> USE DEF NetworkInv
  <1>0. \A s, is : sessions' = sessions => (Known(s) => Known(s)')
    BY DEF Known
  <1>1. CASE MaintainPeer
    <2>1. CASE current # 0
      <3>1. /\ flows' = flows \cup {Flow("maintain", current, TRUE, 0)}
            /\ UNCHANGED <<current, sessions, conn, status, timer, subs, events, now, wired>>
        BY <1>1, <2>1 DEF MaintainPeer, Begin
      <3>2. FlowOK(Flow("maintain", current, TRUE, 0))
        BY <2>1 DEF Flow, FlowOK, NetworkTypeOK
      <3>3. NetworkTypeOK'
        BY <3>1, <3>2 DEF NetworkTypeOK, FlowOK, Known
      <3>4. CurrentTries'
        <4>1. Flow("maintain", current, TRUE, 0).sess = current
          BY DEF Flow
        <4> QED BY <3>1, <4>1 DEF CurrentTries, Trying
      <3>5. InTheTable'
        BY <3>1, TableStays
      <3> QED BY <3>1, <3>3, <3>4, <3>5 DEF Recorded, Hears
    <2>2. CASE current = 0
      <3> DEFINE new == [since |-> Nothing, graph |-> FALSE, released |-> FALSE, dropped |-> FALSE]
      <3>1. /\ flows' = flows \cup {Flow("maintain", Spare, FALSE, 0)}
            /\ current' = Spare /\ Spare \in Ids
            /\ sessions' = [sessions EXCEPT ![Spare] = new]
            /\ UNCHANGED <<conn, status, timer, subs, events, now, wired>>
        BY <1>1, <2>2, SpareIs DEF MaintainPeer, Begin
      <3>2. new \in Session /\ new.graph = FALSE
        BY DEF Session
      <3> HIDE DEF new
      <3>3. \A r : Known(r) => Known(r)'
        BY <3>1, <3>2, KnownStays
      <3>4. Known(current)' /\ current' # 0 /\ sessions'[current'].graph = FALSE
        BY <3>1, <3>2 DEF Known, NetworkTypeOK, Ids
      <3>5. NetworkTypeOK'
        <4>1. \A f \in flows' : FlowOK(f)'
          <5>1. ASSUME NEW f, f = Flow("maintain", Spare, FALSE, 0) PROVE FlowOK(f)'
            <6>1. f.sess = current' /\ f.op = "maintain" /\ f.task = 0
              BY <3>1, <5>1 DEF Flow
            <6> QED BY <3>4, <6>1 DEF FlowOK
          <5>2. \A f \in flows : FlowOK(f)'
            BY <3>3 DEF FlowOK, NetworkTypeOK
          <5> QED BY <3>1, <5>1, <5>2
        <4>2. DOMAIN sessions' = Ids /\ DOMAIN timer' = Ids
          BY <3>1 DEF NetworkTypeOK
        <4> QED BY <3>1, <3>4, <4>1, <4>2 DEF NetworkTypeOK
      <3>6. InTheTable'
        <4> SUFFICES ASSUME NEW q \in Ids, sessions'[q] # Nothing
                     PROVE  Known(q)' /\ (~sessions'[q].released /\ ~sessions'[q].dropped => q = current')
          BY DEF InTheTable, Made
        <4>1. CASE q # current'
          <5>1. sessions'[q] = sessions[q]
            BY <3>1, <4>1 DEF NetworkTypeOK
          <5>2. q # current
            BY <2>2 DEF Ids
          <5> QED BY <4>1, <5>1, <5>2 DEF InTheTable, Made, Known
        <4>2. CASE q = current'
          BY <3>4, <4>2
        <4> QED BY <4>1, <4>2
      <3> QED BY <3>1, <3>4, <3>5, <3>6 DEF Recorded, Hears, CurrentTries, Trying
    <2> QED BY <2>1, <2>2
  <1>2. CASE Reconnect
    <2>1. /\ events' = events - 1 /\ events > 0
          /\ flows' = IF wired /\ current # 0 /\ status.is # "connected"
                      THEN flows \cup {Flow("reconnect", current, TRUE, 0)} ELSE flows
          /\ UNCHANGED <<current, sessions, conn, status, timer, subs, now, wired>>
      BY <1>2 DEF Reconnect
    <2>2. current # 0 => FlowOK(Flow("reconnect", current, TRUE, 0))
      BY DEF Flow, FlowOK, NetworkTypeOK
    <2>3. NetworkTypeOK'
      <3>1. \A f \in flows' : FlowOK(f)'
        BY <2>1, <2>2 DEF FlowOK, Known, NetworkTypeOK
      <3>2. events' \in Nat
        BY <2>1 DEF NetworkTypeOK
      <3> QED BY <2>1, <3>1, <3>2 DEF NetworkTypeOK, Known
    <2>4. CurrentTries'
      <3>1. CASE wired /\ current # 0 /\ status.is # "connected"
        <4>1. Flow("reconnect", current, TRUE, 0).sess = current
          BY DEF Flow
        <4> QED BY <2>1, <3>1, <4>1 DEF CurrentTries, Trying
      <3>2. CASE ~(wired /\ current # 0 /\ status.is # "connected")
        BY <2>1, <3>2 DEF CurrentTries, Trying
      <3> QED BY <3>1, <3>2
    <2>5. InTheTable'
      BY <2>1, TableStays
    <2> QED BY <2>1, <2>3, <2>4, <2>5 DEF Recorded, Hears
  <1>3. CASE ReleasePeer
    <2>1. /\ current' = 0 /\ conn' = FALSE /\ status' = [is |-> "released", since |-> Nothing] /\ UNCHANGED now
          /\ flows' \subseteq flows
          /\ timer' = timer \/ timer' = [timer EXCEPT ![current] = {}]
          /\ events' \in {events, events + 1}
      BY <1>3 DEF ReleasePeer, DropSession, CancelRetry, Notify
    <2>2. \A r : Known(r) => Known(r)'
      <3>1. CASE current # 0
        <4>1. sessions' = [sessions EXCEPT ![current] = [sessions[current] EXCEPT !.released = TRUE]] /\ current \in Ids
          BY <1>3, <3>1 DEF ReleasePeer, NetworkTypeOK, Known
        <4>2. [sessions[current] EXCEPT !.released = TRUE] \in Session
          BY <3>1 DEF NetworkTypeOK, Known, Session
        <4> QED BY <4>1, <4>2, KnownStays
      <3>2. CASE current = 0
        BY <1>3, <3>2 DEF ReleasePeer, Known
      <3> QED BY <3>1, <3>2
    <2>3. DOMAIN sessions' = Ids
      BY <1>3 DEF ReleasePeer, NetworkTypeOK
    <2>4. NetworkTypeOK'
      <3>1. \A f \in flows' : FlowOK(f)'
        BY <2>1, <2>2 DEF FlowOK, NetworkTypeOK
      <3>2. DOMAIN timer' = Ids /\ events' \in Nat
        BY <2>1 DEF NetworkTypeOK
      <3> QED BY <2>1, <2>3, <3>1, <3>2 DEF NetworkTypeOK
    <2>5. InTheTable'
      <3>1. CASE current # 0
        <4>1. sessions' = [sessions EXCEPT ![current] = [sessions[current] EXCEPT !.released = TRUE]]
          BY <1>3, <3>1 DEF ReleasePeer
        <4>2. [sessions[current] EXCEPT !.released = TRUE] \in Session /\ [sessions[current] EXCEPT !.released = TRUE].released
          BY <3>1 DEF NetworkTypeOK, Known, Session
        <4> QED BY <2>1, <3>1, <4>1, <4>2, TableLeft
      <3>2. CASE current = 0
        BY <1>3, <2>1, <3>2, TableLeft DEF ReleasePeer
      <3> QED BY <3>1, <3>2
    <2> QED BY <2>1, <2>4, <2>5 DEF Recorded, Hears, CurrentTries, Trying
  <1>4. CASE CloseConnection
    <2>1. conn /\ conn' = FALSE /\ UNCHANGED <<status, current, sessions, timer, flows, wired, subs, events, now>>
      BY <1>4 DEF CloseConnection
    <2>2. NetworkTypeOK'
      BY <2>1 DEF NetworkTypeOK, FlowOK, Known
    <2>3. InTheTable'
      BY <2>1, TableStays
    <2> QED BY <2>1, <2>2, <2>3 DEF Recorded, Hears, CurrentTries, Trying
  <1>5. ASSUME NEW f \in flows, Connected(f) PROVE NetworkInv'
    <2> DEFINE installs == f.op = "maintain" /\ ~sessions[f.sess].graph
               z == [sessions[f.sess] EXCEPT !.since = Nothing, !.graph = @ \/ installs]
    <2>0. Known(f.sess)
      BY DEF NetworkTypeOK, FlowOK
    <2>1. /\ flows' = flows \ {f} /\ conn' = TRUE
          /\ status' = IF conn THEN status ELSE [is |-> "connected", since |-> Nothing]
          /\ events' \in {events, events + 1}
          /\ sessions' = [sessions EXCEPT ![f.sess] = z]
          /\ subs' = (IF installs THEN subs \cup {f.sess} ELSE subs)
          /\ UNCHANGED <<current, timer, now>>
      BY <1>5, <2>0 DEF Connected, Notify
    <2>2. /\ z \in Session /\ z.graph = (sessions[f.sess].graph \/ installs)
          /\ z.released = sessions[f.sess].released /\ z.dropped = sessions[f.sess].dropped
      BY <2>0 DEF Known, Session
    <2> HIDE DEF z, installs
    <2>3. \A r : Known(r) => Known(r)'
      BY <2>0, <2>1, <2>2, KnownStays DEF Known
    <2>4. NetworkTypeOK'
      <3>1. \A g \in flows' : FlowOK(g)'
        BY <2>1, <2>3 DEF FlowOK, NetworkTypeOK
      <3> QED BY <2>1, <2>3, <3>1 DEF NetworkTypeOK
    <2>5. Hears'
      <3>1. CASE current = f.sess
        BY <2>0, <2>1, <2>2, <3>1 DEF Hears, Known, NetworkTypeOK
      <3>2. CASE current # f.sess
        BY <2>1, <3>2 DEF Hears
      <3> QED BY <3>1, <3>2
    <2>6. Recorded'
      BY <2>1 DEF Recorded
    <2>7. InTheTable'
      <3>1. f.sess \in Ids
        BY <2>0 DEF Known
      <3> QED BY <2>0, <2>1, <2>2, <3>1, TableStays
    <2> QED BY <2>1, <2>4, <2>5, <2>6, <2>7 DEF CurrentTries, Trying
  <1>6. ASSUME NEW f \in flows, ConnectFails(f) PROVE NetworkInv'
    <2>0. FlowOK(f)
      BY DEF NetworkTypeOK
    <2>1. CASE Rearms(f)
      <3> DEFINE since == FailingSince(f.sess)
                 z == [sessions[f.sess] EXCEPT !.since = since]
      <3>1. /\ sessions' = [sessions EXCEPT ![f.sess] = z]
            /\ timer' = [timer EXCEPT ![f.sess] = DeriveRetryState(since)]
            /\ flows' = CancelRetry(f.sess, flows \ {f}) \cup
                  IF f.op = "reconnect" /\ wired /\ current # 0
                  THEN {Flow("maintain", current, TRUE, 0)} ELSE {}
            /\ UNCHANGED <<current, conn, status, subs, events, now, wired>>
        BY <1>6, <2>1 DEF ConnectFails, ArmBackoffRetry
      <3>2. status.since \in Int => since = status.since
        BY DEF FailingSince, NetworkAssumption
      <3>3. since \in Int \cup {Nothing}
        BY <2>0 DEF FailingSince, FlowOK, Known, Session, NetworkTypeOK, Recorded
      <3>4. /\ z \in Session /\ z.graph = sessions[f.sess].graph
            /\ z.released = sessions[f.sess].released /\ z.dropped = sessions[f.sess].dropped
        <4> HIDE DEF since
        <4> QED BY <2>0, <3>3 DEF FlowOK, Known, Session
      <3> HIDE DEF since, z
      <3>5. \A r : Known(r) => Known(r)'
        BY <2>0, <3>1, <3>4, KnownStays DEF Known, FlowOK
      <3>6. \A g \in flows' : g \in flows \/ (current # 0 /\ g = Flow("maintain", current, TRUE, 0))
        BY <3>1 DEF CancelRetry
      <3>7. \A g \in flows : g.sess # f.sess => g \in flows'
        <4> SUFFICES ASSUME NEW g \in flows, g.sess # f.sess PROVE g \in flows'
          OBVIOUS
        <4>1. f.sess # 0
          BY <2>0 DEF FlowOK, Known, Ids
        <4>2. g.task # f.sess
          BY <4>1 DEF NetworkTypeOK, FlowOK
        <4>3. g \in CancelRetry(f.sess, flows \ {f})
          BY <4>2 DEF CancelRetry
        <4> QED BY <3>1, <4>3
      <3>8. NetworkTypeOK'
        <4>1. \A g \in flows' : FlowOK(g)'
          <5>1. \A g \in flows : FlowOK(g)'
            BY <3>5 DEF FlowOK, NetworkTypeOK
          <5>2. ASSUME current # 0, NEW g, g = Flow("maintain", current, TRUE, 0) PROVE FlowOK(g)'
            <6>1. g.sess = current /\ g.op = "maintain" /\ g.task = 0
              BY <5>2 DEF Flow
            <6> QED BY <3>5, <5>2, <6>1 DEF FlowOK, NetworkTypeOK
          <5> QED BY <3>6, <5>1, <5>2
        <4>2. DOMAIN sessions' = Ids /\ DOMAIN timer' = Ids
          BY <3>1 DEF NetworkTypeOK
        <4> QED BY <3>1, <3>5, <4>1, <4>2 DEF NetworkTypeOK
      <3>9. Hears'
        BY <2>0, <3>1, <3>4 DEF Hears, FlowOK, Known, NetworkTypeOK
      <3>10. CurrentTries'
        <4> SUFFICES ASSUME current # 0, sessions[current].graph, wired, status.is = "disconnected", ~conn
                     PROVE  timer'[current] # {} \/ (\E g \in flows' : g.sess = current) \/ events > 0
                            \/ Exhausted(status.since)
          BY <2>0, <3>1, <3>4 DEF CurrentTries, Trying, Exhausted, FlowOK, Known, NetworkTypeOK
        <4>1. CASE current = f.sess
          <5>1. since = status.since /\ timer'[current] = DeriveRetryState(since)
            BY <2>0, <3>1, <3>2, <4>1 DEF Recorded, FlowOK, Known, NetworkTypeOK
          <5> QED BY <5>1 DEF DeriveRetryState
        <4>2. CASE current # f.sess
          <5>1. timer'[current] = timer[current]
            BY <3>1, <4>2 DEF NetworkTypeOK, Known
          <5> QED BY <3>7, <4>2, <5>1 DEF CurrentTries, Trying
        <4> QED BY <4>1, <4>2
      <3>11. InTheTable'
        <4>1. Known(f.sess) /\ f.sess \in Ids
          BY <2>0 DEF FlowOK, Known
        <4> QED BY <3>1, <3>4, <4>1, TableStays
      <3> QED BY <3>1, <3>8, <3>9, <3>10, <3>11 DEF Recorded
    <2>2. CASE ~Rearms(f)
      <3> DEFINE z == [sessions[current] EXCEPT !.dropped = TRUE]
      <3>1. /\ current' = 0
            /\ timer' = (IF current # 0 THEN [timer EXCEPT ![current] = {}] ELSE timer)
            /\ flows' \subseteq flows
            /\ sessions' = (IF current # 0 THEN [sessions EXCEPT ![current] = z] ELSE sessions)
            /\ UNCHANGED <<conn, status, wired, subs, events, now>>
        BY <1>6, <2>0, <2>2 DEF ConnectFails, DropSession, CancelRetry, Rearms, FlowOK
      <3>2. current # 0 => current \in Ids /\ z \in Session /\ z.dropped
        BY DEF NetworkTypeOK, Known, Session
      <3> HIDE DEF z
      <3>3. \A q : Known(q) => Known(q)'
        <4>1. CASE current # 0
          BY <3>1, <3>2, <4>1, KnownStays
        <4>2. CASE current = 0
          BY <3>1, <4>2 DEF Known
        <4> QED BY <4>1, <4>2
      <3>4. NetworkTypeOK'
        <4>1. \A g \in flows' : FlowOK(g)'
          BY <3>1, <3>3 DEF FlowOK, NetworkTypeOK
        <4>2. DOMAIN sessions' = Ids /\ DOMAIN timer' = Ids
          BY <3>1 DEF NetworkTypeOK
        <4> QED BY <3>1, <4>1, <4>2 DEF NetworkTypeOK
      <3>5. InTheTable'
        BY <3>1, <3>2, TableLeft
      <3> QED BY <3>1, <3>4, <3>5 DEF Recorded, Hears, CurrentTries
    <2> QED BY <2>1, <2>2
  <1>7. ASSUME NEW s \in Ids, TimerFires(s) PROVE NetworkInv'
    <2>1. /\ timer' = [timer EXCEPT ![s] = {}]
          /\ flows' = IF current = s /\ wired THEN flows \cup {Flow("maintain", s, TRUE, s)} ELSE flows
          /\ UNCHANGED <<conn, status, current, sessions, wired, subs, events, now>>
      BY <1>7 DEF TimerFires
    <2>2. current = s => FlowOK(Flow("maintain", s, TRUE, s))
      BY DEF Flow, FlowOK, NetworkTypeOK, Ids
    <2>3. NetworkTypeOK'
      BY <2>1, <2>2 DEF NetworkTypeOK, FlowOK, Known
    <2>4. CurrentTries'
      <3>1. CASE current = s
        <4>1. Flow("maintain", s, TRUE, s).sess = s
          BY DEF Flow
        <4> QED BY <2>1, <3>1, <4>1 DEF CurrentTries, Trying
      <3>2. CASE current # s
        <4>1. current # 0 => timer'[current] = timer[current]
          BY <2>1, <3>2 DEF NetworkTypeOK, Known
        <4> QED BY <2>1, <3>2, <4>1 DEF CurrentTries, Trying, Exhausted
      <3> QED BY <3>1, <3>2
    <2>5. InTheTable'
      BY <2>1, TableStays
    <2> QED BY <2>1, <2>3, <2>4, <2>5 DEF Recorded, Hears
  <1>8. CASE Lost
    <2>1. /\ conn /\ conn' = FALSE /\ status' = [is |-> "disconnected", since |-> now]
          /\ events' = Notify(status, status')
          /\ UNCHANGED <<current, sessions, timer, flows, wired, subs, now>>
      BY <1>8 DEF Lost
    <2>2. status # status'
      BY <2>1 DEF Recorded
    <2>3. events' \in Nat /\ (subs # {} => events' > 0)
      BY <2>1, <2>2 DEF Notify, NetworkTypeOK, NetworkAssumption
    <2>4. NetworkTypeOK'
      BY <2>1, <2>3 DEF NetworkTypeOK, FlowOK, Known
    <2>5. CurrentTries'
      BY <2>1, <2>3 DEF CurrentTries, Trying, Hears
    <2>6. InTheTable'
      BY <2>1, TableStays
    <2> QED BY <2>1, <2>4, <2>5, <2>6 DEF Recorded, Hears, NetworkTypeOK
  <1>9. CASE NetworkTick
    <2>1. now' = now + 1 /\ UNCHANGED <<conn, status, current, sessions, timer, flows, wired, subs, events>>
      BY <1>9 DEF NetworkTick
    <2>2. NetworkTypeOK'
      BY <2>1 DEF NetworkTypeOK, FlowOK, Known
    <2>3. status.is = "disconnected" /\ Exhausted(status.since) => Exhausted(status.since)'
      BY <2>1 DEF Exhausted, Recorded, NetworkTypeOK, NetworkAssumption
    <2>4. CurrentTries'
      BY <2>1, <2>3 DEF CurrentTries, Trying
    <2>5. InTheTable'
      BY <2>1, TableStays
    <2> QED BY <2>1, <2>2, <2>4, <2>5 DEF Recorded, Hears
  <1>10. CASE ReachabilityChanges \/ UNCHANGED networkVars
    <2>1. UNCHANGED <<conn, status, current, sessions, timer, flows, wired, subs, events, now>>
      BY <1>10 DEF ReachabilityChanges, networkVars
    <2>2. InTheTable'
      BY <2>1, TableStays
    <2> QED BY <2>1, <2>2 DEF NetworkTypeOK, FlowOK, Known, Recorded, Hears, CurrentTries, Trying, Exhausted
  <1> QED BY <1>1, <1>2, <1>3, <1>4, <1>5, <1>6, <1>7, <1>8, <1>9, <1>10 DEF NetworkNext

(* A session with its graph whose peer is down keeps trying until it is    *)
(* released or another call's failed first connect takes it out of the     *)
(* table: a timer, an operation or an event leads to another attempt,      *)
(* unless the bound of the request is reached (network.py                  *)
(* _install_backoff_continuation()).                                       *)
THEOREM KeepsTryingCorrect == ASSUME NetworkAssumption PROVE NetworkSpec => []KeepsTrying
  <1>1. NetworkInv => KeepsTrying
    BY CurrentSuffices
  <1> QED BY <1>1, NetworkInvInit, NetworkInvStep, PTL DEF NetworkSpec

-------------------------------------------------------------------------------
(***************************************************************************)
(* Nested execution.  A handler starts under its own grant, which only     *)
(* what is registered holds; and of two frames of one stay at a peer, each *)
(* on top of the other, both carry the caller and the author of the        *)
(* request that came in.                                                   *)
(***************************************************************************)
HandlerGrants == Scopes \cup {SelfScope[p] : p \in Peers} \cup {Missing}
Callers == {Paths} \cup {Held[pq[1]][pq[2]] : pq \in Peers \X Peers} \cup {c.handlers : c \in Credentials}
RunningHandlers ==
    [peer : Peers, pattern : Paths, grant : HandlerGrants, caller : Callers, author : Peers,
     ttl : Int \cup {Missing}, chained : BOOLEAN]

SubDispatchTypeOK ==
    /\ entity \in [Peers -> [Paths -> {"plain", "native", Missing}]]
    /\ grant \in [Peers -> [Paths -> HandlerGrants]]
    /\ registered \in [Peers -> SUBSET Paths]
    /\ frames \in Seq(RunningHandlers)

GrantsFollow == \A p \in Peers, t \in Paths : grant[p][t] # Missing => t \in registered[p]

SameCaller(f, g) == f.peer = g.peer => f.caller = g.caller /\ f.author = g.author
OneCaller == \A i \in 1 .. Len(frames) - 1 : SameCaller(frames[i], frames[i + 1])

SubDispatchInv == SubDispatchTypeOK /\ GrantsFollow /\ OneCaller

LEMMA LeastOf ==
    ASSUME NEW T \in SUBSET Nat, T # {}
    PROVE  \E n \in T : \A m \in T : n <= m
  <1>1. PICK x \in T : \A y \in T : ~(<<y, x>> \in OpToRel(<, Nat))
    BY NatLessThanWellFounded, WFMin
  <1>2. \A y \in T : ~(y < x)
    BY <1>1 DEF OpToRel
  <1> QED BY <1>2

(* Of the patterns that lead to a path one is the longest. *)
LEMMA LongestIs ==
    ASSUME NEW n \in Nat, NEW ts, ts # {}, \A t \in ts : Len(t) \in Nat /\ Len(t) <= n
    PROVE  Longest(ts) \in ts
  <1> DEFINE T == {n - Len(t) : t \in ts}
  <1>1. T \in SUBSET Nat /\ T # {}
    OBVIOUS
  <1>2. PICK m \in T : \A k \in T : m <= k
    BY <1>1, LeastOf
  <1>3. PICK t \in ts : m = n - Len(t)
    BY <1>2
  <1>4. ASSUME NEW o \in ts PROVE Len(o) <= Len(t)
    <2>1. m <= n - Len(o)
      BY <1>2
    <2>2. Len(o) \in Nat /\ Len(t) \in Nat
      BY <1>3
    <2> QED BY <1>3, <2>1, <2>2
  <1>5. PICK x : x = CHOOSE o \in ts : \A q \in ts : Len(q) <= Len(o)
    OBVIOUS
  <1>6. x \in ts
    BY <1>3, <1>4, <1>5, Zenon
  <1> QED BY <1>5, <1>6 DEF Longest

LEMMA ResolvedIs ==
    ASSUME SubDispatchAssumption, NEW p \in Peers, NEW path \in Paths,
           ResolveHandler(p, path) # Missing
    PROVE  ResolveHandler(p, path) \in Paths
  <1> DEFINE W == {t \in Paths : IsPrefix(t, path) /\ entity[p][t] # Missing}
             B == {t \in Bound[p] : IsPrefix(t, path)}
  <1>1. Len(path) \in Nat /\ B \subseteq Paths /\ \A t \in Paths : Len(t) \in Nat
    BY DEF SubDispatchAssumption
  <1>2. \A t \in W \cup B : Len(t) \in Nat /\ Len(t) <= Len(path)
    BY <1>1 DEF IsPrefix
  <1>3. W # {} => Longest(W) \in Paths
    <2>1. W # {} => Longest(W) \in W
      BY <1>1, <1>2, LongestIs
    <2> QED BY <2>1
  <1>4. B # {} => Longest(B) \in Paths
    <2>1. B # {} => Longest(B) \in B
      BY <1>1, <1>2, LongestIs
    <2> QED BY <2>1, <1>1
  <1>5. (W = {} => Longest(W) = Missing) /\ (B = {} => Longest(B) = Missing)
    BY DEF Longest
  <1>6. ResolveHandler(p, path) \in {Longest(W), Longest(B)}
    BY DEF ResolveHandler, TreeWalkResolve, FindHandlerInfo
  <1>7. Longest(W) \in Paths \cup {Missing} /\ Longest(B) \in Paths \cup {Missing}
    BY <1>3, <1>4, <1>5
  <1> HIDE DEF W, B
  <1> QED BY <1>6, <1>7

(* A handler that starts, with the caller of the frame it is put on if     *)
(* that one is at the same peer.                                           *)
LEMMA StartsKeeps ==
    ASSUME SubDispatchInv, NEW p \in Peers, NEW t \in Paths, NEW c \in Callers, NEW author \in Peers,
           NEW ttl \in Int \cup {Missing}, NEW chained \in BOOLEAN,
           Starts(p, t, c, author, ttl, chained),
           frames # << >> /\ Top.peer = p => c = Top.caller /\ author = Top.author
    PROVE  SubDispatchInv' /\ StartsRegistered
  <1> DEFINE f == Frame(p, t, c, author, ttl, chained)
  <1>1. /\ f \in RunningHandlers /\ f.peer = p /\ f.pattern = t /\ f.caller = c /\ f.author = author
        /\ f.grant # Missing
    <2>1. grant[p][t] \in HandlerGrants /\ grant[p][t] # Missing
      BY DEF Starts, GetHandlerGrant, SubDispatchInv, SubDispatchTypeOK
    <2>2. DecrementTtl(ttl) \in Int \cup {Missing}
      BY DEF DecrementTtl
    <2> QED BY <2>1, <2>2 DEF Frame, RunningHandlers, GetHandlerGrant
  <1>2. frames' = Append(frames, f) /\ UNCHANGED <<entity, grant, registered>>
    BY DEF Starts
  <1> HIDE DEF f
  <1>3. frames \in Seq(RunningHandlers) /\ Len(frames) \in Nat
    BY DEF SubDispatchInv, SubDispatchTypeOK
  <1>4. /\ frames' \in Seq(RunningHandlers) /\ Len(frames') = Len(frames) + 1
        /\ \A i \in 1 .. Len(frames) : frames'[i] = frames[i]
        /\ frames'[Len(frames) + 1] = f
    BY <1>1, <1>2, <1>3
  <1>5. SubDispatchTypeOK' /\ GrantsFollow'
    BY <1>2, <1>4 DEF SubDispatchInv, SubDispatchTypeOK, GrantsFollow
  <1>6. OneCaller'
    <2> SUFFICES ASSUME NEW i \in 1 .. Len(frames) PROVE SameCaller(frames'[i], frames'[i + 1])
      BY <1>3, <1>4 DEF OneCaller
    <2>1. CASE i = Len(frames)
      <3>1. frames'[i] = Top /\ frames'[i + 1] = f
        BY <1>3, <1>4, <2>1 DEF Top, Last
      <3>2. frames # << >>
        BY <1>3
      <3> QED BY <1>1, <3>1, <3>2 DEF SameCaller
    <2>2. CASE i # Len(frames)
      <3>1. i \in 1 .. Len(frames) - 1 /\ frames'[i] = frames[i] /\ frames'[i + 1] = frames[i + 1]
        BY <1>3, <1>4, <2>2
      <3> QED BY <3>1 DEF SubDispatchInv, OneCaller
    <2> QED BY <2>1, <2>2
  <1>7. StartsRegistered
    <2>1. Last(frames') = f
      BY <1>3, <1>4 DEF Last
    <2>2. grant[p][t] # Missing
      BY DEF Starts, GetHandlerGrant
    <2> QED BY <1>1, <1>2, <2>1, <2>2 DEF StartsRegistered, SubDispatchInv, GrantsFollow
  <1> QED BY <1>5, <1>6, <1>7 DEF SubDispatchInv

LEMMA TopIsRunning ==
    ASSUME SubDispatchTypeOK, frames # << >>
    PROVE  Top \in RunningHandlers
  BY DEF SubDispatchTypeOK, Top, Last

(* Registration and revocation leave the running handlers alone. *)
LEMMA RegistryKeeps ==
    ASSUME SubDispatchInv, frames' = frames, SubDispatchTypeOK', GrantsFollow'
    PROVE  SubDispatchInv' /\ StartsRegistered
  <1>1. Len(frames) \in Nat
    BY DEF SubDispatchInv, SubDispatchTypeOK
  <1> QED BY <1>1 DEF SubDispatchInv, OneCaller, StartsRegistered

LEMMA HandledKeeps ==
    ASSUME SubDispatchAssumption, SubDispatchInv, NEW p \in Peers, NEW path \in Paths, NEW c \in Callers,
           NEW author \in Peers, NEW ttl \in Int \cup {Missing}, NEW chained \in BOOLEAN,
           HandleExecute(p, path, c, author, ttl, chained), frames = << >> \/ Top.peer # p
    PROVE  SubDispatchInv' /\ StartsRegistered
  <1>1. PICK t : t = ResolveHandler(p, path)
    OBVIOUS
  <1>2. t # Missing /\ Starts(p, t, c, author, ApplyDefaults(ttl), chained)
    BY <1>1 DEF HandleExecute
  <1>3. t \in Paths
    BY <1>1, <1>2, ResolvedIs
  <1>4. ApplyDefaults(ttl) \in Int \cup {Missing}
    BY DEF ApplyDefaults, SubDispatchAssumption
  <1> QED BY <1>2, <1>3, <1>4, StartsKeeps

LEMMA SubDispatchInvInit ==
    ASSUME SubDispatchAssumption, SubDispatchInit
    PROVE  SubDispatchInv
  <1>1. SubDispatchTypeOK
    BY DEF SubDispatchInit, CreateHandlerGrants, SubDispatchAssumption, SubDispatchTypeOK, HandlerGrants
  <1>2. GrantsFollow
    BY DEF SubDispatchInit, CreateHandlerGrants, GrantsFollow
  <1>3. OneCaller
    BY DEF SubDispatchInit, OneCaller
  <1> QED BY <1>1, <1>2, <1>3 DEF SubDispatchInv

LEMMA SubDispatchInvStep ==
    ASSUME SubDispatchAssumption, SubDispatchInv, [SubDispatchNext]_subDispatchVars
    PROVE  SubDispatchInv' /\ StartsRegistered
  <1> USE DEF SubDispatchInv
  <1>1. CASE UNCHANGED subDispatchVars
    <2>1. SubDispatchTypeOK' /\ GrantsFollow' /\ frames' = frames
      BY <1>1 DEF subDispatchVars, SubDispatchTypeOK, GrantsFollow
    <2> QED BY <2>1, RegistryKeeps
  <1>2. ASSUME NEW p \in Peers, NEW t \in Paths, Unregister(p, t)
        PROVE  SubDispatchInv' /\ StartsRegistered
    <2>1. SubDispatchTypeOK'
      BY <1>2 DEF Unregister, SubDispatchTypeOK, HandlerGrants
    <2>2. GrantsFollow'
      BY <1>2 DEF Unregister, SubDispatchTypeOK, GrantsFollow
    <2> QED BY <1>2, <2>1, <2>2, RegistryKeeps DEF Unregister
  <1>3. ASSUME NEW p \in Peers, NEW t \in Paths, NEW s \in Scopes, NEW k \in {"plain", "native"},
               Register(p, t, k, s)
        PROVE  SubDispatchInv' /\ StartsRegistered
    <2>1. SubDispatchTypeOK'
      BY <1>3 DEF Register, SubDispatchTypeOK, HandlerGrants
    <2>2. GrantsFollow'
      BY <1>3 DEF Register, SubDispatchTypeOK, GrantsFollow
    <2> QED BY <1>3, <2>1, <2>2, RegistryKeeps DEF Register
  <1>4. ASSUME NEW p \in Peers, NEW c \in Credentials, Revoke(p, c)
        PROVE  SubDispatchInv' /\ StartsRegistered
    <2>1. SubDispatchTypeOK' /\ GrantsFollow' /\ frames' = frames
      BY <1>4 DEF Revoke, SubDispatchTypeOK, GrantsFollow
    <2> QED BY <2>1, RegistryKeeps
  <1>5. ASSUME NEW p \in Peers, NEW t \in Paths, ExtensionExecute(p, t)
        PROVE  SubDispatchInv' /\ StartsRegistered
    <2>1. PICK h : h = ResolveHandler(p, t)
      OBVIOUS
    <2>2. frames = << >> /\ h # Missing /\ Starts(p, h, Paths, p, Missing, FALSE)
      BY <1>5, <2>1 DEF ExtensionExecute
    <2>3. h \in Paths
      BY <2>1, <2>2, ResolvedIs
    <2>4. Paths \in Callers
      BY DEF Callers
    <2> QED BY <2>2, <2>3, <2>4, StartsKeeps
  <1>6. ASSUME NEW p \in Peers, NEW q \in Peers, NEW t \in Paths, NEW b \in BOOLEAN, Request(p, q, t, b)
        PROVE  SubDispatchInv' /\ StartsRegistered
    <2>1. Held[p][q] \in Callers
      <3>1. <<p, q>> \in Peers \X Peers /\ <<p, q>>[1] = p /\ <<p, q>>[2] = q
        OBVIOUS
      <3> QED BY <3>1 DEF Callers
    <2>2. frames = << >> /\ HandleExecute(q, t, Held[p][q], p, Missing, b)
      BY <1>6 DEF Request
    <2> QED BY <2>1, <2>2, HandledKeeps
  <1>7. ASSUME NEW p \in Peers, NEW t \in Paths, NEW c \in Credentials \cup {Missing}, RemoteExecute(p, t, c)
        PROVE  SubDispatchInv' /\ StartsRegistered
    <2>1. frames # << >> /\ p # Top.peer
      BY <1>7 DEF RemoteExecute
    <2>2. Top.peer \in Peers /\ Top.chained \in BOOLEAN /\ WireBounds(Top) \in Int \cup {Missing}
      BY <2>1, TopIsRunning DEF RunningHandlers, WireBounds
    <2>3. PICK h : h = IF c # Missing THEN c.handlers ELSE Held[Top.peer][p]
      OBVIOUS
    <2>4. h \in Callers
      <3>1. <<Top.peer, p>> \in Peers \X Peers
        BY <2>2
      <3>2. Held[<<Top.peer, p>>[1]][<<Top.peer, p>>[2]] = Held[Top.peer][p]
        OBVIOUS
      <3>3. Held[Top.peer][p] \in Callers
        BY <3>1, <3>2 DEF Callers
      <3>4. c # Missing => c.handlers \in Callers
        BY DEF Callers
      <3> QED BY <2>3, <3>3, <3>4
    <2>5. HandleExecute(p, t, h, Top.peer, WireBounds(Top), Top.chained)
      BY <1>7, <2>3 DEF RemoteExecute
    <2> QED BY <2>1, <2>2, <2>4, <2>5, HandledKeeps
  <1>8. ASSUME NEW t \in Paths, DispatchLocalExecute(t)
        PROVE  SubDispatchInv' /\ StartsRegistered
    <2>1. PICK h : h = ResolveHandler(Top.peer, t)
      OBVIOUS
    <2>2. frames # << >> /\ h # Missing /\ Starts(Top.peer, h, Top.caller, Top.author, Top.ttl, Top.chained)
      BY <1>8, <2>1 DEF DispatchLocalExecute, ExecuteDispatcher
    <2>3. /\ Top.peer \in Peers /\ Top.caller \in Callers /\ Top.author \in Peers
          /\ Top.ttl \in Int \cup {Missing} /\ Top.chained \in BOOLEAN
      BY <2>2, TopIsRunning DEF RunningHandlers
    <2>4. h \in Paths
      BY <2>1, <2>2, <2>3, ResolvedIs
    <2> QED BY <2>2, <2>3, <2>4, StartsKeeps
  <1>9. ASSUME Return
        PROVE  SubDispatchInv' /\ StartsRegistered
    <2>1. /\ frames \in Seq(RunningHandlers) /\ frames # << >> /\ frames' = SubSeq(frames, 1, Len(frames) - 1)
          /\ UNCHANGED <<entity, grant, registered>>
      BY <1>9 DEF Return, Front, SubDispatchTypeOK
    <2>2. /\ frames' \in Seq(RunningHandlers) /\ Len(frames') = Len(frames) - 1 /\ Len(frames) \in Nat
          /\ \A i \in 1 .. Len(frames') : frames'[i] = frames[i]
      <3>1. Len(frames) \in Nat /\ Len(frames) > 0
        BY <2>1
      <3>2. frames' \in Seq(RunningHandlers)
        BY <2>1, <3>1
      <3>3. Len(frames') = Len(frames) - 1
        <4> DEFINE n == Len(frames) - 1
        <4>1. n \in 0 .. Len(frames) /\ n = Len(frames) - 1
          BY <3>1
        <4> HIDE DEF n
        <4>2. frames' = SubSeq(frames, 1, n)
          BY <2>1, <4>1
        <4> QED BY <2>1, <4>1, <4>2
      <3>4. \A i \in 1 .. Len(frames) - 1 : frames'[i] = frames[i]
        BY <2>1, <3>1
      <3> QED BY <3>1, <3>2, <3>3, <3>4
    <2>3. SubDispatchTypeOK' /\ GrantsFollow'
      BY <2>1, <2>2 DEF SubDispatchTypeOK, GrantsFollow
    <2>4. OneCaller'
      <3>1. \A i \in 1 .. Len(frames') - 1 :
              i \in 1 .. Len(frames) - 1 /\ frames'[i] = frames[i] /\ frames'[i + 1] = frames[i + 1]
        BY <2>2
      <3> QED BY <3>1 DEF OneCaller
    <2> QED BY <2>2, <2>3, <2>4 DEF StartsRegistered
  <1> QED BY <1>1, <1>2, <1>3, <1>4, <1>5, <1>6, <1>7, <1>8, <1>9 DEF SubDispatchNext

(* Registration, grants and the stack of running handlers stay together    *)
(* while handlers come and go (peer.py _resolve_handler(),                 *)
(* _authorize_handler_grant(), handlers.py).                               *)
THEOREM SubDispatchInvCorrect ==
    ASSUME SubDispatchAssumption PROVE SubDispatchSpec => []SubDispatchInv
  BY SubDispatchInvInit, SubDispatchInvStep, PTL DEF SubDispatchSpec

(* No handler starts at a pattern that was unregistered and not registered *)
(* again (handlers.py _handle_unregister()).                               *)
THEOREM StaysOutCorrect ==
    ASSUME SubDispatchAssumption PROVE SubDispatchSpec => UnregisteredStaysOut
  <1>1. SubDispatchInv /\ [SubDispatchNext]_subDispatchVars => [StartsRegistered]_subDispatchVars
    BY SubDispatchInvStep
  <1> QED BY <1>1, SubDispatchInvCorrect, PTL DEF SubDispatchSpec, UnregisteredStaysOut

LEMMA EntryIs ==
    ASSUME SubDispatchInv, NEW i \in 1 .. Len(frames)
    PROVE  Entry(i) \in 1 .. i /\ \A k \in Entry(i) .. i : frames[k].peer = frames[i].peer
  <1> DEFINE T == {j \in 1 .. i : \A k \in j .. i : frames[k].peer = frames[i].peer}
  <1>1. T \in SUBSET Nat /\ i \in T
    OBVIOUS
  <1>2. PICK n \in T : \A m \in T : n <= m
    BY <1>1, LeastOf
  <1>3. n > 1 => frames[n - 1].peer # frames[i].peer
    <2> SUFFICES ASSUME n > 1, frames[n - 1].peer = frames[i].peer PROVE FALSE
      OBVIOUS
    <2>1. n - 1 \in 1 .. i /\ \A k \in n - 1 .. i : k = n - 1 \/ k \in n .. i
      BY <1>2
    <2>2. n - 1 \in T
      BY <1>2, <2>1
    <2> QED BY <1>2, <2>2
  <1> QED BY <1>2, <1>3 DEF Entry

(* However deep handlers execute one another at a peer, each sees the      *)
(* capability and the author of the request that came in                   *)
(* (peer.py _make_execute_dispatcher()).                                   *)
THEOREM CallerCorrect ==
    ASSUME SubDispatchAssumption PROVE SubDispatchSpec => []CallerSurvives
  <1>1. ASSUME SubDispatchInv, NEW i \in 1 .. Len(frames)
        PROVE  frames[i].caller = frames[Entry(i)].caller /\ frames[i].author = frames[Entry(i)].author
    <2> DEFINE n == Entry(i)
               Same(m) == frames[m].caller = frames[n].caller /\ frames[m].author = frames[n].author
               T == {m \in n .. i : ~Same(m)}
    <2>1. n \in 1 .. i /\ \A k \in n .. i : frames[k].peer = frames[i].peer
      BY <1>1, EntryIs
    <2> HIDE DEF n
    <2> SUFFICES ASSUME T # {} PROVE FALSE
      BY <2>1 DEF n
    <2>2. T \in SUBSET Nat
      BY <2>1
    <2>3. PICK m \in T : \A k \in T : m <= k
      BY <2>2, LeastOf
    <2>4. m # n /\ m \in n .. i
      BY <2>3
    <2>5. m - 1 \in n .. i /\ m - 1 \notin T /\ m - 1 \in 1 .. Len(frames) - 1
      <3>1. Len(frames) \in Nat
        BY <1>1 DEF SubDispatchInv, SubDispatchTypeOK
      <3> QED BY <2>1, <2>3, <2>4, <3>1
    <2>6. SameCaller(frames[m - 1], frames[m])
      <3>1. m - 1 + 1 = m
        BY <2>4, <2>1
      <3> QED BY <1>1, <2>5, <3>1 DEF SubDispatchInv, OneCaller
    <2>7. frames[m - 1].peer = frames[m].peer
      BY <2>1, <2>4, <2>5
    <2> QED BY <2>3, <2>5, <2>6, <2>7 DEF SameCaller
  <1>2. SubDispatchInv => CallerSurvives
    BY <1>1 DEF CallerSurvives
  <1> QED BY <1>2, SubDispatchInvCorrect, PTL
=============================================================================
