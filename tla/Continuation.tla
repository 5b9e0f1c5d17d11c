---------------------------- MODULE Continuation ----------------------------
(***************************************************************************)
(* One standing continuation, forward or join, and the inbox that feeds    *)
(* it: receive() of inbox.py and install, advance, resume and abandon of   *)
(* continuation.py.                                                        *)
(*                                                                         *)
(* A call is one delivery with the advance it triggers.  Calls interleave  *)
(* where the code awaits a dispatch to the continuation's target.  What a  *)
(* call does between two awaits is a segment: an operator that says which  *)
(* entity it leaves at the path, where the call waits next and what became *)
(* observable.                                                             *)
(***************************************************************************)
EXTENDS Naturals, Sequences, FiniteSets

CONSTANTS
    Slots,     \* expected: the slots of the join
    Installs,  \* the fixed fields of the continuations that may be installed:
               \* kind, remaining, policy, target, onError, notification;
               \* errors: may a delivery be one; calls: bound on deliveries
    Rounds,    \* bound: the rounds a delivery may name
    Ceiling,   \* DEFAULT_MAX_CHAIN_DEPTH
    MaxRoots   \* bound: the first dispatch of a chain and its resumptions

Forever == 0           \* remaining_executions is absent
Untagged == Rounds     \* round_id is absent from a delivery
None == [received |-> <<>>]

(* What may be installed, as _handle_install() checks it. *)
ContinuationAssumption ==
    /\ Slots # {} /\ Rounds \in Nat
    /\ Installs \subseteq [kind : {"join", "forward"}, remaining : Nat,
                           policy : {"none", "abandon", "fire-partial"},
                           target : {"local", "remote", "looping"}, onError : BOOLEAN,
                           notification : BOOLEAN, errors : BOOLEAN, calls : Nat]

VARIABLES
    fixed,     \* the installed continuation's fixed fields
    cont,      \* the entity bound at the path, or None
    call,      \* the deliveries so far, in order
    mailbox,   \* the deliveries stored in the tree
    markers,   \* markers and on_error deliveries: [code, of], of the deliveries concerned
    fired,     \* dispatches to the target: [by, of, round, full]
    ended,     \* those that aged the continuation
    suspended, \* the chains with a suspended entity
    roots      \* chain -> dispatches that rooted it: the first, and each resume

vars == <<fixed, cont, call, mailbox, markers, fired, ended, suspended, roots>>

Live == {i \in DOMAIN call : call[i].pc \in {"sweeping", "reaping", "dispatching"}}
Empty == [s \in Slots |-> 0]
Filled(c) == {s \in DOMAIN c.received : c.received[s] # 0}
Contents(c) == {c.received[s] : s \in Filled(c)}
Join == fixed.kind = "join"
Timed == fixed.policy # "none"

(* _handle_install(): the entity, and round 0. *)
Install(f) ==
    /\ fixed = f
    /\ cont = [received |-> Empty, remaining |-> f.remaining, round |-> 0, late |-> FALSE]

Init ==
    /\ \E f \in Installs : Install(f)
    /\ call = <<>> /\ mailbox = {} /\ markers = {} /\ fired = {} /\ ended = {}
    /\ suspended = {} /\ roots = <<>>

-----------------------------------------------------------------------------
(* What one call does from one await to the next. *)
Segment(c, pc) == [cont |-> c, pc |-> pc, held |-> None, marks |-> {}, fire |-> {}, suspend |-> FALSE]

(* _bind_lost_marker() *)
Mark(seg, code, of) == [seg EXCEPT !.marks = @ \cup {[code |-> code, of |-> of]}]

Fire(seg, d, c, full) ==
    [seg EXCEPT !.fire = {[by |-> d.id, of |-> c.received, round |-> c.round, full |-> full]},
                !.held = c]

(* The next round starts empty; only a join with a deadline numbers it. *)
Turnover(c) ==
    [c EXCEPT !.received = Empty, !.round = IF Timed THEN @ + 1 ELSE @, !.late = FALSE]

(* _age_join_after_fire(), and the same for a forward continuation: from   *)
(* the entity the call holds, not the one that is bound now.               *)
Aged(c) ==
    IF c.remaining = 1 THEN None
    ELSE [Turnover(c) EXCEPT !.remaining = IF @ = Forever THEN @ ELSE @ - 1]

Expired(c) == Join /\ c # None /\ c.late /\ Filled(c) # Slots

(* _step6_chain_context() and _chain_depth_exceeded() *)
Brakes(d) == d.depth + 1 > Ceiling

(* _suspend_chain_depth_exceeded(): a terminal 429. *)
Suspends(c, d) ==
    [Mark(Segment(c, "refused"), "bounds_exceeded", {d.id}) EXCEPT !.suspend = TRUE]

(* Mutant: a straggler of another round is admitted. *)
StragglerMutant(c, d) == FALSE

Straggler(c, d) == Timed /\ d.tag \notin {Untagged, c.round}

(* A slot that does not complete its round is stored. *)
Accumulated(c) == Segment(c, "ok")

(* _advance_join() behind the reap.  The last slot of a round goes out     *)
(* with the dispatch and is not stored.                                    *)
Fill(c, d) ==
    LET to == [c EXCEPT !.received[d.slot] = d.id]
        noted(seg) == IF d.bad THEN Mark(seg, "join_error_slot", {d.id}) ELSE seg
    IN  CASE Straggler(c, d) -> Mark(Segment(c, "ok"), "join_late", {d.id})
          [] ~Straggler(c, d) /\ d.slot \in Filled(c) -> Segment(c, "refused")
          [] OTHER -> noted(IF Filled(to) # Slots THEN Accumulated(to)
                            ELSE IF Brakes(d) THEN Suspends(c, d)
                            ELSE [Fire(Segment(c, "dispatching"), d, to, TRUE) EXCEPT !.held = c])

(* _reap_expired_join_round(), reached from this call's own advance. *)
Reaped(c, d) ==
    IF fixed.policy = "abandon"
    THEN Mark(Fill(Turnover(c), d), "join_abandoned", Contents(c))
    ELSE Fire(Segment(c, "reaping"), d, c, FALSE)

(* _advance_join(): an expired round goes first. *)
Touch(c, d) == IF Expired(c) THEN Reaped(c, d) ELSE Fill(c, d)

(* _advance_forward() up to its dispatch. *)
Forward(c, d) ==
    IF Brakes(d) THEN Suspends(c, d)
    ELSE IF d.bad /\ fixed.onError THEN Mark(Segment(c, "ok"), "on_error", {d.id})
         ELSE Fire(Segment(c, "dispatching"), d, [c EXCEPT !.received = [s \in Slots |-> d.id]], TRUE)

(* _handle_advance() behind the sweep: nothing to advance is a success. *)
Advance(c, d) ==
    IF c = None THEN Segment(c, "ok") ELSE IF Join THEN Touch(c, d) ELSE Forward(c, d)

(* _maybe_sweep_joins(), unless throttled or unaware of the path since a   *)
(* restart: it abandons as Touch does; a partial fire is awaited, and the  *)
(* entity is read afterwards.                                              *)
SweepFirst(d, sweeps) ==
    IF sweeps /\ Expired(cont) /\ fixed.policy = "fire-partial"
    THEN Fire(Segment(cont, "sweeping"), d, cont, FALSE)
    ELSE Advance(cont, d)

-----------------------------------------------------------------------------
(* Mutant: the stored delivery is removed whatever the advance returned. *)
CleansUpMutant(pc) == pc \in {"ok", "refused"} /\ ~fixed.notification

(* The end of _handle_receive(), and of _handle_notification(). *)
CleansUp(pc) == pc = "ok" /\ ~fixed.notification

(* Delivery d enters, or goes on, with what its segment does. *)
Takes(d, seg, left) ==
    /\ call' = [i \in DOMAIN call \cup {d.id} |->
                   IF i = d.id THEN [d EXCEPT !.pc = seg.pc, !.held = seg.held] ELSE call[i]]
    /\ cont' = seg.cont
    /\ mailbox' = IF CleansUp(seg.pc) THEN mailbox \ {d.id} ELSE mailbox \cup {d.id}
    /\ markers' = markers \cup seg.marks
    /\ fired' = fired \cup seg.fire
    /\ suspended' = IF seg.suspend THEN left \cup {d.chain} ELSE left
    /\ UNCHANGED fixed

(* _handle_receive(): store, and advance what is bound at the path.  With  *)
(* nothing bound there the delivery stays.                                 *)
Receive(d, sweeps) ==
    Takes(d, IF cont = None THEN Segment(cont, "refused") ELSE SweepFirst(d, sweeps), suspended)

Delivery(s, t, bad, depth, chain) ==
    [id |-> Len(call) + 1, slot |-> s, tag |-> t, bad |-> bad, depth |-> depth,
     chain |-> chain, pc |-> "new", held |-> None]

(* A delivery from outside carries no chain: it roots one. *)
Delivered ==
    /\ Len(call) < fixed.calls
    /\ fixed.target = "remote" \/ Live = {}
    /\ \E s \in IF Join THEN Slots ELSE {CHOOSE s \in Slots : TRUE},
          t \in IF Timed THEN 0..Rounds ELSE {Untagged},
          bad \in IF fixed.errors THEN BOOLEAN ELSE {FALSE}, sweeps \in BOOLEAN :
          Receive(Delivery(s, t, bad, 0, Len(call) + 1), sweeps)
    /\ roots' = Append(roots, 1)
    /\ UNCHANGED ended

(* The target delivers to the path it was dispatched from, in one chain. *)
Loops(i) ==
    /\ fixed.target = "looping" /\ call[i].pc = "dispatching"
    /\ i = Len(call) /\ Len(call) < fixed.calls
    /\ Receive(Delivery(call[i].slot, Untagged, FALSE, call[i].depth + 1, call[i].chain), FALSE)
    /\ roots' = Append(roots, 0)
    /\ UNCHANGED ended

(* The awaited dispatch of call i is over, and its rest runs.  A dispatch  *)
(* to a local target is a nested call.                                     *)
Continues(i, seg) ==
    /\ fixed.target = "remote" \/ \A j \in Live : j <= i
    /\ Takes(call[i], seg, suspended)
    /\ UNCHANGED roots

Mine(i) == {f \in fired : f.by = i}

(* The dispatch is delivered, whatever the target answers. *)
ForwardReturns(i) ==
    /\ call[i].pc = "dispatching" /\ ~Join
    /\ LET c == call[i].held
           s == Segment(IF c.remaining # Forever THEN Aged(c) ELSE cont, "ok")
       IN  \E bad \in BOOLEAN :
              Continues(i, IF bad /\ ~fixed.onError THEN Mark(s, "dispatch_code", {i}) ELSE s)
    /\ ended' = ended \cup Mine(i)

JoinReturns(i) ==
    /\ call[i].pc = "dispatching" /\ Join
    /\ Continues(i, Segment(Aged(call[i].held), "ok"))
    /\ ended' = ended \cup Mine(i)

(* The dispatch raises: a marker, or on_error.  A join keeps its slots. *)
Undelivered(i) == Continues(i, Mark(Segment(cont, "refused"), "transport_code", {i}))

ForwardFails(i) ==
    /\ call[i].pc = "dispatching" /\ ~Join
    /\ Undelivered(i)
    /\ UNCHANGED ended

JoinFails(i) ==
    /\ call[i].pc = "dispatching" /\ Join
    /\ Undelivered(i)
    /\ UNCHANGED ended

(* _fire_partial_round() ends, delivered or not: the join ages.  A swept   *)
(* one is read again; a touched one goes on with the entity in hand.       *)
PartialEnds(i) ==
    /\ call[i].pc \in {"sweeping", "reaping"}
    /\ LET c == Aged(call[i].held) IN
       Continues(i, IF c = None THEN Segment(c, "ok")
                    ELSE IF call[i].pc = "sweeping" THEN Advance(c, call[i])
                    ELSE Fill(c, call[i]))
    /\ ended' = ended \cup Mine(i)

(* The deadline of the round passes. *)
Deadline ==
    /\ Join /\ Timed /\ cont # None /\ ~cont.late
    /\ cont' = [cont EXCEPT !.late = TRUE]
    /\ UNCHANGED <<fixed, call, mailbox, markers, fired, ended, suspended, roots>>

(* _handle_resume(): the suspended entity goes first, the request is       *)
(* dispatched from depth 0, and a looping target delivers again.           *)
Resume(ch) ==
    /\ ch \in suspended /\ Live = {}
    /\ roots[ch] < MaxRoots /\ Len(call) < fixed.calls
    /\ LET d == Delivery(call[ch].slot, Untagged, FALSE, 0, ch)
       IN  Takes(d, IF cont = None THEN Segment(cont, "refused") ELSE Advance(cont, d),
                 suspended \ {ch})
    /\ roots' = Append([roots EXCEPT ![ch] = @ + 1], 0)
    /\ UNCHANGED ended

(* _handle_abandon(), and a resume whose dispatch raises. *)
Abandon(ch) ==
    /\ ch \in suspended
    /\ suspended' = suspended \ {ch}
    /\ UNCHANGED <<fixed, cont, call, mailbox, markers, fired, ended, roots>>

Next ==
    \/ Delivered \/ Deadline
    \/ \E i \in DOMAIN call : 
          \/ Loops(i) \/ PartialEnds(i)
          \/ ForwardReturns(i) \/ JoinReturns(i)
          \/ ForwardFails(i) \/ JoinFails(i)
    \/ \E ch \in suspended : Resume(ch) \/ Abandon(ch)

Spec == Init /\ [][Next]_vars

-----------------------------------------------------------------------------
Named(f) == {f.of[s] : s \in DOMAIN f.of} \ {0}

(* "drops the straggler (MUST)": what one dispatch of a join carries was   *)
(* sent for one round, and a dispatch that is not a partial one carries    *)
(* every slot, whatever was delivered while earlier dispatches of the join *)
(* were awaited.                                                           *)
RoundPure ==
    \A f \in fired :
        /\ f.full => 0 \notin {f.of[s] : s \in Slots}
        /\ Join /\ Timed => \A i \in Named(f) : call[i].tag \in {Untagged, f.round}

(* Write-ahead storage: a delivery is in the mailbox, in the join, in a    *)
(* dispatch that was delivered, or there is a marker or an on_error        *)
(* delivery for it.                                                        *)
Accounted(i) ==
    \/ i \in mailbox \cup Contents(cont)
    \/ \E f \in fired : i \in Named(f) /\ (f.full => f \in ended)
    \/ \E m \in markers : i \in m.of

(* "a counted join fire more times than it was installed for": it does not.*)
CountHolds == fixed.remaining # Forever => Cardinality(ended) <= fixed.remaining

(* With a target that is dispatched to without suspending, no delivery is  *)
(* lost and the count of executions holds.  The one exception is a partial *)
(* fire that uses up the join: the delivery that triggers it finds nothing *)
(* to advance, which the inbox takes for success.                          *)
OneAtATime ==
    fixed.target = "local" =>
        /\ CountHolds
        /\ ~(fixed.policy = "fire-partial" /\ fixed.remaining # Forever)
              => \A i \in DOMAIN call : Accounted(i)

=============================================================================
