---------------------------- MODULE ContentFetch ----------------------------
(***************************************************************************)
(* Fetching a blob and its chunks (entity_handlers/content): the content   *)
(* handler of the source peer answers as many of the hashes it is asked    *)
(* for as fit a frame, ensure_closure drains batches until the closure is  *)
(* local, and a hash the source does not have is looked for along the      *)
(* chain of substitute sources (entity_handlers/substitute).               *)
(*                                                                         *)
(* The source is itself receiving the blob meanwhile.  The caller that     *)
(* tries again after an error, and consults the chain for what is missing, *)
(* is the user of both helpers (external).  Hash 0 is the blob, 1 to N its *)
(* chunks in order; bodies that do not hash to what was asked for are      *)
(* answers "mismatch".                                                     *)
(***************************************************************************)
EXTENDS Integers, Sequences, FiniteSets, SequencesExt

CONSTANTS N,
          Size(_),           \* bytes of an entity
          Inline,            \* TRUE: the blob is small, its chunks ride with it
          Budget,            \* bytes of entities a response may carry
          BatchSize,         \* GET_BATCH_SIZE
          MaxLoops,          \* max_loops of ensure_closure
          Never,             \* hashes the source never gets
          Mirrors,           \* substitute sources
          Priority(_), Has(_),
          Answers(_),        \* what a mirror may say when it has nothing to serve
          Lapses,            \* mirrors that may be disabled or expire
          MaxFaults, None

Hashes == 0 .. N
Chunks == 1 .. N

VARIABLES remote,    \* hashes in the source's store
          local,     \* hashes in the consumer's store
          pc,        \* ensure_closure: "blob", "loop", "done", "failed"
          loop,      \* iterations done
          code,      \* code of the ClosureError raised last
          wanted,    \* the hash a chain is consulted for, or None
          queue,     \* sources it still has to try, in order
          active,    \* mirrors enabled and not expired
          faults

vars == <<remote, local, pc, loop, code, wanted, queue, active, faults>>

Init ==
    /\ remote \in SUBSET (Hashes \ Never)
    /\ local = {} /\ pc = "blob" /\ loop = 0 /\ code = None
    /\ wanted = None /\ queue = <<>> /\ active = Mirrors /\ faults = 0

---------------------------------------------------------------------------
(* system/content:get at the source *)

\* Entities that do not fit are reported missing, unless nothing was found yet.
FitsMutant(acc, h) == acc.bytes + Size(h) <= Budget
Fits(acc, h) == acc.bytes + Size(h) <= Budget \/ acc.found = {}

Add(acc, h) == [bytes |-> acc.bytes + Size(h), found |-> acc.found \cup {h}]

InlineChunk(acc, c) ==
    IF c \in remote \ acc.found /\ acc.bytes + Size(c) <= Budget THEN Add(acc, c) ELSE acc

HandleGet(hashes) ==
    FoldLeft(LAMBDA acc, h :
                 IF h \notin remote \/ ~Fits(acc, h) THEN acc
                 ELSE IF h = 0 /\ Inline
                      THEN FoldLeft(InlineChunk, Add(acc, h), [i \in 1 .. N |-> i])
                      ELSE Add(acc, h),
             [bytes |-> 0, found |-> {}], hashes).found

---------------------------------------------------------------------------
(* ensure_closure at the consumer *)

Raise(c) == pc' = "failed" /\ code' = c

DrainBlob ==
    /\ pc = "blob"
    /\ LET got == IF 0 \in local THEN {} ELSE HandleGet(<<0>>)
       IN  /\ local' = local \cup got
           /\ IF 0 \in local \cup got THEN pc' = "loop" /\ UNCHANGED code
                                      ELSE Raise("not_found")
    /\ loop' = 0
    /\ UNCHANGED <<remote, wanted, queue, active, faults>>

Needed == SetToSortSeq(Chunks \ local, LAMBDA a, b : a < b)

Batch == SubSeq(Needed, 1, IF Len(Needed) < BatchSize THEN Len(Needed) ELSE BatchSize)

DrainBatch ==
    /\ pc = "loop"
    /\ loop < MaxLoops
    /\ IF Needed = <<>>
       THEN pc' = "done" /\ UNCHANGED <<local, loop, code>>
       ELSE LET got == HandleGet(Batch)
            IN  /\ local' = local \cup got
                /\ loop' = loop + 1
                /\ IF got \cap ToSet(Batch) = {}
                   THEN Raise("blob_pending_sync") ELSE UNCHANGED <<pc, code>>
    /\ UNCHANGED <<remote, wanted, queue, active, faults>>

\* The range of loops is exhausted.
LoopsExhausted ==
    /\ pc = "loop"
    /\ loop = MaxLoops
    /\ Raise("closure_incomplete")
    /\ UNCHANGED <<remote, local, loop, wanted, queue, active, faults>>

\* The dispatch fails, or the answer is an error.
DrainFails ==
    /\ pc \in {"blob", "loop"}
    /\ faults < MaxFaults /\ faults' = faults + 1
    /\ Raise("dispatch_error")
    /\ UNCHANGED <<remote, local, loop, wanted, queue, active>>

---------------------------------------------------------------------------
(* The substitute chain *)

ListActiveSources ==
    SetToSortSeq(active, LAMBDA a, b : Priority(a) < Priority(b))

\* The caller looks for the first missing hash along the chain.
Consult ==
    /\ pc = "failed" /\ wanted = None
    /\ LET missing == IF 0 \in local THEN Needed ELSE <<0>>
       IN  /\ missing # <<>>
           /\ wanted' = missing[1]
    /\ queue' = ListActiveSources
    /\ UNCHANGED <<remote, local, pc, loop, code, active, faults>>

\* What the chain does with a source's answer that is not the entity.
Rest(answer) == IF answer = "forbidden" THEN <<>> ELSE Tail(queue)

\* A mirror with the entity serves it, or fails for the moment; one without
\* answers as it does: not found, a body of another hash, forbidden.
Try ==
    /\ wanted # None /\ queue # <<>>
    /\ \/ /\ wanted \in Has(Head(queue))
          /\ local' = local \cup {wanted}
          /\ queue' = <<>>
          /\ UNCHANGED faults
       \/ /\ wanted \in Has(Head(queue))
          /\ faults < MaxFaults /\ faults' = faults + 1
          /\ queue' = Rest("network_error")
          /\ UNCHANGED local
       \/ /\ wanted \notin Has(Head(queue))
          /\ \E a \in Answers(Head(queue)) : queue' = Rest(a)
          /\ UNCHANGED <<local, faults>>
    /\ UNCHANGED <<remote, pc, loop, code, wanted, active>>

\* The outcome is with the caller, which starts over.
Retry ==
    /\ pc = "failed"
    /\ \/ wanted # None /\ queue = <<>>
       \/ wanted = None /\ 0 \in local /\ Needed = <<>>
    /\ wanted' = None /\ pc' = "blob"
    /\ UNCHANGED <<remote, local, loop, code, queue, active, faults>>

---------------------------------------------------------------------------
(* The source receives what it does not have; mirrors lapse. *)

Arrive(h) ==
    /\ h \notin remote \cup Never
    /\ remote' = remote \cup {h}
    /\ UNCHANGED <<local, pc, loop, code, wanted, queue, active, faults>>

Lapse(m) ==
    /\ m \in active \cap Lapses
    /\ active' = active \ {m}
    /\ UNCHANGED <<remote, local, pc, loop, code, wanted, queue, faults>>

Next ==
    \/ DrainBlob \/ DrainBatch \/ LoopsExhausted \/ DrainFails
    \/ Consult \/ Try \/ Retry
    \/ \E h \in Hashes : Arrive(h)
    \/ \E m \in Mirrors : Lapse(m)
    \/ pc = "done" /\ UNCHANGED vars

\* The consumer's steps follow one another as answers come in; the source's
\* own synchronisation goes on.
Consumes == DrainBlob \/ DrainBatch \/ LoopsExhausted \/ Consult \/ Try \/ Retry
Spec ==
    /\ Init /\ [][Next]_vars
    /\ WF_vars(Consumes)
    /\ \A h \in Hashes : WF_vars(Arrive(h))

---------------------------------------------------------------------------
(* Properties *)

(***************************************************************************)
(* A caller that keeps asking gets the whole blob, as long as every entity *)
(* reaches the source or is at a mirror that does not lapse: a frame too   *)
(* small for an entity, a batch the source cannot serve and a mirror that  *)
(* fails never stand in the way for good.                                  *)
(***************************************************************************)
FetchEnds == <>[](pc = "done" /\ Hashes \subseteq local)

============================================================================
