------------------------------ MODULE MCLinks ------------------------------
(* Links between peers: the pool of dialed connections, the dispatch slots *)
(* of two peers that call each other, the calls multiplexed over one       *)
(* connection, and the retrieval of content.  What they share in the code  *)
(* is not what they do here, so a run takes one of them, `part`, and the   *)
(* others stand still: the pool, with two dispatchers, a relay, inbound    *)
(* connections, release, close and stop; dispatch; three calls on a        *)
(* connection; all of which this module extends; or retrieval, whose       *)
(* variables are x1, x2, ...                                               *)
EXTENDS RemotePool, Dispatch, Connection

CONSTANTS Unused,
          a, b            \* peers

VARIABLES part, x1, x2, x3, x4, x5, x6, x7, x8, x9

others == <<part, x1, x2, x3, x4, x5, x6, x7, x8, x9>>
all    == <<poolVars, dispatchVars, vars, others>>

(***************************************************************************)
(* One slot a peer; three plain calls, which can wait for one another in a *)
(* ring, or two that ask for durability.                                   *)
(***************************************************************************)
Ask(id, want, deliver) == [id |-> id, want |-> want, deliver |-> deliver]
Want(level, must) == [level |-> level, must |-> must]
PlainRequest == Ask(0, None, FALSE)
Durable  == {Ask(1, Want(l, TRUE), FALSE) : l \in {"stored", "replicated", "other"}}
            \cup {Ask(1, Want("replicated", TRUE), TRUE)}
Durability == {[most |-> "none", replicates |-> FALSE], [most |-> "stored", replicates |-> TRUE],
               [most |-> "stored", replicates |-> FALSE]}
Light    == [asks |-> {PlainRequest}, sends |-> 2, calls |-> 3]
Heavy    == [asks |-> Durable, sends |-> 2, calls |-> 2]
Loaded(p) == IF p.most = "none" THEN Light ELSE Heavy

(***************************************************************************)
(* Four chunks, of which chunk 2 exceeds a frame; the source never gets    *)
(* chunk 3, which the last of three mirrors has.                           *)
(***************************************************************************)
SizeOf(h)   == IF h = 2 THEN 5 ELSE 2
RankOf(m)   == CASE m = "m1" -> 1 [] m = "m2" -> 2 [] m = "m3" -> 3
HeldBy(m)   == CASE m = "m1" -> {0} [] m = "m2" -> {1} [] m = "m3" -> {3}
Failures(m) == {"not_found", "mismatch"}
Mirrors     == {"m1", "m2", "m3"}
Absent      == {3}
Leaving     == {"m1"}

F == INSTANCE ContentFetch WITH
        N <- 4, Size <- SizeOf, Inline <- TRUE, Budget <- 4, BatchSize <- 2, MaxLoops <- 2,
        Never <- Absent, Priority <- RankOf, Has <- HeldBy, Answers <- Failures,
        Lapses <- Leaving, MaxFaults <- 2,
        remote <- x1, local <- x2, pc <- x3, loop <- x4, code <- x5, wanted <- x6,
        queue <- x7, active <- x8, faults <- x9

ASSUME PoolAssumption /\ GraceIsShort /\ DispatchAssumption /\ ConnectionAssumption

-----------------------------------------------------------------------------
(* Dispatch stands still in one of its initial states. *)
NoDispatch == DispatchInit /\ policy = [most |-> "none", replicates |-> FALSE]

Rest == /\ x1 = Unused /\ x2 = Unused /\ x3 = Unused /\ x4 = Unused /\ x5 = Unused
        /\ x6 = Unused /\ x7 = Unused /\ x8 = Unused /\ x9 = Unused

LinksInit ==
    /\ PoolInit /\ Init
    /\ \/ part \in {"pool", "conn"} /\ NoDispatch /\ Rest
       \/ part = "dispatch" /\ DispatchInit /\ Rest
       \/ part = "fetch" /\ NoDispatch /\ F!Init

LinksNext ==
    \/ part = "pool" /\ PoolNext /\ UNCHANGED <<dispatchVars, vars, others>>
    \/ part = "dispatch" /\ DispatchNext /\ UNCHANGED <<poolVars, vars, others>>
    \/ part = "conn" /\ Next /\ UNCHANGED <<poolVars, dispatchVars, others>>
    \/ part = "fetch" /\ F!Next /\ UNCHANGED <<poolVars, dispatchVars, vars, part>>

(* The fairness of each part, for the part that runs. *)
Pool(Act)    == part = "pool" /\ Act /\ UNCHANGED <<dispatchVars, vars, others>>
Serving(Act) == part = "dispatch" /\ Act /\ UNCHANGED <<poolVars, vars, others>>
Conn(Act)    == part = "conn" /\ Act /\ UNCHANGED <<poolVars, dispatchVars, others>>
Fetch(Act)   == part = "fetch" /\ Act /\ UNCHANGED <<poolVars, dispatchVars, vars, part>>
LinksFairness ==
    /\ WF_all(Pool(KeepaliveStep)) /\ WF_all(Pool(Escalates)) /\ SF_all(Pool(Tick))
    /\ WF_all(Pool(\E e \in up : Closes(e)))
    /\ \A c \in Callers : WF_all(Pool(Acquire(c)))
    /\ \A p \in Peers : WF_all(Serving(HandleExecute(p)))
    /\ \A c \in 1 .. MaxCalls : WF_all(Serving(Proceeds(c)))
    /\ WF_all(Serving(CancelRemaining))
    /\ \A r \in Requests : WF_all(Conn(CallerStep(r)))
    /\ WF_all(Conn(ReaderCancelled))
    /\ WF_all(Fetch(F!Consumes))
    /\ \A h \in F!Hashes : WF_all(Fetch(F!Arrive(h)))

LinksSpec == LinksInit /\ [][LinksNext]_all /\ LinksFairness

-----------------------------------------------------------------------------
(* A caller that keeps asking gets the whole blob, as long as every entity *)
(* reaches the source or a mirror that stays (content/sdk.py, chain.py).   *)
FetchEnds == <>[](part = "fetch" => x3 = "done" /\ F!Hashes \subseteq x2)
=============================================================================
