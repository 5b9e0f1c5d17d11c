----------------------------- MODULE LocalFiles -----------------------------
(***************************************************************************)
(* A file of a writable root mapping and the tree path it is mapped to     *)
(* (entity_handlers/local_files).  Operations of the local/files handler   *)
(* move bytes from the disk to the tree and back; every change of the tree *)
(* path is reversed onto the disk by a listener task that hands the work   *)
(* to an executor thread, so handlers, threads and other programs of the   *)
(* machine interleave at the file.                                         *)
(*                                                                         *)
(* Contents stand for blobs and for the bytes they chunk to.  Chunking,    *)
(* names, symlinks and path resolution are left out; failing system calls  *)
(* too, except for a file that is not there.                               *)
(***************************************************************************)
EXTENDS Integers, FiniteSets

CONSTANTS Contents,
          SizeOf(_),         \* bytes of a content
          EchoWindow,        \* _RECENT_WRITE_WINDOW_SECONDS
          Spaced,            \* TRUE: changes of the tree path come one at a time,
                             \* each later than the window of the one before
          Races,             \* TRUE: other programs may touch the file between a
                             \* file access of the peer and the stat that follows
          MaxOps, MaxTime, Absent

Deleted == "deleted"

VARIABLES file,      \* Absent, or [content, mtime]
          bound,     \* content of the file entity at the tree path, or Absent
          blobs,     \* contents whose blob and chunks are in the content store
          statCache, \* the stat cache's entry: Absent or [mtime, size, hash, at]
          marked,    \* RecentWriteTracker: time of the path's last mark, or Absent
          jobs,      \* reverse-write jobs: [id, what, stage, st]
          held,      \* the content a handler has between its file access and the rest
          touched,   \* another program changed the file since the tree last moved
          missed,    \* the last change was dropped for want of its blob
          ops, time

filesVars == <<file, bound, blobs, statCache, marked, jobs, held, touched, missed, ops, time>>

---------------------------------------------------------------------------
(* The stat cache *)

StatKey(f) == [mtime |-> f.mtime, size |-> SizeOf(f.content)]

\* The racy-clean rule: a file changed no earlier than the entry was written
\* may have been changed after it.
Racy(mtime, at) == mtime >= at

\* A racy entry is stored with size 0.
Smudged(key, hash) ==
    [mtime |-> key.mtime, size |-> IF Racy(key.mtime, time) THEN 0 ELSE key.size,
     hash |-> hash, at |-> time]

CachedHash(f) ==
    IF /\ statCache # Absent
       /\ StatKey(f) = [mtime |-> statCache.mtime, size |-> statCache.size]
       /\ ~Racy(f.mtime, statCache.at)
    THEN statCache.hash ELSE Absent

IsRecentlyWritten == marked # Absent /\ time - marked <= EchoWindow

---------------------------------------------------------------------------
(* What stands for no file, no entry and a deleted path is none of the     *)
(* contents, and no file.                                                  *)
FilesAssumption ==
    /\ EchoWindow \in Nat /\ MaxTime \in Nat
    /\ Absent \notin Contents /\ Deleted \notin Contents /\ Deleted # Absent
    /\ Absent \notin [content : Contents, mtime : 0 .. MaxTime]

FilesInit ==
    /\ file \in {Absent} \cup {[content |-> c, mtime |-> 0] : c \in Contents}
    /\ bound = Absent /\ blobs = {} /\ statCache = Absent /\ marked = Absent
    /\ jobs = {} /\ held = Absent /\ touched = FALSE /\ missed = FALSE
    /\ ops = 0 /\ time = 0

Counted == ops < MaxOps /\ ops' = ops + 1

\* emit or delete at the tree path schedules the listener if the binding
\* changed; a file entity of the same content may differ in its stamps.
TreeMoves(what, new) ==
    /\ bound' = new
    /\ \/ jobs' = jobs \cup {[id |-> <<ops, held>>, what |-> what, stage |-> "task", st |-> Absent]}
       \/ bound = new /\ jobs' = jobs

Quiet == jobs = {} /\ held = Absent

\* The event loop is free: handlers run without a suspension point.
LoopFree == held = Absent

---------------------------------------------------------------------------
(* Changes of the tree path by anyone else: put, merge, sync, delete *)

TreePut(c) ==
    /\ LoopFree /\ Counted
    /\ Spaced => Quiet /\ ~IsRecentlyWritten
    /\ bound # c
    /\ TreeMoves(c, c)
    /\ touched' = FALSE /\ missed' = FALSE
    /\ UNCHANGED <<file, blobs, statCache, marked, held, time>>

TreeDelete ==
    /\ LoopFree /\ Counted
    /\ Spaced => Quiet /\ ~IsRecentlyWritten
    /\ bound # Absent
    /\ TreeMoves(Deleted, Absent)
    /\ touched' = FALSE /\ missed' = FALSE
    /\ UNCHANGED <<file, blobs, statCache, marked, held, time>>

BlobArrives(c) ==
    /\ c \notin blobs
    /\ blobs' = blobs \cup {c}
    /\ UNCHANGED <<file, bound, statCache, marked, jobs, held, touched, missed, ops, time>>

---------------------------------------------------------------------------
(* local/files handler operations *)

\* Reads and chunks the bytes.
HandleRead ==
    /\ LoopFree /\ Counted
    /\ Spaced => Quiet
    /\ file # Absent
    /\ blobs' = blobs \cup {file.content}
    /\ held' = file.content
    /\ touched' = FALSE /\ missed' = FALSE
    /\ UNCHANGED <<file, bound, statCache, marked, jobs, time>>

\* Writes the file, by a temporary one and a rename.
HandleWrite(c) ==
    /\ LoopFree /\ Counted
    /\ Spaced => Quiet
    /\ blobs' = blobs \cup {c}
    /\ file' = [content |-> c, mtime |-> time]
    /\ held' = c
    /\ touched' = FALSE /\ missed' = FALSE
    /\ UNCHANGED <<bound, statCache, marked, jobs, time>>

\* Both go on with a stat of the file, the cache entry, the mark and the emit.
\* A file gone meanwhile makes the stat raise: nothing is emitted.
FinishOp ==
    /\ held # Absent
    /\ held' = Absent
    /\ IF file = Absent
       THEN UNCHANGED <<statCache, marked, bound, jobs>>
       ELSE /\ statCache' = Smudged(StatKey(file), held)
            /\ marked' = time
            /\ TreeMoves(held, held)
    /\ UNCHANGED <<file, blobs, touched, missed, ops, time>>

\* delete unbinds the path without an event.
HandleDelete ==
    /\ LoopFree /\ Counted
    /\ Spaced => Quiet
    /\ file' = Absent /\ statCache' = Absent /\ marked' = time /\ bound' = Absent
    /\ touched' = FALSE /\ missed' = FALSE
    /\ UNCHANGED <<blobs, jobs, held, time>>

---------------------------------------------------------------------------
(* The reverse write *)

Drop(j) == jobs' = jobs \ {j}
Goto(j, stage, st) == jobs' = (jobs \ {j}) \cup {[j EXCEPT !.stage = stage, !.st = st]}

\* The listener task filters on the loop and hands over to the executor.
ListenerRuns(j) ==
    /\ LoopFree
    /\ j.stage = "task"
    /\ IF IsRecentlyWritten THEN Drop(j) ELSE Goto(j, "thread", Absent)
    /\ UNCHANGED <<file, bound, blobs, statCache, marked, held, touched, missed, ops, time>>

ReverseDelete(j) ==
    /\ j.stage = "thread" /\ j.what = Deleted
    /\ IF IsRecentlyWritten \/ file = Absent
       THEN UNCHANGED <<file, statCache>>
       ELSE file' = Absent /\ statCache' = Absent
    /\ Drop(j)
    /\ UNCHANGED <<bound, blobs, marked, held, touched, missed, ops, time>>

\* Where the circuit breaker takes a job: the file is compared with the blob
\* through the cache if it has an entry, else by reading it.
NextStageMutant(j) ==
    IF file = Absent THEN "write"
    ELSE IF CachedHash(file) = Absent THEN "read" ELSE "done"
NextStage(j) ==
    IF file = Absent THEN "write"
    ELSE IF CachedHash(file) = Absent THEN "read"
    ELSE IF CachedHash(file) = j.what THEN "done" ELSE "write"

ReverseCheck(j) ==
    /\ j.stage = "thread" /\ j.what # Deleted
    /\ IF IsRecentlyWritten THEN Drop(j) /\ UNCHANGED missed
       ELSE IF j.what \notin blobs THEN Drop(j) /\ missed' = TRUE
       ELSE /\ IF NextStage(j) = "done" THEN Drop(j)
               ELSE Goto(j, NextStage(j), IF file = Absent THEN Absent ELSE StatKey(file))
            /\ UNCHANGED missed
    /\ UNCHANGED <<file, bound, blobs, statCache, marked, held, touched, ops, time>>

\* The entry is stored with the stat taken before the read.
ReverseCompare(j) ==
    /\ j.stage = "read"
    /\ IF file = Absent
       THEN Goto(j, "write", Absent) /\ UNCHANGED statCache
       ELSE /\ statCache' = Smudged(j.st, file.content)
            /\ IF file.content = j.what THEN Drop(j) ELSE Goto(j, "write", Absent)
    /\ UNCHANGED <<file, bound, blobs, marked, held, touched, missed, ops, time>>

ReverseWrite(j) ==
    /\ j.stage = "write"
    /\ marked' = time
    /\ file' = [content |-> j.what, mtime |-> time]
    /\ Goto(j, "cache", Absent)
    /\ UNCHANGED <<bound, blobs, statCache, held, touched, missed, ops, time>>

ReverseCache(j) ==
    /\ j.stage = "cache"
    /\ statCache' = IF file = Absent THEN statCache ELSE Smudged(StatKey(file), j.what)
    /\ Drop(j)
    /\ UNCHANGED <<file, bound, blobs, marked, held, touched, missed, ops, time>>

---------------------------------------------------------------------------
(* Other programs, and time *)

BetweenAccessAndStat == held # Absent \/ \E j \in jobs : j.stage \in {"read", "cache"}

External ==
    /\ Counted
    /\ Races \/ ~BetweenAccessAndStat
    /\ file' \in ({Absent} \cup {[content |-> c, mtime |-> time] : c \in Contents}) \ {file}
    /\ touched' = TRUE
    /\ UNCHANGED <<bound, blobs, statCache, marked, jobs, held, missed, time>>

TimePasses ==
    /\ time < MaxTime
    /\ time' = time + 1
    /\ UNCHANGED <<file, bound, blobs, statCache, marked, jobs, held, touched, missed, ops>>

FilesNext ==
    \/ \E c \in Contents : TreePut(c) \/ HandleWrite(c) \/ BlobArrives(c)
    \/ TreeDelete \/ HandleRead \/ HandleDelete \/ FinishOp
    \/ \E j \in jobs : \/ ListenerRuns(j) \/ ReverseDelete(j) \/ ReverseCheck(j)
                       \/ ReverseCompare(j) \/ ReverseWrite(j) \/ ReverseCache(j)
    \/ External \/ TimePasses

FilesSpec == FilesInit /\ [][FilesNext]_filesVars

---------------------------------------------------------------------------
(* Properties *)

(***************************************************************************)
(* The reverse write makes sync produce files: once every job has run, the *)
(* file holds what the tree path is bound to (and is gone if it is not     *)
(* bound), unless another program touched it since the path last changed   *)
(* or the change was dropped because its blob had not arrived.             *)
(***************************************************************************)
FileFollowsTree ==
    Quiet /\ ~touched /\ ~missed /\ (bound # Absent \/ marked # Absent) =>
        (IF file = Absent THEN Absent ELSE file.content) = bound

============================================================================
