------------------------------ MODULE History ------------------------------
(* The history and clock extensions (history.py, clock.py) as hooks of the *)
(* emit cascade: the clock advances and stamps the event being dispatched, *)
(* the recorder chains a transition and moves the head of the path, and    *)
(* later hooks write in turn.  Each dispatch is a frame of `stack`; a hook *)
(* that writes pushes a frame, which ends before the hook returns.         *)
EXTENDS Integers, Sequences, SequencesExt

CONSTANTS
    DataPaths, Values,
    ConfigNames,    \* names of history configs
    EventSets,      \* the event lists configs choose from
    Everything,     \* the pattern of all paths; the others are single paths
    Malformed,      \* a config entity from_dict() rejects
    Nothing,        \* no binding, no config, no clock
    RefuseDepth,    \* SYSTEM_REFUSE_DEPTH
    MaxWall, MaxWrites, MaxConfigs   \* bounds; the wall clock may step back

VARIABLES
    bound,          \* what the tree binds each path to
    config,         \* the history configs bound in the tree
    index,          \* _ConfigIndex, in insertion order
    chain,          \* the transitions of each path, oldest first
    mode, clock,    \* system/clock/config and the stored clocks
    stack,          \* the dispatches under way
    covered,        \* paths whose last change was to be recorded
    writes, edits

historyVars == <<bound, config, index, chain, mode, clock, stack, covered, writes, edits>>

Modes   == {"wall", "logical", "hlc"}
Configs == [pattern : DataPaths \cup {Everything}, enabled : BOOLEAN,
            events : EventSets]
Quiet   == stack = << >>
Kind(previous, h) == CASE h = Nothing        -> "deleted"
                       [] previous = Nothing -> "created"
                       [] OTHER              -> "updated"

(* One frame per event: its clock is the context field of the dispatch, at *)
(* is the next hook, and a head frame is the write of a head pointer.      *)
Frame(p, head, previous, h) ==
    [path |-> p, head |-> head, previous |-> previous, hash |-> h,
     clock |-> Nothing, at |-> 1]

(***************************************************************************)
(* The config index                                                        *)
(***************************************************************************)
Updated(ix, n, c) ==
    CASE c = Nothing -> SelectSeq(ix, LAMBDA e : e.name # n)
      [] c = Malformed -> ix
      [] \E i \in DOMAIN ix : ix[i].name = n ->
           [i \in DOMAIN ix |-> IF ix[i].name = n THEN [name |-> n, cfg |-> c]
                                                 ELSE ix[i]]
      [] OTHER -> Append(ix, [name |-> n, cfg |-> c])

(* _load_existing_configs() lists the configs in the order of their names. *)
Loaded(cfgs) ==
    FoldLeft(LAMBDA ix, n : Updated(ix, n, cfgs[n]), << >>,
             SetToSortSeq(ConfigNames, <))

Literal(c) == IF c.pattern = Everything THEN 0 ELSE 1

(* The most specific enabled config, the first inserted among equals. *)
FindConfig(p) ==
    LET fits == {i \in DOMAIN index : /\ index[i].cfg.enabled
                                      /\ index[i].cfg.pattern \in {p, Everything}}
    IN  IF fits = {} THEN Nothing
        ELSE index[CHOOSE i \in fits :
                 \A j \in fits : \/ Literal(index[i].cfg) > Literal(index[j].cfg)
                                 \/ /\ Literal(index[i].cfg) = Literal(index[j].cfg)
                                    /\ i <= j].cfg

Records(f) ==
    LET c == FindConfig(f.path)
    IN  /\ ~f.head
        /\ c # Nothing
        /\ Kind(f.previous, f.hash) \in c.events

(***************************************************************************)
(* The clocks                                                              *)
(***************************************************************************)

(* advance_clock(): the counter in every mode but wall, the hybrid clock   *)
(* only in its own mode, never behind the wall clock or itself.            *)
Tick(c, m, wall) ==
    [logical |-> IF m = "wall" THEN c.logical ELSE c.logical + 1,
     hlc     |-> IF m # "hlc" THEN c.hlc
                 ELSE IF wall > c.hlc[1] THEN <<wall, 0>>
                                         ELSE <<c.hlc[1], c.hlc[2] + 1>>]

(* What advance_clock() returns, with the clocks the mode has. *)
Stamp(c, m, wall) ==
    CASE m = "wall"    -> [timestamp |-> wall]
      [] m = "logical" -> [timestamp |-> wall, logical |-> c.logical]
      [] m = "hlc"     -> [timestamp |-> wall, logical |-> c.logical,
                           hlc |-> c.hlc]

HlcBefore(a, b) == \/ a[1] < b[1]
                   \/ /\ a[1] = b[1]
                      /\ a[2] < b[2]

HistoryInit ==
    /\ bound = [p \in DataPaths |-> Nothing]
    /\ config \in [ConfigNames -> Configs \cup {Nothing, Malformed}]
    /\ index = Loaded(config)
    /\ chain = [p \in DataPaths |-> << >>]
    /\ mode \in Modes
    /\ clock = [logical |-> 0, hlc |-> <<0, 0>>]
    /\ stack = << >>
    /\ covered = {}
    /\ writes = 0
    /\ edits = 0

(***************************************************************************)
(* Writes                                                                  *)
(***************************************************************************)
(* emit() and delete() of a data path, at the top level or by a later hook *)
(* of the event being dispatched.  emit() refuses at the depth limit and   *)
(* stays silent when the binding does not change.  below is the rest of    *)
(* the stack once the caller's frame has moved on.                         *)
Commit(p, h, below) ==
    LET f == Frame(p, FALSE, bound[p], h)
    IN  IF bound[p] = h \/ (h # Nothing /\ Len(below) >= RefuseDepth)
        THEN stack' = below /\ UNCHANGED <<bound, covered>>
        ELSE /\ bound' = [bound EXCEPT ![p] = h]
             /\ stack' = Append(below, f)
             /\ covered' = IF Records(f) /\ Len(below) + 1 < RefuseDepth
                           THEN covered \cup {p} ELSE covered \ {p}

Put(p, h) ==
    /\ Quiet
    /\ writes < MaxWrites
    /\ Commit(p, h, stack)
    /\ writes' = writes + 1
    /\ UNCHANGED <<config, index, chain, mode, clock, edits>>

(* rollback binds a value the history of the path names, if it has one. *)
InHistory(p) ==
    {chain[p][i].hash : i \in DOMAIN chain[p]}
    \cup {chain[p][i].previous : i \in DOMAIN chain[p]}

Rollback(p, h) ==
    /\ Quiet
    /\ writes < MaxWrites
    /\ h \in InHistory(p) \ {Nothing}
    /\ Commit(p, h, stack)
    /\ writes' = writes + 1
    /\ UNCHANGED <<config, index, chain, mode, clock, edits>>

(***************************************************************************)
(* The hooks of the event on top of the stack                              *)
(***************************************************************************)
(* The order of registration: clock, recorder, and the hooks behind them. *)
Hooks == <<"clock", "history", "later">>

Top == Last(stack)
Turn(hook) == stack # << >> /\ Top.at <= Len(Hooks) /\ Hooks[Top.at] = hook
Passed == [stack EXCEPT ![Len(stack)].at = @ + 1]

(* _ClockAdvancementHook: the field belongs to this dispatch alone. *)
ClockHook(wall) ==
    /\ Turn("clock")
    /\ clock' = Tick(clock, mode, wall)
    /\ stack' = [Passed EXCEPT ![Len(stack)].clock = Stamp(clock', mode, wall)]
    /\ UNCHANGED <<bound, config, index, chain, mode, covered, writes, edits>>

(* Mutant: the limit is reached one level early. *)
MayEmitMutant == Len(stack) + 1 < RefuseDepth

(* The write of a transition is refused at the depth limit. *)
MayEmit == Len(stack) < RefuseDepth

(* _TransitionRecorder: the new head names the old one, and its write is   *)
(* an event of its own unless the cascade is too deep for it.              *)
Transition(f) ==
    [event |-> Kind(f.previous, f.hash), hash |-> f.hash,
     previous |-> f.previous, clock |-> f.clock]

Recorder ==
    /\ Turn("history")
    /\ IF Records(Top) /\ MayEmit
       THEN /\ chain' = [chain EXCEPT ![Top.path] = Append(@, Transition(Top))]
            /\ stack' = Append(Passed, Frame(Top.path, TRUE, Nothing, Nothing))
       ELSE stack' = Passed /\ UNCHANGED chain
    /\ UNCHANGED <<bound, config, index, mode, clock, covered, writes, edits>>

(* A later hook reacts to the event, or does not; the dispatch then ends. *)
LaterWrites(p, h) ==
    /\ Turn("later")
    /\ ~Top.head
    /\ writes < MaxWrites
    /\ Commit(p, h, Passed)
    /\ writes' = writes + 1
    /\ UNCHANGED <<config, index, chain, mode, clock, edits>>
LaterIdle ==
    /\ Turn("later")
    /\ stack' = Passed
    /\ UNCHANGED <<bound, config, index, chain, mode, clock, covered, writes, edits>>
Return ==
    /\ stack # << >>
    /\ Top.at > Len(Hooks)
    /\ stack' = Front(stack)
    /\ UNCHANGED <<bound, config, index, chain, mode, clock, covered, writes, edits>>

(***************************************************************************)
(* Configuration and time                                                  *)
(***************************************************************************)
(* A config write or delete, with the watcher it triggers. *)
PutConfig(n, c, wall) ==
    /\ Quiet
    /\ edits < MaxConfigs
    /\ c # config[n]
    /\ config' = [config EXCEPT ![n] = c]
    /\ index' = Updated(index, n, c)
    /\ clock' = Tick(clock, mode, wall)
    /\ edits' = edits + 1
    /\ UNCHANGED <<bound, chain, mode, stack, covered, writes>>

(* The write of the clock's own config advances the clock in the new mode. *)
SetMode(m, wall) ==
    /\ Quiet
    /\ edits < MaxConfigs
    /\ m # mode
    /\ mode' = m
    /\ clock' = Tick(clock, m, wall)
    /\ edits' = edits + 1
    /\ UNCHANGED <<bound, config, index, chain, stack, covered, writes>>

HistoryNext ==
    \/ \E p \in DataPaths, h \in Values \cup {Nothing} : Put(p, h)
    \/ \E p \in DataPaths, h \in Values : Rollback(p, h)
    \/ \E t \in 0..MaxWall : ClockHook(t)
    \/ Recorder
    \/ \E p \in DataPaths, h \in Values \cup {Nothing} : LaterWrites(p, h)
    \/ LaterIdle
    \/ Return
    \/ \E n \in ConfigNames, c \in Configs \cup {Nothing, Malformed}, t \in 0..MaxWall :
          PutConfig(n, c, t)
    \/ \E m \in Modes, t \in 0..MaxWall : SetMode(m, t)

HistorySpec == HistoryInit /\ [][HistoryNext]_historyVars

(***************************************************************************)
(* Properties                                                              *)
(***************************************************************************)
(* The newest transition of a path tells what the tree binds there when    *)
(* the cascade is over, although hooks behind the recorder write the same  *)
(* path again while the first write is still being dispatched              *)
(* (_TransitionRecorder).                                                  *)
HeadIsBinding ==
    Quiet => \A p \in covered : /\ chain[p] # << >>
                                /\ Last(chain[p]).hash = bound[p]

=============================================================================
