--------------------------- MODULE MCEmitPathway ---------------------------
(* The emit pathway and the subscriptions fed by its Phase 2, for TLC.     *)
(* They share no state but the tasks that Phase 2 creates, which the       *)
(* subscriptions take as their input in the order EmitPathway gives them,  *)
(* so a run takes one of the two, `part`, and the other stands still.      *)
EXTENDS EmitPathway, Subscription, TLC

CONSTANTS a, b, c, h1, h2

VARIABLE part

all == <<vars, subscriptionVars, part>>

(* The order of the standard peer: the role watcher (writes of a sweep b), *)
(* the index manager, the clock, the history recorder (writes of a and b   *)
(* move c).                                                                *)
StdMatching ==
    a :> <<"role", "index", "clock", "history">> @@
    b :> <<"index", "clock", "history">> @@
    c :> <<"index", "clock">>
StdWrites ==
    "role" :> {b} @@ "index" :> {} @@ "clock" :> {} @@ "history" :> {c}
StdSubscribers == [p \in {a, b, c} |-> <<1>>]

ASSUME IndexUndisturbed

-----------------------------------------------------------------------------
PathwayInit == Init /\ SubscriptionInit /\ part \in {"emit", "subscription"}

PathwayNext ==
    \/ part = "emit" /\ Next /\ UNCHANGED <<subscriptionVars, part>>
    \/ part = "subscription" /\ SubscriptionNext /\ UNCHANGED <<vars, part>>

(* The fairness of SubscriptionFairness, for the part it speaks of. *)
Delivering(A) == part = "subscription" /\ A /\ UNCHANGED <<vars, part>>

PathwayFairness ==
    /\ WF_all(Delivering(FanOut))
    /\ \A i \in Ids : /\ WF_all(Delivering(WorkerStep(i)))
                      /\ WF_all(Delivering(\E n \in 1..Inflight : DeliveryStarts(i, n)))
                      /\ WF_all(Delivering(\E n \in 1..Inflight : DeliveryEnds(i, n)))

PathwaySpec == PathwayInit /\ [][PathwayNext]_all /\ PathwayFairness
=============================================================================
