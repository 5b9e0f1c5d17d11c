------------------------------- MODULE Calls -------------------------------
(***************************************************************************)
(* What a connection promises to those who call execute() on it, without   *)
(* the tasks, the lock and the futures that module Connection has: every   *)
(* call has one outcome, a request is sent at most once and never on a     *)
(* closed connection, a result is the answer to the call's own request,    *)
(* and a call fails only where the connection itself has come to an end,   *)
(* never because of what became of another call.                           *)
(***************************************************************************)
CONSTANT Requests

VARIABLES
    call,    \* request -> where its call is
    asked,   \* the requests that were sent
    closed,  \* the connection was closed, by either side
    broken   \* the transport or a frame failed

vars == <<call, asked, closed, broken>>

Open     == {"open", "answered", "expired", "lost"}

Ended == closed \/ broken

Init ==
    /\ call = [r \in Requests |-> "new"]
    /\ asked = {}
    /\ closed = FALSE /\ broken = FALSE

Move(r, from, to) ==
    /\ call[r] \in from
    /\ call' = [call EXCEPT ![r] = to]
    /\ UNCHANGED <<asked, closed, broken>>

Begin(r) == Move(r, {"new"}, "open")

Send(r) ==
    /\ call[r] \in {"open", "lost"}
    /\ r \notin asked /\ ~closed
    /\ asked' = asked \cup {r}
    /\ UNCHANGED <<call, closed, broken>>

Answer(r) == r \in asked /\ Move(r, {"open"}, "answered")

Expire(r) == Move(r, {"open"}, "expired")

(* The connection comes to an end, at once for the calls in progress or    *)
(* before they notice.                                                     *)
End ==
    /\ closed' \in {closed, TRUE} /\ broken' \in {broken, TRUE}
    /\ closed' \/ broken'
    /\ \/ UNCHANGED call
       \/ call' = [r \in Requests |-> IF call[r] = "open" THEN "lost" ELSE call[r]]
    /\ UNCHANGED asked

Return(r) ==
    \/ Move(r, {"answered"}, "ok")
    \/ Move(r, {"expired"}, "timeout")
    \/ Ended /\ Move(r, {"open", "answered", "lost"}, "failed")
    \/ Move(r, Open, "cancelled")

Next ==
    \/ \E r \in Requests : Begin(r) \/ Send(r) \/ Answer(r) \/ Expire(r) \/ Return(r)
    \/ End

Spec == Init /\ [][Next]_vars
=============================================================================
