------------------------------ MODULE Handlers ------------------------------
(***************************************************************************)
(* The requests of a serverless function, shared by the modules below it:   *)
(* each is a handler at one of its awaits, with the values it has read.     *)
(* Handlers interleave at these points, and one may be killed at any.       *)
(***************************************************************************)
CONSTANTS
    Requests,
    Scenarios    \* sets of endpoints; in a behaviour clients call those of one set

VARIABLES
    req,         \* the step each request is at and what it carries
    overlapped,  \* history: two requests have been in flight at once
    calls        \* the endpoints that are called

Idle == [at |-> "idle"]

At(r, step) == req[r].at = step

InFlight == {r \in Requests : ~At(r, "idle")}

HandlersInit ==
    /\ req = [r \in Requests |-> Idle]
    /\ overlapped = FALSE
    /\ calls \in Scenarios

Others(r) == InFlight \ {r}

(* The request goes on to its next step, with what it carries from there. *)
Goto(r, frame) ==
    /\ req' = [req EXCEPT ![r] = frame]
    /\ overlapped' = (overlapped \/ (frame # Idle /\ Others(r) # {}))
    /\ UNCHANGED calls

Continue(r, step) == Goto(r, [req[r] EXCEPT !.at = step])

(* A call arrives, with its arguments and the step it begins with. *)
Begin(r, call, frame) == call \in calls /\ At(r, "idle") /\ Goto(r, frame)

(* It returns or throws. *)
End(r) == Goto(r, Idle)

(* It is killed between two of its statements. *)
Abort(r) == ~At(r, "idle") /\ End(r)

(* A call whose only effect is one statement. *)
Instant(call) ==
    /\ call \in calls
    /\ overlapped' = (overlapped \/ InFlight # {})
    /\ UNCHANGED <<req, calls>>

handlerVars == <<req, overlapped, calls>>

=============================================================================
