------------------------------ MODULE ScpService ------------------------------
(***************************************************************************)
(* What the sending half of the SCP link promises to the callers of Send,  *)
(* without retries, a timer, sequence numbers or a serial line.  Frames    *)
(* get one verdict each, in the order of submission: SUCCESS only if the   *)
(* radio has accepted the frame, or TIMEOUT.  When the link is closed,     *)
(* whatever is pending is BROKEN.  Once two submissions have collided the  *)
(* order still holds, but SUCCESS may be meant for another frame.          *)
(***************************************************************************)
EXTENDS Integers, Sequences

CONSTANT MaxFrames   \* bound: frames submitted

VARIABLES
    result,    \* per frame: "none" before submission, then "pending", then a verdict
    pending,   \* frames without a verdict, in the order of submission
    accepted,  \* frames that the radio has accepted
    confused   \* two submissions have collided

vars == <<result, pending, accepted, confused>>

Ids == 0 .. MaxFrames - 1

Init ==
    /\ result = [f \in Ids |-> "none"]
    /\ pending = <<>> /\ accepted = {} /\ confused = FALSE

Submit(f) ==
    /\ result[f] = "none"
    /\ result' = [result EXCEPT ![f] = "pending"]
    /\ pending' = Append(pending, f)
    /\ UNCHANGED <<accepted, confused>>

Collide == confused' = TRUE /\ UNCHANGED <<result, pending, accepted>>

\* The radio may also accept a late copy of a frame given up before.
Accept(f) ==
    /\ result[f] # "none"
    /\ accepted' = accepted \cup {f}
    /\ UNCHANGED <<result, pending, confused>>

\* A verdict on the frame whose turn it is.
Resolve(verdict) ==
    /\ pending # <<>>
    /\ verdict = "SUCCESS" => Head(pending) \in accepted \/ confused
    /\ result' = [result EXCEPT ![Head(pending)] = verdict]
    /\ pending' = Tail(pending)
    /\ UNCHANGED <<accepted, confused>>

Close ==
    /\ result' = [f \in Ids |-> IF result[f] = "pending" THEN "BROKEN" ELSE result[f]]
    /\ pending' = <<>>
    /\ UNCHANGED <<accepted, confused>>

Next ==
    \/ \E f \in Ids : Submit(f) \/ Accept(f)
    \/ \E verdict \in {"SUCCESS", "TIMEOUT"} : Resolve(verdict)
    \/ Collide \/ Close

Spec == Init /\ [][Next]_vars
=============================================================================
