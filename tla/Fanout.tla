-------------------------------- MODULE Fanout --------------------------------
(***************************************************************************)
(* What the HTTP server promises of a send request, synchronous or not     *)
(* (internal/server/multisend.go, auth.go): it is refused before any       *)
(* target is tried, or every target is tried once on its own and the       *)
(* answer sums up the outcomes.  A message may get out although its        *)
(* delivery is reported as failed, and the other way round, but never for  *)
(* a target that was denied.                                               *)
(***************************************************************************)
CONSTANTS
    Requests,
    TargetsOf     \* [Requests -> sets of chats]: what parseChatIDs returns

VARIABLES
    outcome,      \* of each request for each of its targets
    answer,       \* the response to each request
    reached       \* the targets of each request a message got out for

vars == <<outcome, answer, reached>>

Outcome == {"pending", "sent", "failed", "denied"}
Answer  == {"none", "accepted", "forbidden", "invalid", "failed"}

Init ==
    /\ outcome = [r \in Requests |-> [t \in TargetsOf[r] |-> "pending"]]
    /\ answer = [r \in Requests |-> "none"]
    /\ reached = [r \in Requests |-> {}]

Untried(r) == {t \in TargetsOf[r] : outcome[r][t] = "pending"}
With(r, o) == {t \in TargetsOf[r] : outcome[r][t] = o}

Reject(r) ==
    /\ answer[r] = "none"
    /\ Untried(r) = TargetsOf[r]
    /\ \E a \in {"forbidden", "invalid"} : answer' = [answer EXCEPT ![r] = a]
    /\ UNCHANGED <<outcome, reached>>

Deliver(r, t) ==
    /\ answer[r] = "none"
    /\ t \in Untried(r)
    /\ \E o \in {"sent", "failed"} : outcome' = [outcome EXCEPT ![r][t] = o]
    /\ \E S \in {{}, {t}} : reached' = [reached EXCEPT ![r] = @ \cup S]
    /\ UNCHANGED answer

Deny(r, t) ==
    /\ answer[r] = "none"
    /\ t \in Untried(r)
    /\ outcome' = [outcome EXCEPT ![r][t] = "denied"]
    /\ UNCHANGED <<answer, reached>>

(* At least one success is a success; nothing but denials is a denial.     *)
SumUp(r) ==
    IF With(r, "sent") # {} THEN "accepted"
    ELSE IF With(r, "denied") = TargetsOf[r] THEN "forbidden" ELSE "failed"

Respond(r) ==
    /\ answer[r] = "none"
    /\ Untried(r) = {}
    /\ answer' = [answer EXCEPT ![r] = SumUp(r)]
    /\ UNCHANGED <<outcome, reached>>

Next ==
    \E r \in Requests :
        \/ Reject(r)
        \/ \E t \in TargetsOf[r] : Deliver(r, t) \/ Deny(r, t)
        \/ Respond(r)

Spec == Init /\ [][Next]_vars
=============================================================================
