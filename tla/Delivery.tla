------------------------------- MODULE Delivery -------------------------------
(***************************************************************************)
(* What the asynchronous path promises a producer, whichever broker is     *)
(* used: a published message stays in the broker's custody until BotX      *)
(* accepted it or a worker decided not to send it.  Workers may deal with  *)
(* a message more than once, and with one the broker has already let go.   *)
(***************************************************************************)
CONSTANTS Msgs, Unreadable

VARIABLES
    custody,   \* published and still owed by the broker
    retired,   \* published and forgotten by the broker
    accepted,  \* accepted by the BotX API
    answered   \* given up or declined by a worker

vars == <<custody, retired, accepted, answered>>

Init ==
    /\ custody = {}
    /\ retired = {}
    /\ accepted = {}
    /\ answered = {}

Known   == custody \cup retired
Settled == accepted \cup answered \cup Unreadable

Submit(m) ==
    /\ m \in Msgs \ Known
    /\ custody' = custody \cup {m}
    /\ UNCHANGED <<retired, accepted, answered>>

Accept(m) ==
    /\ m \in Known \ Unreadable
    /\ accepted' = accepted \cup {m}
    /\ UNCHANGED <<custody, retired, answered>>

Answer(m) ==
    /\ m \in Known \ Unreadable
    /\ answered' = answered \cup {m}
    /\ UNCHANGED <<custody, retired, accepted>>

(* An unanswered call both reaches BotX and is the worker's last try.      *)
AcceptAndAnswer(m) ==
    /\ m \in Known \ Unreadable
    /\ accepted' = accepted \cup {m}
    /\ answered' = answered \cup {m}
    /\ UNCHANGED <<custody, retired>>

Retire(S) ==
    /\ S \subseteq custody \cap Settled
    /\ custody' = custody \ S
    /\ retired' = retired \cup S
    /\ UNCHANGED <<accepted, answered>>

(* A broker that keeps a log may be told to go back in it.                 *)
Reclaim(S) ==
    /\ S \subseteq retired
    /\ custody' = custody \cup S
    /\ retired' = retired \ S
    /\ UNCHANGED <<accepted, answered>>

Next ==
    \/ \E m \in Msgs : \/ Submit(m)
                       \/ Accept(m)
                       \/ Answer(m)
                       \/ AcceptAndAnswer(m)
    \/ \E S \in SUBSET Msgs : Retire(S) \/ Reclaim(S)

Spec == Init /\ [][Next]_vars
=============================================================================
