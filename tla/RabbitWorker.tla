----------------------------- MODULE RabbitWorker -----------------------------
(***************************************************************************)
(* Workers consuming a RabbitMQ work queue: the driver's ConsumeWork loop  *)
(* (internal/queue/rabbitmq/driver.go) around the handler of WorkerHandler,*)
(* with the broker's side of manual acknowledgement at prefetch 1.         *)
(***************************************************************************)
EXTENDS WorkerHandler

VARIABLES
    ready,   \* messages in the queue, deliverable
    held,    \* the delivery the broker waits for an answer on, per consumer
    buffer,  \* the delivery in the client's channel, not yet taken
    conn,    \* the consumer's connection is open
    acked,   \* messages the broker dropped on an ack
    dead     \* messages the broker dropped or dead-lettered on a nack

brokerVars == <<ready, held, buffer, conn, acked, dead>>
vars == <<baseVars, brokerVars>>

TypeOK ==
    /\ BaseTypeOK
    /\ ready \subseteq Msgs
    /\ held \in [Workers -> Msgs \cup {None}]
    /\ buffer \in [Workers -> Msgs \cup {None}]
    /\ conn \in [Workers -> BOOLEAN]
    /\ acked \subseteq Msgs
    /\ dead \subseteq Msgs

Init ==
    /\ BaseInit
    /\ ready = {}
    /\ held = [w \in Workers |-> None]
    /\ buffer = [w \in Workers |-> None]
    /\ conn = [w \in Workers |-> FALSE]
    /\ acked = {}
    /\ dead = {}

Unacked   == {held[w] : w \in Workers} \ {None}
Published == ready \cup Unacked \cup acked \cup dead
Retired   == acked \cup dead

-----------------------------------------------------------------------------
(* A producer's persistent message enters the durable queue.               *)
Publish(m) ==
    /\ m \notin Published
    /\ ready' = ready \cup {m}
    /\ UNCHANGED <<baseVars, held, buffer, conn, acked, dead>>

(* newConsumer, Qos(1) and Consume.                                        *)
Start(w) ==
    /\ Boot(w)
    /\ conn' = [conn EXCEPT ![w] = TRUE]
    /\ UNCHANGED <<ready, held, buffer, acked, dead>>

(* The broker pushes one message to a consumer that owes it no answer.     *)
Deliver(w, m) ==
    /\ conn[w] /\ held[w] = None /\ m \in ready
    /\ ready' = ready \ {m}
    /\ held' = [held EXCEPT ![w] = m]
    /\ buffer' = [buffer EXCEPT ![w] = m]
    /\ UNCHANGED <<baseVars, conn, acked, dead>>

(* The select takes the delivery; a body that does not decode is nacked    *)
(* without requeue.                                                        *)
Discard(w) ==
    /\ pc[w] = "idle" /\ buffer[w] \in Malformed
    /\ buffer' = [buffer EXCEPT ![w] = None]
    /\ held' = [held EXCEPT ![w] = None]
    /\ dead' = dead \cup ({held[w]} \ {None})
    /\ UNCHANGED <<baseVars, ready, conn, acked>>

Take(w) ==
    /\ pc[w] = "idle" /\ buffer[w] \in Msgs \ Malformed
    /\ Enter(w, buffer[w])
    /\ buffer' = [buffer EXCEPT ![w] = None]
    /\ UNCHANGED <<attempt, rejected, token, ctxDone, botxVars, disruptions,
                   sendVars, gaveUp, results, ready, held, conn, acked, dead>>

(* The handler returned.  The answer reaches the broker only over the      *)
(* connection the message came on; errors of Ack and Nack are ignored.     *)

\* MUTANT: a failed message is dropped even when the shutdown made it fail.
RequeueNever(w) == FALSE

\* MUTANT: a failed message always goes back to the queue.
RequeueAlways(w) == TRUE

Requeue(w) == ctxDone[w]

\* MUTANT: auto-acknowledgement, the handler's error is not looked at.
AcksAlways(w) == TRUE

(* Whether the broker drops the message on an ack.                         *)
Acks(w) == ReturnsNil(w)

(* What the broker waits for once it was answered.                         *)
AfterAnswer(w) == [held EXCEPT ![w] = None]

Settle(w) ==
    LET answered == {held[w]} \ {None} IN
    /\ pc[w] = "return"
    /\ \/ /\ Acks(w)
          /\ acked' = acked \cup answered
          /\ UNCHANGED <<ready, dead>>
       \/ /\ ~Acks(w) /\ Requeue(w)
          /\ ready' = ready \cup answered
          /\ UNCHANGED <<acked, dead>>
       \/ /\ ~Acks(w) /\ ~Requeue(w)
          /\ dead' = dead \cup answered
          /\ UNCHANGED <<ready, acked>>
    /\ held' = AfterAnswer(w)
    /\ Leave(w, "idle")
    /\ UNCHANGED <<token, ctxDone, botxVars, disruptions, historyVars, buffer,
                   conn>>

(* ConsumeWork returns (context done, or the delivery channel closed) and  *)
(* the process ends; closing the connection requeues what it held.  The    *)
(* client library hands a buffered delivery over before it closes the      *)
(* channel, or drops it.                                                   *)
Disconnect(w) ==
    /\ conn' = [conn EXCEPT ![w] = FALSE]
    /\ ready' = ready \cup ({held[w]} \ {None})
    /\ held' = [held EXCEPT ![w] = None]
    /\ UNCHANGED <<acked, dead>>

Stop(w) ==
    /\ pc[w] = "idle"
    /\ ctxDone[w] \/ ~conn[w]
    /\ Exit(w)
    /\ Disconnect(w)
    /\ buffer' = [buffer EXCEPT ![w] = None]
    /\ UNCHANGED <<botxVars, disruptions, historyVars>>

(* The broker or the network drops the connection; the process goes on     *)
(* with the delivery it has already received.                              *)
LoseConnection(w) ==
    /\ conn[w]
    /\ Disrupt
    /\ Disconnect(w)
    /\ UNCHANGED <<handlerVars, botxVars, historyVars, buffer>>

Crash(w) ==
    /\ pc[w] # "down"
    /\ Disrupt
    /\ Exit(w)
    /\ Disconnect(w)
    /\ buffer' = [buffer EXCEPT ![w] = None]
    /\ UNCHANGED <<botxVars, historyVars>>

Work(w) ==
    \/ HandlerStep(w) /\ UNCHANGED brokerVars
    \/ Discard(w) \/ Take(w) \/ Settle(w) \/ Stop(w)

Next ==
    \/ \E m \in Msgs : Publish(m)
    \/ \E w \in Workers, m \in Msgs : Deliver(w, m)
    \/ \E w \in Workers : Start(w) \/ Work(w) \/ LoseConnection(w) \/ Crash(w)
    \/ Environment /\ UNCHANGED brokerVars

(* A process that runs keeps running, the broker keeps delivering, and the *)
(* supervisor restarts a worker that exited (worker.go:133: "Exit with     *)
(* error so the process restarts").  A select that finds both the done     *)
(* context and a delivery takes either at random: a loop that comes back   *)
(* to it again and again stops in the end.  No fairness on failures.       *)
Fairness ==
    /\ \A w \in Workers : WF_vars(Start(w)) /\ WF_vars(Work(w))
    /\ \A w \in Workers : SF_vars(Stop(w))
    /\ \A w \in Workers : WF_vars(\E m \in Msgs : Deliver(w, m))

Spec == Init /\ [][Next]_vars
FairSpec == Spec /\ Fairness

-----------------------------------------------------------------------------
(* How the broker's, the client's and the handler's view of one delivery   *)
(* fit together.                                                           *)
DeliveryInv ==
    \A w \in Workers :
        /\ pc[w] = "down" => ~conn[w] /\ buffer[w] = None
        /\ pc[w] = "idle" /\ conn[w] => held[w] = buffer[w]
        /\ InHandler(w) => buffer[w] = None
        /\ InHandler(w) /\ conn[w] => held[w] = cur[w]
        /\ ~conn[w] => held[w] = None

(* One copy of a message: the queue and the consumers never hold the same  *)
(* one, so that the broker forgets what was answered and nothing else; and *)
(* no worker works on a message that was not published.                    *)
CustodyInv ==
    \A w \in Workers :
        /\ held[w] # None => held[w] \notin ready
        /\ \A v \in Workers : v # w /\ held[v] = held[w] => held[w] = None
        /\ buffer[w] # None => buffer[w] \in Published
        /\ InHandler(w) => cur[w] \in Published

(* What the queue forgets on an ack was accepted by BotX or declined on    *)
(* purpose: no crash, lost connection or shutdown makes a worker           *)
(* acknowledge what it has not finished (rabbitmq/driver.go:188-194).      *)
AckMeansHandled == acked \subseteq (delivered \cup declined)

(* A message is dropped (or dead-lettered) only if no handler can read it  *)
(* or a worker that was not shutting down gave it up: a shutdown costs no  *)
(* message (rabbitmq/driver.go:189, worker.go:292).                        *)
DeadMeansGivenUp == dead \subseteq (Malformed \cup gaveUp)

(* Every message published is eventually settled, through crashes, lost    *)
(* connections, shutdowns and token revocations.                           *)
EventuallySettled == \A m \in Msgs : (m \in Published) ~> (m \in Retired)

(* The queue keeps the promise of Delivery.                                *)
D == INSTANCE Delivery WITH
        Unreadable <- Malformed,
        custody    <- ready \cup Unacked,
        retired    <- Retired,
        accepted   <- delivered,
        answered   <- gaveUp \cup declined

KeepsPromise == D!Spec
=============================================================================
