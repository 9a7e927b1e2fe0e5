----------------------------- MODULE KafkaWorker -----------------------------
(***************************************************************************)
(* Workers consuming a Kafka work topic as one consumer group: the         *)
(* driver's ConsumeWork loop (internal/queue/kafka/driver.go) around the   *)
(* handler of WorkerHandler.  ensureTopics creates the topic with one      *)
(* partition; a topic with more is a set of independent logs like this one.*)
(*                                                                         *)
(* The reader library is modelled as the driver uses it: the owner of the  *)
(* partition fetches in order from the offset committed when it was given  *)
(* the partition, and a commit sets the group's offset to the one after    *)
(* the message, whoever owns the partition by then.                        *)
(***************************************************************************)
EXTENDS WorkerHandler, Sequences

VARIABLES
    log,        \* the partition: messages in the order of their offsets
    committed,  \* the group's offset: messages log[1..committed] are done
    owner,      \* the worker the partition is assigned to, or None
    pos,        \* how far the owner's reader has fetched
    offset      \* the place in the log of the message in each handler

kafkaVars == <<log, committed, owner, pos, offset>>
vars == <<baseVars, kafkaVars>>

TypeOK ==
    /\ BaseTypeOK
    /\ log \in Seq(Msgs)
    /\ committed \in 0..Len(log)
    /\ owner \in Workers \cup {None}
    /\ pos \in 0..Len(log)
    /\ offset \in [Workers -> 0..Len(log)]

Init ==
    /\ BaseInit
    /\ log = <<>>
    /\ committed = 0
    /\ owner = None
    /\ pos = 0
    /\ offset = [w \in Workers |-> 0]

Logged == {log[i] : i \in 1..Len(log)}
Before(k) == {log[i] : i \in 1..k}

-----------------------------------------------------------------------------
Publish(m) ==
    /\ m \notin Logged
    /\ log' = Append(log, m)
    /\ UNCHANGED <<baseVars, committed, owner, pos, offset>>

(* The producer's writer makes up to three attempts: when the broker's     *)
(* answer to one was lost, the message is in the log twice.                *)
Republish(m) ==
    /\ m \in Logged
    /\ Disrupt
    /\ log' = Append(log, m)
    /\ UNCHANGED <<handlerVars, botxVars, historyVars, committed, owner, pos,
                   offset>>

(* NewReader joins the group; the partition comes with an assignment.      *)
Start(w) ==
    /\ Boot(w)
    /\ UNCHANGED kafkaVars

\* MUTANT: the reader starts at the end of the topic (LastOffset).
StartAtEnd == Len(log)

(* Where a reader given the partition starts fetching: the group's offset, *)
(* or the first one when there is none.                                    *)
StartOffset == committed

AssignTo(w) ==
    /\ pc[w] # "down"
    /\ owner' = w
    /\ pos' = StartOffset
    /\ UNCHANGED <<handlerVars, botxVars, historyVars, log, committed, offset>>

(* Nobody owns the partition: the group assigns it.                        *)
Assign(w) ==
    /\ owner = None
    /\ AssignTo(w)
    /\ UNCHANGED disruptions

(* A member joins, leaves or stalls: a new generation begins, and even the *)
(* owner that keeps its partition fetches again from the group's offset.   *)
Rebalance(w) ==
    /\ owner # None
    /\ Disrupt
    /\ AssignTo(w)

(* FetchMessage, for a consumer that is not in its handler.                *)
CanFetch(w) == pc[w] = "idle" /\ owner = w /\ pos < Len(log)

(* A message that does not decode is committed and skipped; the commit's   *)
(* error is ignored.                                                       *)
Skip(w) ==
    /\ CanFetch(w) /\ log[pos + 1] \in Malformed
    /\ pos' = pos + 1
    /\ \/ committed' = pos + 1
       \/ UNCHANGED committed
    /\ UNCHANGED <<baseVars, log, owner, offset>>

Fetch(w) ==
    /\ CanFetch(w) /\ log[pos + 1] \notin Malformed
    /\ Enter(w, log[pos + 1])
    /\ pos' = pos + 1
    /\ offset' = [offset EXCEPT ![w] = pos + 1]
    /\ UNCHANGED <<attempt, rejected, token, ctxDone, botxVars, disruptions,
                   sendVars, gaveUp, results, log, committed, owner>>

\* MUTANT: what the handler returned is committed whatever it is.
CommitsAlways(w) == TRUE

(* Whether the driver commits the message its handler returned from.       *)
Commits(w) == ReturnsNil(w)

(* The process ends: its reader, and its claim on the partition, go.       *)
Quit(w) ==
    /\ Exit(w)
    /\ offset' = [offset EXCEPT ![w] = 0]
    /\ IF owner = w THEN owner' = None /\ pos' = 0
                    ELSE UNCHANGED <<owner, pos>>

(* The handler returned nil and the commit is acknowledged.                *)
Commit(w) ==
    /\ pc[w] = "return" /\ Commits(w)
    /\ committed' = offset[w]
    /\ Leave(w, "idle")
    /\ offset' = [offset EXCEPT ![w] = 0]
    /\ UNCHANGED <<token, ctxDone, botxVars, disruptions, historyVars, log,
                   owner, pos>>

(* The commit fails, or the shutdown overtakes it: whether it took effect  *)
(* is not known, ConsumeWork returns and the process exits.                *)
CommitFails(w) ==
    /\ pc[w] = "return" /\ Commits(w)
    /\ IF ctxDone[w] THEN UNCHANGED disruptions ELSE Disrupt
    /\ \/ committed' = offset[w]
       \/ UNCHANGED committed
    /\ Quit(w)
    /\ UNCHANGED <<botxVars, historyVars, log>>

(* The handler failed: the offset stays uncommitted and the loop goes on.  *)
LeaveUncommitted(w) ==
    /\ pc[w] = "return" /\ ~Commits(w) /\ ~ctxDone[w]
    /\ Leave(w, "idle")
    /\ offset' = [offset EXCEPT ![w] = 0]
    /\ UNCHANGED <<token, ctxDone, botxVars, disruptions, historyVars, log,
                   committed, owner, pos>>

(* ConsumeWork returns when the context is done, from the fetch or after a *)
(* handler that failed, and the process ends.                              *)
Stop(w) ==
    /\ ctxDone[w]
    /\ pc[w] = "idle" \/ (pc[w] = "return" /\ ~Commits(w))
    /\ Quit(w)
    /\ UNCHANGED <<botxVars, disruptions, historyVars, log, committed>>

(* The process dies, or a fetch error makes it exit.                       *)
Crash(w) ==
    /\ pc[w] # "down"
    /\ Disrupt
    /\ Quit(w)
    /\ UNCHANGED <<botxVars, historyVars, log, committed>>

Work(w) ==
    \/ HandlerStep(w) /\ UNCHANGED kafkaVars
    \/ Skip(w) \/ Fetch(w)
    \/ Commit(w) \/ CommitFails(w) \/ LeaveUncommitted(w) \/ Stop(w)

Next ==
    \/ \E m \in Msgs : Publish(m) \/ Republish(m)
    \/ \E w \in Workers : \/ Start(w) \/ Assign(w) \/ Rebalance(w)
                          \/ Work(w) \/ Crash(w)
    \/ Environment /\ UNCHANGED kafkaVars

(* As for RabbitMQ, with the group assigning an orphaned partition.        *)
Fairness ==
    /\ \A w \in Workers : WF_vars(Start(w)) /\ WF_vars(Work(w))
    /\ WF_vars(\E w \in Workers : Assign(w))

Spec == Init /\ [][Next]_vars
FairSpec == Spec /\ Fairness

-----------------------------------------------------------------------------
(* All a worker has left behind in the log was dealt with: below the place *)
(* its handler works at, and below the owner's read position but for the   *)
(* message in the owner's own handler.                                     *)
OffsetInv ==
    /\ \A w \in Workers : InHandler(w) =>
           /\ offset[w] \in 1..Len(log)
           /\ log[offset[w]] = cur[w]
           /\ Before(offset[w] - 1) \subseteq Handled
    /\ \A w \in Workers : owner = w =>
           /\ pc[w] # "down"
           /\ Before(pos) \subseteq
                 Handled \cup (IF InHandler(w) THEN {cur[w]} ELSE {})

(* The group's offset never passes a message nobody dealt with: not by the *)
(* late commit of a worker that lost the partition, not after a crash, a   *)
(* rebalance or an abandoned handler (kafka/driver.go:183-209).            *)
CommitMeansHandled == Before(committed) \subseteq Handled

(* Every message published is eventually dealt with by some worker, though *)
(* its offset may never be committed.                                      *)
EventuallyHandled == \A m \in Msgs : (m \in Logged) ~> (m \in Handled)

(* "do NOT commit offset so the message can be redelivered or routed to a  *)
(* DLQ" (kafka/driver.go:198-199): a message the workers gave up stays     *)
(* above the group's offset until it is delivered after all.               *)
FailedStaysRedeliverable ==
    Before(committed) \cap gaveUp \subseteq delivered

(* The log and its offset keep the promise of Delivery.                    *)
D == INSTANCE Delivery WITH
        Unreadable <- Malformed,
        custody    <- Logged \ Before(committed),
        retired    <- Before(committed),
        accepted   <- delivered,
        answered   <- gaveUp \cup declined

KeepsPromise == D!Spec
=============================================================================
