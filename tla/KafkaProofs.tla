------------------------------ MODULE KafkaProofs ------------------------------
(***************************************************************************)
(* Safety of the workers on a Kafka topic, for any number of workers,      *)
(* messages, bots, retries and disruptions.  A commit is cumulative, so    *)
(* the invariant (OffsetInv) says of every worker, whether it still owns   *)
(* the partition or not, that what lies below its place in the log was     *)
(* dealt with.                                                             *)
(***************************************************************************)
EXTENDS KafkaWorker, HandlerProofs

IInv == /\ BaseInv
        /\ TypeOK
        /\ OffsetInv
        /\ CommitMeansHandled

-----------------------------------------------------------------------------
(* Prefixes of the log. *)

LEMMA BeforeNext ==
    ASSUME log \in Seq(Msgs), NEW k \in 0..Len(log), k < Len(log)
    PROVE  Before(k + 1) = Before(k) \cup {log[k + 1]}
BY DEF Before

LEMMA BeforeKept ==
    ASSUME log \in Seq(Msgs), NEW m \in Msgs, log' = Append(log, m)
    PROVE  /\ log' \in Seq(Msgs)
           /\ Len(log') = Len(log) + 1
           /\ \A i \in 1..Len(log) : log'[i] = log[i]
           /\ \A k \in 0..Len(log) : Before(k)' = Before(k)
<1>1. /\ log' \in Seq(Msgs)
      /\ Len(log') = Len(log) + 1
      /\ \A i \in 1..Len(log) : log'[i] = log[i]
    OBVIOUS
<1>2. ASSUME NEW k \in 0..Len(log)
      PROVE  Before(k)' = Before(k)
    <2>1. \A i \in 1..k : log'[i] = log[i]
        BY <1>1
    <2> QED BY <2>1 DEF Before
<1> QED BY <1>1, <1>2

-----------------------------------------------------------------------------
LEMMA InitInv == Init => IInv
<1> SUFFICES ASSUME Init PROVE IInv
    OBVIOUS
<1>1. BaseInv
    BY InitBase DEF Init
<1>2. TypeOK
    <2>1. Len(<<>>) = 0 /\ <<>> \in Seq(Msgs) /\ 0 \in 0..0
        OBVIOUS
    <2> QED BY <1>1, <2>1 DEF Init, TypeOK, BaseInv
<1>3. OffsetInv
    BY HandlerAssumption DEF Init, BaseInit, OffsetInv, InHandler, Before
<1>4. CommitMeansHandled
    BY DEF Init, CommitMeansHandled, Before
<1> QED BY <1>1, <1>2, <1>3, <1>4 DEF IInv

(* Steps that leave the log and what is read of it alone. *)
LEMMA SameLog ==
    ASSUME IInv, BaseInv', UNCHANGED <<log, committed, pos, offset>>,
           Handled \subseteq Handled',
           \A w \in Workers : /\ InHandler(w)' => /\ InHandler(w)
                                                 /\ cur'[w] = cur[w]
                              /\ owner' = w => /\ owner = w
                                               /\ pc'[w] # "down"
                                               /\ InHandler(w) => InHandler(w)',
           owner' \in Workers \cup {None}
    PROVE  IInv'
<1> USE DEF IInv
<1>1. TypeOK'
    BY DEF TypeOK, BaseInv
<1>2. \A k : Before(k)' = Before(k)
    BY DEF Before
<1>3. CommitMeansHandled'
    BY <1>2 DEF CommitMeansHandled
<1>4. OffsetInv'
    <2>1. ASSUME NEW w \in Workers, InHandler(w)'
          PROVE  /\ offset'[w] \in 1..Len(log')
                 /\ log'[offset'[w]] = cur'[w]
                 /\ Before(offset[w] - 1)' \subseteq Handled'
        BY <1>2, <2>1 DEF OffsetInv
    <2>2. ASSUME NEW w \in Workers, owner' = w
          PROVE  /\ pc'[w] # "down"
                 /\ Before(pos)' \subseteq
                       Handled' \cup (IF InHandler(w)' THEN {cur'[w]} ELSE {})
        BY <1>2, <2>2 DEF OffsetInv
    <2> QED BY <2>1, <2>2 DEF OffsetInv
<1> QED BY <1>1, <1>3, <1>4

LEMMA HandlerStepKafka ==
    ASSUME IInv, NEW w \in Workers, HandlerStep(w), UNCHANGED kafkaVars
    PROVE  IInv'
<1> USE DEF IInv
<1>1. BaseInv'
    BY HandlerStepBase
<1>2. /\ UNCHANGED <<cur, declined>>
      /\ \A v \in Workers : v # w => pc'[v] = pc[v]
      /\ InHandler(w) /\ InHandler(w)'
      /\ delivered \subseteq delivered'
      /\ gaveUp \subseteq gaveUp'
    BY HandlerStepFrame DEF BaseInv
<1>3. Handled \subseteq Handled'
    BY <1>2 DEF Handled
<1>4. ASSUME NEW v \in Workers
      PROVE  /\ InHandler(v)' <=> InHandler(v)
             /\ cur'[v] = cur[v]
             /\ owner = v => pc'[v] # "down"
    BY <1>2 DEF InHandler, OffsetInv
<1> QED BY <1>1, <1>3, <1>4, SameLog DEF kafkaVars, TypeOK

(* The broker's own steps and what is read at the log's end. *)
LEMMA PublishInv ==
    ASSUME IInv, NEW m \in Msgs, Publish(m) \/ Republish(m)
    PROVE  IInv'
<1> USE DEF IInv
<1>0. /\ log' = Append(log, m)
      /\ UNCHANGED <<handlerVars, botxVars, historyVars, committed, owner,
                     pos, offset>>
      /\ Disrupt \/ UNCHANGED disruptions
    BY DEF Publish, Republish, baseVars
<1>1. BaseInv'
    BY <1>0, DisruptBase
<1>2. /\ log' \in Seq(Msgs)
      /\ Len(log') = Len(log) + 1
      /\ Len(log) \in Nat
      /\ \A i \in 1..Len(log) : log'[i] = log[i]
      /\ \A k \in 0..Len(log) : Before(k)' = Before(k)
    BY <1>0, BeforeKept DEF TypeOK
<1>3. TypeOK'
    BY <1>0, <1>1, <1>2 DEF TypeOK, BaseInv
<1>4. Handled' = Handled
    BY <1>0 DEF Handled, historyVars, sendVars
<1>5. CommitMeansHandled'
    BY <1>0, <1>2, <1>4 DEF CommitMeansHandled, TypeOK
<1>6. OffsetInv'
    <2>1. UNCHANGED <<pc, cur, offset, owner, pos>>
        BY <1>0 DEF handlerVars
    <2>2. ASSUME NEW w \in Workers, InHandler(w)'
          PROVE  /\ offset'[w] \in 1..Len(log')
                 /\ log'[offset'[w]] = cur'[w]
                 /\ Before(offset[w] - 1)' \subseteq Handled'
        <3>1. InHandler(w) /\ offset[w] \in 1..Len(log)
            BY <2>1, <2>2 DEF InHandler, OffsetInv
        <3>2. offset[w] - 1 \in 0..Len(log)
            BY <1>2, <3>1
        <3>3. Before(offset[w] - 1)' = Before(offset[w] - 1)
            BY <1>2, <2>1, <3>2 DEF Before
        <3> QED BY <1>2, <1>4, <2>1, <3>1, <3>3 DEF OffsetInv
    <2>3. ASSUME NEW w \in Workers, owner' = w
          PROVE  /\ pc'[w] # "down"
                 /\ Before(pos)' \subseteq
                       Handled' \cup (IF InHandler(w)' THEN {cur'[w]} ELSE {})
        <3>1. Before(pos)' = Before(pos)
            BY <1>2, <2>1 DEF TypeOK, Before
        <3> QED BY <1>4, <2>1, <2>3, <3>1 DEF OffsetInv, InHandler
    <2> QED BY <2>2, <2>3 DEF OffsetInv
<1> QED BY <1>1, <1>3, <1>5, <1>6

(* A worker is given the partition and reads from the group's offset. *)
LEMMA AssignInv ==
    ASSUME IInv, NEW w \in Workers, AssignTo(w),
           Disrupt \/ UNCHANGED disruptions
    PROVE  IInv'
<1> USE DEF IInv
<1>1. BaseInv'
    BY DisruptBase DEF AssignTo
<1>2. /\ UNCHANGED <<pc, cur, log, committed, offset>>
      /\ owner' = w /\ pos' = committed /\ pc[w] # "down"
      /\ Handled' = Handled
    BY DEF AssignTo, StartOffset, handlerVars, historyVars, sendVars, Handled
<1>3. TypeOK'
    BY <1>1, <1>2 DEF TypeOK, BaseInv
<1>4. CommitMeansHandled'
    BY <1>2 DEF CommitMeansHandled, Before
<1>5. OffsetInv'
    BY <1>2 DEF OffsetInv, CommitMeansHandled, InHandler, Before
<1> QED BY <1>1, <1>3, <1>4, <1>5

(* The reader moves past one message: its handler has it, or it was        *)
(* skipped because no handler could read it.                               *)
LEMMA SkipInv ==
    ASSUME IInv, NEW w \in Workers, Skip(w)
    PROVE  IInv'
<1> USE DEF IInv
<1>1. BaseInv'
    BY StutterBase DEF Skip
<1>2. /\ UNCHANGED <<pc, cur, log, owner, offset>>
      /\ owner = w /\ pc[w] = "idle"
      /\ pos \in 0..Len(log) /\ pos < Len(log) /\ Len(log) \in Nat
      /\ pos' = pos + 1
      /\ Handled' = Handled
    BY DEF Skip, CanFetch, TypeOK, baseVars, handlerVars, historyVars,
           sendVars, Handled
<1>3. Before(pos + 1) \subseteq Handled
    <2>1. Before(pos + 1) = Before(pos) \cup {log[pos + 1]}
        BY <1>2, BeforeNext DEF TypeOK
    <2>2. Before(pos) \subseteq Handled
        BY <1>2 DEF OffsetInv, InHandler
    <2> QED BY <2>1, <2>2 DEF Skip, Handled
<1>4. TypeOK'
    BY <1>1, <1>2 DEF Skip, TypeOK, BaseInv
<1>5. CommitMeansHandled'
    <2>1. committed' \in {committed, pos + 1}
        BY DEF Skip
    <2> QED BY <1>2, <1>3, <2>1 DEF CommitMeansHandled, Before
<1>6. OffsetInv'
    BY <1>2, <1>3 DEF OffsetInv, InHandler, Before
<1> QED BY <1>1, <1>4, <1>5, <1>6

LEMMA FetchInv ==
    ASSUME IInv, NEW w \in Workers, Fetch(w)
    PROVE  IInv'
<1> DEFINE m == log[pos + 1]
<1> USE DEF IInv
<1>1. /\ owner = w /\ pc[w] = "idle"
      /\ pos \in 0..Len(log) /\ pos < Len(log) /\ Len(log) \in Nat
      /\ pos + 1 \in 1..Len(log)
      /\ m \in Msgs \ Malformed /\ Enter(w, m)
      /\ UNCHANGED <<attempt, rejected, token, ctxDone, botxVars, disruptions,
                     sendVars, gaveUp, results>>
    BY DEF Fetch, CanFetch, TypeOK
<1>2. BaseInv'
    BY <1>1, EnterBase
<1>3. /\ UNCHANGED <<log, committed, owner>>
      /\ pos' = pos + 1
      /\ offset'[w] = pos + 1 /\ cur'[w] = m
      /\ InHandler(w)' /\ pc'[w] # "down"
      /\ \A v \in Workers : v # w => /\ pc'[v] = pc[v]
                                    /\ cur'[v] = cur[v]
                                    /\ offset'[v] = offset[v]
    BY DEF Fetch, Enter, InHandler, TypeOK, BaseTypeOK
<1>4. Handled \subseteq Handled'
    BY DEF Fetch, Enter, Handled, sendVars, BaseTypeOK
<1>5. TypeOK'
    BY <1>1, <1>2, <1>3 DEF Fetch, TypeOK, BaseInv
<1>6. CommitMeansHandled'
    BY <1>3, <1>4 DEF CommitMeansHandled, Before
<1>7. OffsetInv'
    <2>1. Before(pos) \subseteq Handled
        BY <1>1 DEF OffsetInv, InHandler
    <2>2. Before(pos + 1) = Before(pos) \cup {m}
        BY <1>1, BeforeNext DEF TypeOK
    <2>3. \A k : Before(k)' = Before(k)
        BY <1>3 DEF Before
    <2>4. pos + 1 - 1 = pos
        BY <1>1
    <2>5. ASSUME NEW v \in Workers, InHandler(v)'
          PROVE  /\ offset'[v] \in 1..Len(log')
                 /\ log'[offset'[v]] = cur'[v]
                 /\ Before(offset[v] - 1)' \subseteq Handled'
        <3>1. CASE v = w
            <4>1. offset'[w] - 1 = pos
                BY <1>1, <1>3
            <4>2. Before(offset'[w] - 1) \subseteq Handled'
                BY <1>4, <2>1, <4>1
            <4> QED BY <1>1, <1>3, <3>1, <4>2 DEF Before
        <3>2. CASE v # w
            <4>1. InHandler(v) /\ offset'[v] = offset[v]
                BY <1>3, <2>5, <3>2 DEF InHandler
            <4>2. Before(offset'[v] - 1) \subseteq Handled'
                BY <1>4, <4>1 DEF OffsetInv
            <4> QED BY <1>3, <3>2, <4>1, <4>2 DEF OffsetInv, Before
        <3> QED BY <3>1, <3>2
    <2>6. ASSUME NEW v \in Workers, owner' = v
          PROVE  /\ pc'[v] # "down"
                 /\ Before(pos)' \subseteq
                       Handled' \cup (IF InHandler(v)' THEN {cur'[v]} ELSE {})
        <3>1. v = w
            BY <1>1, <1>3, <2>6
        <3>2. Before(pos)' = Before(pos + 1)
            BY <1>3 DEF Before
        <3> QED BY <1>3, <1>4, <2>1, <2>2, <3>1, <3>2
    <2> QED BY <2>5, <2>6 DEF OffsetInv
<1> QED BY <1>2, <1>5, <1>6, <1>7

-----------------------------------------------------------------------------
(* The handler returned: what lies below its message and, unless it was    *)
(* the shutdown that failed it, the message itself were dealt with.        *)
LEMMA ReturnedHandled ==
    ASSUME IInv, NEW w \in Workers, pc[w] = "return",
           Commits(w) \/ ~ctxDone[w]
    PROVE  /\ cur[w] \in Handled
           /\ offset[w] \in 1..Len(log)
           /\ Before(offset[w]) \subseteq Handled
<1> USE DEF IInv
<1>1. VerdictJustified(w) /\ verdict[w] \in Verdict
    BY DEF BaseInv, BaseTypeOK, HandlerInv, Decided
<1>2. cur[w] \in Handled
    BY <1>1 DEF Commits, ReturnsNil, VerdictJustified, Verdict, Handled
<1>3. /\ offset[w] \in 1..Len(log)
      /\ log[offset[w]] = cur[w]
      /\ Before(offset[w] - 1) \subseteq Handled
    BY DEF OffsetInv, InHandler
<1>4. /\ Len(log) \in Nat /\ log \in Seq(Msgs)
      /\ offset[w] - 1 \in 0..Len(log) /\ offset[w] - 1 < Len(log)
      /\ (offset[w] - 1) + 1 = offset[w]
    BY <1>3 DEF TypeOK
<1>5. Before(offset[w]) = Before(offset[w] - 1) \cup {cur[w]}
    BY <1>3, <1>4, BeforeNext
<1> QED BY <1>2, <1>3, <1>5

(* A worker lets go of its message, which was dealt with. *)
LEMMA LeaveInv ==
    ASSUME IInv, NEW w \in Workers, pc[w] = "return", Leave(w, "idle"),
           Commits(w) \/ ~ctxDone[w],
           offset' = [offset EXCEPT ![w] = 0],
           committed' \in {committed, offset[w]},
           UNCHANGED <<token, ctxDone, botxVars, disruptions, historyVars,
                       log, owner, pos>>
    PROVE  IInv'
<1> USE DEF IInv
<1>1. BaseInv'
    BY LeaveBase DEF BaseInv, BaseTypeOK
<1>2. /\ cur[w] \in Handled
      /\ offset[w] \in 1..Len(log)
      /\ Before(offset[w]) \subseteq Handled
    BY ReturnedHandled
<1>3. /\ pc'[w] = "idle"
      /\ \A v \in Workers : v # w => /\ pc'[v] = pc[v]
                                    /\ cur'[v] = cur[v]
                                    /\ offset'[v] = offset[v]
    BY DEF Leave, TypeOK, BaseTypeOK
<1>4. Handled' = Handled /\ \A k : Before(k)' = Before(k)
    BY DEF Handled, historyVars, sendVars, Before
<1>5. TypeOK'
    <2>1. Len(log) \in Nat
        BY DEF TypeOK
    <2> QED BY <1>1, <1>2, <2>1 DEF TypeOK, BaseInv
<1>6. CommitMeansHandled'
    BY <1>2, <1>4 DEF CommitMeansHandled, Before
<1>7. OffsetInv'
    BY <1>2, <1>3, <1>4 DEF OffsetInv, InHandler, Before
<1> QED BY <1>1, <1>5, <1>6, <1>7

(* The process ends, whatever it was doing; its last commit may have       *)
(* reached the broker.                                                     *)
LEMMA QuitInv ==
    ASSUME IInv, NEW w \in Workers, Quit(w),
           \/ UNCHANGED committed
           \/ /\ pc[w] = "return" /\ Commits(w)
              /\ committed' = offset[w],
           Disrupt \/ UNCHANGED disruptions,
           UNCHANGED <<botxVars, historyVars, log>>
    PROVE  IInv'
<1> USE DEF IInv
<1>1. BaseInv'
    BY ExitBase DEF Quit
<1>2. /\ pc'[w] = "down" /\ owner' # w
      /\ \A v \in Workers : v # w => /\ pc'[v] = pc[v]
                                    /\ cur'[v] = cur[v]
                                    /\ offset'[v] = offset[v]
      /\ \A v \in Workers : owner' = v => owner = v /\ pos' = pos
    BY HandlerAssumption
    DEF Quit, Exit, Leave, TypeOK, BaseTypeOK
<1>3. Handled' = Handled /\ \A k : Before(k)' = Before(k)
    BY DEF Handled, historyVars, sendVars, Before
<1>4. /\ committed' \in 0..Len(log)
      /\ Before(committed') \subseteq Handled
    BY ReturnedHandled DEF TypeOK, CommitMeansHandled
<1>5. TypeOK'
    <2>1. Len(log) \in Nat
        BY DEF TypeOK
    <2> QED BY <1>1, <1>4, <2>1 DEF Quit, TypeOK, BaseInv
<1>6. CommitMeansHandled'
    BY <1>3, <1>4 DEF CommitMeansHandled, Before
<1>7. OffsetInv'
    BY <1>2, <1>3 DEF OffsetInv, InHandler, Before
<1> QED BY <1>1, <1>5, <1>6, <1>7

(* The invariant is inductive: one case per action of Next. *)
LEMMA NextInv == IInv /\ [Next]_vars => IInv'
<1> SUFFICES ASSUME IInv, [Next]_vars PROVE IInv'
    OBVIOUS
<1> USE DEF IInv
<1>1. ASSUME NEW m \in Msgs, Publish(m) \/ Republish(m) PROVE IInv'
    BY <1>1, PublishInv
<1>2. ASSUME NEW w \in Workers, Start(w) PROVE IInv'
    <2>1. BaseInv'
        BY <1>2, BootBase DEF Start
    <2>2. pc[w] = "down" /\ pc' = [pc EXCEPT ![w] = "idle"] /\ cur' = cur
        BY <1>2 DEF Start, Boot
    <2>3. ASSUME NEW v \in Workers
          PROVE  /\ InHandler(v)' <=> InHandler(v)
                 /\ cur'[v] = cur[v]
                 /\ owner = v => pc'[v] # "down"
        BY <2>2 DEF InHandler, OffsetInv, BaseInv, BaseTypeOK
    <2>4. Handled' = Handled
        BY <1>2 DEF Start, Boot, Handled, historyVars, sendVars
    <2> QED BY <1>2, <2>1, <2>3, <2>4, SameLog DEF Start, kafkaVars, TypeOK
<1>3. ASSUME NEW w \in Workers, Assign(w) PROVE IInv'
    BY <1>3, AssignInv DEF Assign
<1>4. ASSUME NEW w \in Workers, Rebalance(w) PROVE IInv'
    BY <1>4, AssignInv DEF Rebalance
<1>5. ASSUME NEW w \in Workers, HandlerStep(w) /\ UNCHANGED kafkaVars
      PROVE  IInv'
    BY <1>5, HandlerStepKafka
<1>6. ASSUME NEW w \in Workers, Skip(w) PROVE IInv'
    BY <1>6, SkipInv
<1>7. ASSUME NEW w \in Workers, Fetch(w) PROVE IInv'
    BY <1>7, FetchInv
<1>8. ASSUME NEW w \in Workers, Commit(w) PROVE IInv'
    BY <1>8, LeaveInv DEF Commit
<1>9. ASSUME NEW w \in Workers, CommitFails(w) PROVE IInv'
    BY <1>9, QuitInv DEF CommitFails
<1>10. ASSUME NEW w \in Workers, LeaveUncommitted(w) PROVE IInv'
    BY <1>10, LeaveInv DEF LeaveUncommitted
<1>11. ASSUME NEW w \in Workers, Stop(w) PROVE IInv'
    BY <1>11, QuitInv DEF Stop
<1>12. ASSUME NEW w \in Workers, Crash(w) PROVE IInv'
    BY <1>12, QuitInv DEF Crash
<1>13. ASSUME Environment, UNCHANGED kafkaVars PROVE IInv'
    <2>1. BaseInv'
        BY <1>13, EnvironmentBase
    <2>2. UNCHANGED <<pc, cur, historyVars>>
        BY <1>13
        DEF Environment, Signal, Revoke, CacheExpires, handlerVars
    <2>3. Handled' = Handled
        BY <2>2 DEF Handled, historyVars, sendVars
    <2> QED BY <1>13, <2>1, <2>2, <2>3, SameLog
        DEF kafkaVars, TypeOK, OffsetInv, InHandler
<1>14. CASE UNCHANGED vars
    <2>1. BaseInv'
        BY <1>14, StutterBase DEF vars
    <2>2. UNCHANGED <<pc, cur, historyVars>> /\ UNCHANGED kafkaVars
        BY <1>14 DEF vars, baseVars, handlerVars
    <2>3. Handled' = Handled
        BY <2>2 DEF Handled, historyVars, sendVars
    <2> QED BY <2>1, <2>2, <2>3, SameLog
        DEF kafkaVars, TypeOK, OffsetInv, InHandler
<1> QED
    BY <1>1, <1>2, <1>3, <1>4, <1>5, <1>6, <1>7, <1>8, <1>9, <1>10, <1>11,
       <1>12, <1>13, <1>14
    DEF Next, Work

(* The strengthened invariant holds throughout. *)
THEOREM InvariantHolds == Spec => []IInv
BY InitInv, NextInv, PTL DEF Spec

-----------------------------------------------------------------------------
(* Every variable keeps its type; in particular neither the group's offset *)
(* nor a reader's position runs past the log.                              *)
THEOREM TypeCorrect == Spec => []TypeOK
<1>1. IInv => TypeOK
    BY DEF IInv
<1> QED BY <1>1, InvariantHolds, PTL

(* The group's offset never passes a message nobody dealt with, whatever   *)
(* crash, rebalance or late commit.                                        *)
THEOREM CommitSafe == Spec => []CommitMeansHandled
<1>1. IInv => CommitMeansHandled
    BY DEF IInv
<1> QED BY <1>1, InvariantHolds, PTL

(* A message accepted twice had an answer lost or was fetched again. *)
THEOREM DuplicateSafe == Spec => []DuplicateExplained
<1>1. IInv => DuplicateExplained
    BY DEF IInv, BaseInv
<1> QED BY <1>1, InvariantHolds, PTL

(* Every step keeps what is known of tokens, and refreshes as it should.   *)
LEMMA NextToken ==
    ASSUME IInv, IInv', TokenInv, [Next]_vars
    PROVE  TokenInv' /\ \A w \in Workers : RefreshesAnew(w)
<1> DEFINE Goal == TokenInv' /\ \A w \in Workers : RefreshesAnew(w)
<1> USE DEF IInv, BaseInv
<1>0. /\ \A w \in Workers : Trying(w) => BotOf[cur[w]] \in Bots
      /\ \A b \in Bots : epoch[b] \in Nat
    BY TokenNumbers DEF HandlerInv, BaseTypeOK
<1>1. ASSUME NEW w \in Workers, HandlerStep(w) PROVE Goal
    BY <1>1, TokenStep
<1>2. ASSUME NEW w \in Workers, Fetch(w) PROVE Goal
    <2>1. /\ pc[w] = "idle" /\ UNCHANGED <<token, cache, epoch, rejected>>
          /\ \A v \in Workers : v # w => pc'[v] = pc[v] /\ cur'[v] = cur[v]
          /\ pc'[w] # "refresh"
        <3>1. /\ pc[w] = "idle" /\ UNCHANGED <<token, cache, epoch, rejected>>
              /\ Enter(w, log[pos + 1])
            BY <1>2 DEF Fetch, CanFetch, botxVars
        <3> QED BY <3>1 DEF Enter, BaseTypeOK
    <2> QED BY <1>0, <2>1, TokenKept
<1>3. ASSUME NEW w \in Workers,
                 \/ Commit(w) \/ CommitFails(w) \/ LeaveUncommitted(w)
                 \/ Stop(w) \/ Crash(w)
      PROVE  Goal
    <2>1. \E to \in {"idle", "down"} : Leave(w, to)
        BY <1>3 DEF Commit, CommitFails, LeaveUncommitted, Stop, Crash, Quit, Exit
    <2>2. /\ \A v \in Workers : v # w => /\ pc'[v] = pc[v] /\ cur'[v] = cur[v]
                                         /\ rejected'[v] = rejected[v]
          /\ pc'[w] \notin {"refresh", "attempt"}
        BY <2>1 DEF Leave, BaseTypeOK
    <2>3. \/ token' = token
          \/ token' = [token EXCEPT ![w] = [b \in Bots |-> NoToken]]
        BY <1>3 DEF Commit, CommitFails, LeaveUncommitted, Stop, Crash, Quit, Exit
    <2>4. \A v \in Workers, b \in Bots : token'[v][b] \in {token[v][b], NoToken}
        <3>1. CASE token' = token
            BY <3>1
        <3>2. CASE token' = [token EXCEPT ![w] = [b \in Bots |-> NoToken]]
            <4>1. \A v \in Workers :
                     token'[v] = IF v = w THEN [b \in Bots |-> NoToken] ELSE token[v]
                BY <3>2 DEF BaseTypeOK
            <4> QED BY <4>1
        <3> QED BY <2>3, <3>1, <3>2
    <2>5. epoch' = epoch /\ cache' = cache
        BY <1>3 DEF Commit, CommitFails, LeaveUncommitted, Stop, Crash, botxVars
    <2> QED BY <1>0, <2>2, <2>4, <2>5, TokenKept
<1>4. ASSUME NEW w \in Workers, Start(w) PROVE Goal
    <2>1. /\ pc[w] = "down" /\ UNCHANGED <<cur, token, cache, epoch, rejected>>
          /\ \A v \in Workers : v # w => pc'[v] = pc[v]
          /\ pc'[w] # "refresh"
        BY <1>4 DEF Start, Boot, BaseTypeOK, botxVars
    <2> QED BY <1>0, <2>1, TokenKept
<1>5. ASSUME UNCHANGED <<pc, cur, token, rejected>>,
             \A b \in Bots : /\ epoch'[b] = epoch[b] \/ epoch'[b] = epoch[b] + 1
                             /\ cache'[b] \in {cache[b], NoToken}
      PROVE  Goal
    <2>1. \A b \in Bots : epoch[b] <= epoch'[b]
        BY <1>0, <1>5
    <2> QED BY <1>0, <1>5, <2>1, TokenKept
<1>6. ASSUME Environment PROVE Goal
    BY <1>5, <1>6
    DEF Environment, Signal, Revoke, CacheExpires, handlerVars, botxVars, BaseTypeOK
<1>7. CASE UNCHANGED baseVars
    BY <1>5, <1>7 DEF baseVars, handlerVars, botxVars
<1>8. ASSUME NEW w \in Workers, Assign(w) \/ Rebalance(w) PROVE Goal
    BY <1>5, <1>8 DEF Assign, Rebalance, AssignTo, handlerVars, botxVars
<1>9. ASSUME \/ \E m \in Msgs : Publish(m) \/ Republish(m)
             \/ \E w \in Workers : Skip(w)
             \/ UNCHANGED vars
      PROVE  Goal
    BY <1>5, <1>9 DEF Publish, Republish, Skip, vars, baseVars, handlerVars, botxVars
<1> QED
    BY <1>1, <1>2, <1>3, <1>4, <1>6, <1>8, <1>9 DEF Next, Work

(* The resend after a 401 uses another token than the one refused, unless  *)
(* the shared cache handed the refused one back (worker.go:320): whatever  *)
(* a worker holds was issued before the API's present token, and the one   *)
(* refused before the one the API gives now.                               *)
THEOREM RefreshSafe == Spec => RefreshedTokenIsNew
<1> DEFINE JInv == IInv /\ TokenInv
           Goal == \A w \in Workers : RefreshesAnew(w)
<1>1. Init => JInv
    BY InitInv, TokenInit DEF Init
<1>2. JInv /\ [Next]_vars => JInv'
    BY NextInv, NextToken
<1>3. JInv /\ [Next]_vars => [Goal]_baseVars
    BY NextInv, NextToken
<1>4. RefreshedTokenIsNew <=> [][Goal]_baseVars
    BY DEF RefreshedTokenIsNew
<1> HIDE DEF JInv, Goal
<1> QED BY <1>1, <1>2, <1>3, <1>4, PTL DEF Spec

-----------------------------------------------------------------------------
(* The log implements Delivery. *)

LEMMA DeliveryTerms ==
    ASSUME TypeOK
    PROVE  /\ Before(committed) \subseteq Logged
           /\ D!Known = Logged
           /\ D!Settled = Handled
<1>1. \A i \in 1..committed : i \in 1..Len(log)
    BY DEF TypeOK
<1> QED BY <1>1 DEF Before, Logged, D!Known, D!Settled, Handled

LEMMA SameDelivery ==
    ASSUME UNCHANGED <<log, committed, delivered, gaveUp, declined>>
    PROVE  UNCHANGED D!vars
BY DEF Logged, Before, D!vars

(* A handler's step is about the message it has: that one may be accepted, *)
(* or answered, or both.                                                   *)
LEMMA HandlerDelivers ==
    ASSUME TypeOK, NEW m \in Logged \cap (Msgs \ Malformed),
           delivered' \in {delivered, delivered \cup {m}},
           (gaveUp \cup declined)' \in
               {gaveUp \cup declined, gaveUp \cup declined \cup {m}},
           UNCHANGED <<log, committed>>
    PROVE  [D!Next]_(D!vars)
<1>0. m \in D!Known \ Malformed /\ m \in Msgs
    BY DeliveryTerms
<1>1. /\ (Logged \ Before(committed))' = Logged \ Before(committed)
      /\ Before(committed)' = Before(committed)
    BY DEF Logged, Before
<1>2. CASE delivered' = delivered /\ (gaveUp \cup declined)' = gaveUp \cup declined
    BY <1>1, <1>2 DEF D!vars
<1>3. CASE delivered' = delivered \cup {m}
           /\ (gaveUp \cup declined)' = gaveUp \cup declined
    BY <1>0, <1>1, <1>3 DEF D!Next, D!Accept
<1>4. CASE delivered' = delivered
           /\ (gaveUp \cup declined)' = gaveUp \cup declined \cup {m}
    BY <1>0, <1>1, <1>4 DEF D!Next, D!Answer
<1>5. CASE delivered' = delivered \cup {m}
           /\ (gaveUp \cup declined)' = gaveUp \cup declined \cup {m}
    BY <1>0, <1>1, <1>5 DEF D!Next, D!AcceptAndAnswer
<1> QED BY <1>2, <1>3, <1>4, <1>5

(* A commit retires what lies between the old offset and the new one, or,  *)
(* from a worker that lost the partition, takes it back.                   *)
LEMMA CommitRetires ==
    ASSUME TypeOK, log' = log, committed' \in 0..Len(log),
           Before(committed') \subseteq Handled,
           UNCHANGED <<delivered, gaveUp, declined>>
    PROVE  [D!Next]_(D!vars)
<1> DEFINE old == Before(committed)
           new == Before(committed')
<1>0. /\ committed \in 0..Len(log) /\ Len(log) \in Nat
      /\ committed \in Int /\ committed' \in Int
    BY DEF TypeOK
<1>1. /\ (Logged \ Before(committed))' = Logged \ new
      /\ Before(committed)' = new
    BY DEF Logged, Before
<1>2. old \subseteq Logged /\ new \subseteq Logged
    <2>1. \A i \in 1..committed' : i \in 1..Len(log)
        BY <1>0
    <2> QED BY <2>1, DeliveryTerms DEF Before, Logged
<1>3. Logged \subseteq Msgs
    BY DEF TypeOK, Logged
<1>4. CASE committed' >= committed
    <2>1. old \subseteq new
        <3>1. \A i \in 1..committed : i \in 1..committed'
            BY <1>0, <1>4
        <3> QED BY <3>1 DEF Before
    <2>2. /\ (new \ old) \subseteq (Logged \ old) \cap D!Settled
          /\ Logged \ new = (Logged \ old) \ (new \ old)
          /\ new = old \cup (new \ old)
          /\ new \ old \in SUBSET Msgs
        BY <1>2, <1>3, <2>1, DeliveryTerms
    <2> HIDE DEF old, new
    <2>3. D!Retire(new \ old)
        BY <1>1, <2>2 DEF D!Retire, old
    <2> QED BY <2>2, <2>3 DEF D!Next
<1>5. CASE committed' < committed
    <2>1. new \subseteq old
        <3>1. \A i \in 1..committed' : i \in 1..committed
            BY <1>0, <1>5
        <3> QED BY <3>1 DEF Before
    <2>2. /\ old \ new \subseteq old
          /\ Logged \ new = (Logged \ old) \cup (old \ new)
          /\ new = old \ (old \ new)
          /\ old \ new \in SUBSET Msgs
        BY <1>2, <1>3, <2>1
    <2> HIDE DEF old, new
    <2>3. D!Reclaim(old \ new)
        BY <1>1, <2>2 DEF D!Reclaim, old
    <2> QED BY <2>2, <2>3 DEF D!Next
<1> QED BY <1>0, <1>4, <1>5

LEMMA DeliveryStep ==
    ASSUME IInv, IInv', [Next]_vars
    PROVE  [D!Next]_(D!vars)
<1> USE DEF IInv
<1>0. ASSUME UNCHANGED log, UNCHANGED historyVars,
             committed' = committed \/ CommitMeansHandled'
      PROVE  [D!Next]_(D!vars)
    <2>1. UNCHANGED <<delivered, gaveUp, declined>>
        BY <1>0 DEF historyVars, sendVars
    <2>2. CASE committed' = committed
        BY <1>0, <2>1, <2>2, SameDelivery
    <2>3. CASE CommitMeansHandled'
        <3>1. Before(committed') \subseteq Handled
            BY <1>0, <2>1, <2>3 DEF CommitMeansHandled, Before, Handled
        <3>2. committed' \in 0..Len(log)
            BY <1>0 DEF TypeOK
        <3> QED BY <1>0, <2>1, <3>1, <3>2, CommitRetires
    <2> QED BY <1>0, <2>2, <2>3
<1>1. ASSUME NEW m \in Msgs, Publish(m) \/ Republish(m) PROVE [D!Next]_(D!vars)
    <2>1. /\ log' = Append(log, m) /\ committed' = committed
          /\ UNCHANGED <<delivered, gaveUp, declined>>
        BY <1>1 DEF Publish, Republish, baseVars, historyVars, sendVars
    <2>2. /\ Len(log') = Len(log) + 1 /\ Len(log) \in Nat
          /\ \A i \in 1..Len(log) : log'[i] = log[i]
          /\ Before(committed)' = Before(committed)
        <3>1. /\ Len(log') = Len(log) + 1
              /\ \A i \in 1..Len(log) : log'[i] = log[i]
              /\ Before(committed)' = Before(committed)
            BY <2>1, BeforeKept DEF TypeOK, Before
        <3> QED BY <3>1 DEF TypeOK
    <2>3. Logged' = Logged \cup {m}
        <3>1. log'[Len(log) + 1] = m
            BY <2>1 DEF TypeOK
        <3>2. 1..Len(log') = 1..Len(log) \cup {Len(log) + 1}
            BY <2>2
        <3> QED BY <2>2, <3>1, <3>2 DEF Logged
    <2>4. CASE m \notin Logged
        <3>1. (Logged \ Before(committed))' = (Logged \ Before(committed)) \cup {m}
            BY <2>2, <2>3, <2>4, DeliveryTerms
        <3>2. D!Submit(m)
            BY <2>1, <2>2, <2>4, <3>1, DeliveryTerms DEF D!Submit
        <3> QED BY <3>2 DEF D!Next
    <2>5. CASE m \in Logged
        <3>1. (Logged \ Before(committed))' = Logged \ Before(committed)
            BY <2>2, <2>3, <2>5
        <3> QED BY <2>1, <2>2, <3>1 DEF D!vars
    <2> QED BY <2>4, <2>5
<1>2. ASSUME NEW w \in Workers, HandlerStep(w), UNCHANGED kafkaVars
      PROVE  [D!Next]_(D!vars)
    <2>1. /\ declined' = declined
          /\ InHandler(w)
          /\ delivered \subseteq delivered' /\ gaveUp \subseteq gaveUp'
          /\ delivered' \subseteq delivered \cup {cur[w]}
          /\ gaveUp' \subseteq gaveUp \cup {cur[w]}
        BY <1>2, HandlerStepFrame DEF BaseInv
    <2>2. cur[w] \in Logged \cap (Msgs \ Malformed)
        BY <2>1 DEF OffsetInv, Logged, BaseInv, HandlerInv
    <2>3. /\ delivered' \in {delivered, delivered \cup {cur[w]}}
          /\ gaveUp' \in {gaveUp, gaveUp \cup {cur[w]}}
        BY <2>1
    <2>4. (gaveUp \cup declined)' \in
              {gaveUp \cup declined, gaveUp \cup declined \cup {cur[w]}}
        BY <2>1, <2>3
    <2> QED BY <1>2, <2>2, <2>3, <2>4, HandlerDelivers DEF kafkaVars
<1>3. ASSUME NEW w \in Workers, Fetch(w) PROVE [D!Next]_(D!vars)
    <2> DEFINE m == log[pos + 1]
    <2>1. /\ pos + 1 \in 1..Len(log) /\ m \in Msgs \ Malformed
          /\ declined' \in {declined, declined \cup {m}}
          /\ UNCHANGED <<delivered, gaveUp, log, committed>>
        BY <1>3 DEF Fetch, CanFetch, TypeOK, Enter, sendVars
    <2>2. m \in Logged
        BY <2>1 DEF Logged
    <2>3. (gaveUp \cup declined)' \in
              {gaveUp \cup declined, gaveUp \cup declined \cup {m}}
        BY <2>1
    <2> HIDE DEF m
    <2> QED BY <2>1, <2>2, <2>3, HandlerDelivers
<1>4. ASSUME NEW w \in Workers,
             \/ Start(w) \/ Assign(w) \/ Rebalance(w)
             \/ Skip(w) \/ Commit(w) \/ CommitFails(w)
             \/ LeaveUncommitted(w) \/ Stop(w) \/ Crash(w)
      PROVE  [D!Next]_(D!vars)
    <2>1. UNCHANGED log /\ UNCHANGED historyVars
        BY <1>4
        DEF Start, Boot, Assign, Rebalance, AssignTo, Skip, Commit,
            CommitFails, LeaveUncommitted, Stop, Crash, baseVars, kafkaVars
    <2> QED BY <1>0, <2>1
<1>5. ASSUME Environment, UNCHANGED kafkaVars PROVE [D!Next]_(D!vars)
    <2>1. UNCHANGED log /\ UNCHANGED historyVars
        BY <1>5
        DEF Environment, Signal, Revoke, CacheExpires, kafkaVars
    <2> QED BY <1>0, <2>1
<1>6. CASE UNCHANGED vars
    BY <1>0, <1>6 DEF vars, baseVars, kafkaVars
<1> QED
    BY <1>1, <1>2, <1>3, <1>4, <1>5, <1>6 DEF Next, Work

LEMMA DeliveryInit == Init => D!Init
BY DEF Init, BaseInit, D!Init, Logged, Before

(* The log with its consumer group keeps the promise of Delivery: the      *)
(* group's offset passes a message only once BotX accepted it, a live      *)
(* worker decided against it or no worker could read it, and a late commit *)
(* takes messages back into custody rather than lose them                  *)
(* (kafka/driver.go:183-209).                                              *)
THEOREM ImplementsDelivery == Spec => KeepsPromise
<1>1. IInv /\ IInv' /\ [Next]_vars => [D!Next]_(D!vars)
    BY DeliveryStep
<1> QED BY <1>1, InvariantHolds, DeliveryInit, PTL DEF Spec, KeepsPromise, D!Spec
=============================================================================
