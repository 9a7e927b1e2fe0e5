----------------------------- MODULE RabbitProofs -----------------------------
(***************************************************************************)
(* Safety of the workers on a RabbitMQ queue, for any number of workers,   *)
(* messages, bots, retries and disruptions.  The invariant joins what the  *)
(* handlers keep true (BaseInv) to how broker, client and handler see one  *)
(* delivery (DeliveryInv) and to where a message may be (CustodyInv).      *)
(***************************************************************************)
EXTENDS RabbitWorker, HandlerProofs

IInv == /\ BaseInv
        /\ TypeOK
        /\ DeliveryInv
        /\ AckMeansHandled
        /\ DeadMeansGivenUp

LEMMA InitInv == Init => IInv
<1> SUFFICES ASSUME Init PROVE IInv
    OBVIOUS
<1>1. BaseInv
    BY InitBase DEF Init
<1>2. TypeOK /\ DeliveryInv /\ AckMeansHandled /\ DeadMeansGivenUp
    BY <1>1
    DEF Init, BaseInit, BaseInv, TypeOK, DeliveryInv, InHandler,
        AckMeansHandled, DeadMeansGivenUp
<1> QED BY <1>1, <1>2 DEF IInv

(* A step that changes no variable of the broker. *)
LEMMA HandlerStepBroker ==
    ASSUME IInv, NEW w \in Workers, HandlerStep(w), UNCHANGED brokerVars
    PROVE  IInv'
<1> USE DEF IInv, brokerVars
<1>1. BaseInv'
    BY HandlerStepBase
<1>2. /\ UNCHANGED <<cur, declined>>
      /\ \A v \in Workers : v # w => pc'[v] = pc[v]
      /\ InHandler(w) /\ InHandler(w)'
      /\ delivered \subseteq delivered'
      /\ gaveUp \subseteq gaveUp'
    BY HandlerStepFrame DEF BaseInv
<1>3. TypeOK'
    BY <1>1 DEF TypeOK, BaseInv
<1>4. DeliveryInv'
    BY <1>2 DEF DeliveryInv, InHandler
<1>5. AckMeansHandled' /\ DeadMeansGivenUp'
    BY <1>2 DEF AckMeansHandled, DeadMeansGivenUp
<1> QED BY <1>1, <1>3, <1>4, <1>5

(* The broker and the client move messages, the handlers do nothing. *)
LEMMA BrokerStep ==
    ASSUME IInv, UNCHANGED <<pc, cur, historyVars>>, BaseInv',
           ready' \subseteq Msgs,
           held' \in [Workers -> Msgs \cup {None}],
           buffer' \in [Workers -> Msgs \cup {None}],
           conn' \in [Workers -> BOOLEAN],
           DeliveryInv',
           acked' = acked,
           dead' \subseteq dead \cup Malformed
    PROVE  IInv'
<1> USE DEF IInv, historyVars, sendVars
<1>1. TypeOK'
    BY HandlerAssumption DEF TypeOK, BaseInv
<1>2. AckMeansHandled' /\ DeadMeansGivenUp'
    BY DEF AckMeansHandled, DeadMeansGivenUp
<1> QED BY <1>1, <1>2

(* Closing the connection gives the held message back. *)
LEMMA DisconnectType ==
    ASSUME TypeOK, NEW w \in Workers, Disconnect(w)
    PROVE  /\ ready' \subseteq Msgs
           /\ held' \in [Workers -> Msgs \cup {None}]
           /\ conn' \in [Workers -> BOOLEAN]
           /\ held'[w] = None /\ ~conn'[w]
           /\ \A v \in Workers : v # w => /\ held'[v] = held[v]
                                         /\ conn'[v] = conn[v]
BY DEF Disconnect, TypeOK

(* The process ends, with its connection. *)
LEMMA ExitBroker ==
    ASSUME IInv, NEW w \in Workers, Exit(w), Disconnect(w),
           buffer' = [buffer EXCEPT ![w] = None],
           Disrupt \/ UNCHANGED disruptions,
           UNCHANGED <<botxVars, historyVars>>
    PROVE  IInv'
<1> USE DEF IInv
<1>1. BaseInv'
    BY ExitBase
<1>2. /\ ready' \subseteq Msgs
      /\ held' \in [Workers -> Msgs \cup {None}]
      /\ conn' \in [Workers -> BOOLEAN]
      /\ held'[w] = None /\ ~conn'[w]
      /\ \A v \in Workers : v # w => /\ held'[v] = held[v]
                                    /\ conn'[v] = conn[v]
    BY DisconnectType
<1>3. /\ buffer' \in [Workers -> Msgs \cup {None}]
      /\ buffer'[w] = None
      /\ \A v \in Workers : v # w => buffer'[v] = buffer[v]
    BY DEF TypeOK
<1>4. /\ pc'[w] = "down"
      /\ \A v \in Workers : v # w => pc'[v] = pc[v] /\ cur'[v] = cur[v]
    BY DEF Exit, Leave, BaseInv, BaseTypeOK
<1>5. TypeOK'
    BY <1>1, <1>2, <1>3 DEF TypeOK, BaseInv, Disconnect
<1>6. DeliveryInv'
    BY <1>2, <1>3, <1>4 DEF DeliveryInv, InHandler
<1>7. AckMeansHandled' /\ DeadMeansGivenUp'
    BY DEF AckMeansHandled, DeadMeansGivenUp, Disconnect, historyVars,
           sendVars
<1> QED BY <1>1, <1>5, <1>6, <1>7

(* The driver answers for the message its handler returned from: what it   *)
(* acks was accepted or declined, what it drops was given up.              *)
LEMMA SettleInv ==
    ASSUME IInv, NEW w \in Workers, Settle(w)
    PROVE  IInv'
<1> DEFINE answered == {held[w]} \ {None}
<1> USE DEF IInv
<1>1. BaseInv'
    <2>1. Leave(w, "idle")
        BY DEF Settle
    <2> QED BY <2>1, LeaveBase DEF Settle, BaseInv, BaseTypeOK
<1>2. /\ answered \subseteq {cur[w]}
      /\ answered \subseteq Msgs
    BY DEF Settle, DeliveryInv, InHandler, TypeOK
<1>3. VerdictJustified(w)
    BY DEF Settle, BaseInv, HandlerInv, Decided
<1>4. acked' \subseteq acked \cup answered
      /\ (acked' # acked => cur[w] \in delivered \cup declined)
    BY <1>3 DEF Settle, Acks, ReturnsNil, VerdictJustified
<1>5. verdict[w] \in Verdict
    BY DEF BaseInv, BaseTypeOK
<1>6. dead' \subseteq dead \cup answered
      /\ (dead' # dead => cur[w] \in gaveUp)
    BY <1>3, <1>5
    DEF Settle, Acks, Requeue, ReturnsNil, VerdictJustified, Verdict
<1>7. TypeOK'
    <2>1. ready' \subseteq Msgs
        BY <1>2 DEF Settle, TypeOK
    <2>2. held' \in [Workers -> Msgs \cup {None}]
        BY DEF Settle, AfterAnswer, TypeOK
    <2> QED BY <1>1, <1>2, <1>4, <1>6, <2>1, <2>2
        DEF Settle, TypeOK, BaseInv
<1>8. DeliveryInv'
    <2>1. /\ pc'[w] = "idle" /\ held'[w] = None
          /\ \A v \in Workers : v # w => /\ pc'[v] = pc[v]
                                        /\ cur'[v] = cur[v]
                                        /\ held'[v] = held[v]
        BY DEF Settle, AfterAnswer, Leave, TypeOK, BaseInv, BaseTypeOK
    <2>2. buffer[w] = None
        BY DEF Settle, DeliveryInv, InHandler
    <2> QED BY <2>1, <2>2 DEF Settle, DeliveryInv, InHandler
<1>9. AckMeansHandled' /\ DeadMeansGivenUp'
    BY <1>2, <1>4, <1>6
    DEF Settle, AckMeansHandled, DeadMeansGivenUp, historyVars, sendVars
<1> QED BY <1>1, <1>7, <1>8, <1>9

LEMMA TakeInv ==
    ASSUME IInv, NEW w \in Workers, Take(w)
    PROVE  IInv'
<1> DEFINE m == buffer[w]
<1> USE DEF IInv
<1>1. /\ pc[w] = "idle" /\ m \in Msgs \ Malformed /\ Enter(w, m)
      /\ UNCHANGED <<attempt, rejected, token, ctxDone, botxVars, disruptions,
                     sendVars, gaveUp, results>>
    BY DEF Take
<1>2. BaseInv'
    BY <1>1, EnterBase
<1>3. TypeOK'
    BY <1>2 DEF Take, TypeOK, BaseInv
<1>4. DeliveryInv'
    <2>1. /\ cur'[w] = m /\ buffer'[w] = None
          /\ InHandler(w)'
          /\ \A v \in Workers : v # w => /\ pc'[v] = pc[v]
                                        /\ cur'[v] = cur[v]
                                        /\ buffer'[v] = buffer[v]
        BY DEF Take, Enter, TypeOK, BaseInv, BaseTypeOK, InHandler
    <2> QED BY <1>1, <2>1 DEF Take, DeliveryInv, InHandler
<1>5. AckMeansHandled' /\ DeadMeansGivenUp'
    BY DEF Take, Enter, AckMeansHandled, DeadMeansGivenUp, sendVars
<1> QED BY <1>2, <1>3, <1>4, <1>5

(* The invariant is inductive: one case per action of Next. *)
LEMMA NextInv == IInv /\ [Next]_vars => IInv'
<1> SUFFICES ASSUME IInv, [Next]_vars PROVE IInv'
    OBVIOUS
<1> USE DEF IInv
<1>1. ASSUME NEW m \in Msgs, Publish(m) PROVE IInv'
    <2>1. BaseInv'
        BY <1>1, StutterBase DEF Publish
    <2>2. DeliveryInv'
        BY <1>1
        DEF Publish, DeliveryInv, InHandler, baseVars, handlerVars
    <2> QED BY <1>1, <2>1, <2>2, BrokerStep
        DEF Publish, TypeOK, baseVars, handlerVars
<1>2. ASSUME NEW w \in Workers, NEW m \in Msgs, Deliver(w, m) PROVE IInv'
    <2>1. BaseInv'
        BY <1>2, StutterBase DEF Deliver
    <2>2. ~InHandler(w) \/ cur[w] # None
        BY HandlerAssumption DEF BaseInv, HandlerInv
    <2>3. DeliveryInv'
        BY <1>2, <2>2
        DEF Deliver, DeliveryInv, InHandler, TypeOK, baseVars, handlerVars
    <2> QED BY <1>2, <2>1, <2>3, BrokerStep
        DEF Deliver, TypeOK, baseVars, handlerVars
<1>3. ASSUME NEW w \in Workers, Start(w) PROVE IInv'
    <2>1. BaseInv'
        BY <1>3, BootBase DEF Start
    <2>2. TypeOK'
        BY <1>3, <2>1 DEF Start, TypeOK, BaseInv
    <2>3. DeliveryInv'
        BY <1>3
        DEF Start, Boot, DeliveryInv, InHandler, TypeOK, BaseInv, BaseTypeOK
    <2>4. AckMeansHandled' /\ DeadMeansGivenUp'
        BY <1>3
        DEF Start, Boot, AckMeansHandled, DeadMeansGivenUp, historyVars,
            sendVars
    <2> QED BY <2>1, <2>2, <2>3, <2>4
<1>4. ASSUME NEW w \in Workers, HandlerStep(w) /\ UNCHANGED brokerVars
      PROVE  IInv'
    BY <1>4, HandlerStepBroker
<1>5. ASSUME NEW w \in Workers, Discard(w) PROVE IInv'
    <2>1. BaseInv'
        BY <1>5, StutterBase DEF Discard
    <2>2. {held[w]} \ {None} \subseteq Malformed
        BY <1>5 DEF Discard, DeliveryInv
    <2>3. DeliveryInv'
        BY <1>5
        DEF Discard, DeliveryInv, InHandler, TypeOK, baseVars, handlerVars
    <2> QED BY <1>5, <2>1, <2>2, <2>3, BrokerStep
        DEF Discard, TypeOK, baseVars, handlerVars
<1>6. ASSUME NEW w \in Workers, Take(w) PROVE IInv'
    BY <1>6, TakeInv
<1>7. ASSUME NEW w \in Workers, Settle(w) PROVE IInv'
    BY <1>7, SettleInv
<1>8. ASSUME NEW w \in Workers, Stop(w) PROVE IInv'
    BY <1>8, ExitBroker DEF Stop
<1>9. ASSUME NEW w \in Workers, Crash(w) PROVE IInv'
    BY <1>9, ExitBroker DEF Crash
<1>10. ASSUME NEW w \in Workers, LoseConnection(w) PROVE IInv'
    <2>1. BaseInv'
        BY <1>10, DisruptBase DEF LoseConnection
    <2>2. /\ ready' \subseteq Msgs
          /\ held' \in [Workers -> Msgs \cup {None}]
          /\ conn' \in [Workers -> BOOLEAN]
          /\ held'[w] = None /\ ~conn'[w]
          /\ \A v \in Workers : v # w => /\ held'[v] = held[v]
                                        /\ conn'[v] = conn[v]
        BY <1>10, DisconnectType DEF LoseConnection
    <2>3. pc[w] # "down"
        BY <1>10 DEF LoseConnection, DeliveryInv
    <2>4. DeliveryInv'
        BY <1>10, <2>2, <2>3
        DEF LoseConnection, handlerVars, DeliveryInv, InHandler
    <2> QED BY <1>10, <2>1, <2>2, <2>4, BrokerStep
        DEF LoseConnection, Disconnect, TypeOK, handlerVars
<1>11. ASSUME Environment, UNCHANGED brokerVars PROVE IInv'
    <2>1. BaseInv'
        BY <1>11, EnvironmentBase
    <2>2. UNCHANGED <<pc, cur, historyVars>>
        BY <1>11
        DEF Environment, Signal, Revoke, CacheExpires, handlerVars
    <2>3. DeliveryInv'
        BY <1>11, <2>2 DEF brokerVars, DeliveryInv, InHandler
    <2> QED BY <1>11, <2>1, <2>2, <2>3, BrokerStep DEF brokerVars, TypeOK
<1>12. CASE UNCHANGED vars
    <2>1. BaseInv'
        BY <1>12, StutterBase DEF vars
    <2>2. UNCHANGED <<pc, cur, historyVars>> /\ UNCHANGED brokerVars
        BY <1>12 DEF vars, baseVars, handlerVars
    <2>3. DeliveryInv'
        BY <2>2 DEF brokerVars, DeliveryInv, InHandler
    <2> QED BY <2>1, <2>2, <2>3, BrokerStep DEF brokerVars, TypeOK
<1> QED
    BY <1>1, <1>2, <1>3, <1>4, <1>5, <1>6, <1>7, <1>8, <1>9, <1>10, <1>11,
       <1>12
    DEF Next, Work

THEOREM InvariantHolds == Spec => []IInv
BY InitInv, NextInv, PTL DEF Spec

-----------------------------------------------------------------------------
(* Every variable keeps its type. *)
THEOREM TypeCorrect == Spec => []TypeOK
<1>1. IInv => TypeOK
    BY DEF IInv
<1> QED BY <1>1, InvariantHolds, PTL

(* What the queue forgets on an ack was accepted by BotX or declined on    *)
(* purpose, whatever crashed, disconnected or was shut down.               *)
THEOREM AckSafe == Spec => []AckMeansHandled
<1>1. IInv => AckMeansHandled
    BY DEF IInv
<1> QED BY <1>1, InvariantHolds, PTL

(* Only messages no handler can read or a worker gave up while it was not  *)
(* shutting down are dropped.                                              *)
THEOREM DeadSafe == Spec => []DeadMeansGivenUp
<1>1. IInv => DeadMeansGivenUp
    BY DEF IInv
<1> QED BY <1>1, InvariantHolds, PTL

(* A message accepted twice had an answer lost or was handed out again. *)
THEOREM DuplicateSafe == Spec => []DuplicateExplained
<1>1. IInv => DuplicateExplained
    BY DEF IInv, BaseInv
<1> QED BY <1>1, InvariantHolds, PTL

(* A "sent" result on a reply queue is true. *)
THEOREM ResultSafe == Spec => []SentIsTrue
<1>1. IInv => SentIsTrue
    BY DEF IInv, BaseInv
<1> QED BY <1>1, InvariantHolds, PTL

(* Every step keeps what is known of tokens, and refreshes as it should.   *)
LEMMA NextToken ==
    ASSUME IInv, IInv', TokenInv, [Next]_vars
    PROVE  TokenInv' /\ \A w \in Workers : RefreshesAnew(w)
<1> DEFINE Goal == TokenInv' /\ \A w \in Workers : RefreshesAnew(w)
<1> USE DEF IInv, BaseInv
<1>0. /\ \A w \in Workers : Trying(w) => BotOf[cur[w]] \in Bots
      /\ \A b \in Bots : epoch[b] \in Nat
    BY TokenNumbers DEF HandlerInv, BaseTypeOK
<1>1. ASSUME NEW w \in Workers, HandlerStep(w) PROVE Goal
    BY <1>1, TokenStep
<1>2. ASSUME NEW w \in Workers, Take(w) PROVE Goal
    <2>1. /\ pc[w] = "idle" /\ UNCHANGED <<token, cache, epoch, rejected>>
          /\ \A v \in Workers : v # w => pc'[v] = pc[v] /\ cur'[v] = cur[v]
          /\ pc'[w] # "refresh"
        BY <1>2 DEF Take, Enter, BaseTypeOK, botxVars
    <2> QED BY <1>0, <2>1, TokenKept
<1>3. ASSUME NEW w \in Workers, Settle(w) \/ Stop(w) \/ Crash(w) PROVE Goal
    <2>1. \E to \in {"idle", "down"} : Leave(w, to)
        BY <1>3 DEF Settle, Stop, Crash, Exit
    <2>2. /\ \A v \in Workers : v # w => /\ pc'[v] = pc[v] /\ cur'[v] = cur[v]
                                         /\ rejected'[v] = rejected[v]
          /\ pc'[w] \notin {"refresh", "attempt"}
        BY <2>1 DEF Leave, BaseTypeOK
    <2>3. \/ token' = token
          \/ token' = [token EXCEPT ![w] = [b \in Bots |-> NoToken]]
        BY <1>3 DEF Settle, Stop, Crash, Exit
    <2>4. \A v \in Workers, b \in Bots : token'[v][b] \in {token[v][b], NoToken}
        <3>1. CASE token' = token
            BY <3>1
        <3>2. CASE token' = [token EXCEPT ![w] = [b \in Bots |-> NoToken]]
            <4>1. \A v \in Workers :
                     token'[v] = IF v = w THEN [b \in Bots |-> NoToken] ELSE token[v]
                BY <3>2 DEF BaseTypeOK
            <4> QED BY <4>1
        <3> QED BY <2>3, <3>1, <3>2
    <2>5. epoch' = epoch /\ cache' = cache
        BY <1>3 DEF Settle, Stop, Crash, botxVars
    <2> QED BY <1>0, <2>2, <2>4, <2>5, TokenKept
<1>4. ASSUME NEW w \in Workers, Start(w) PROVE Goal
    <2>1. /\ pc[w] = "down" /\ UNCHANGED <<cur, token, cache, epoch, rejected>>
          /\ \A v \in Workers : v # w => pc'[v] = pc[v]
          /\ pc'[w] # "refresh"
        BY <1>4 DEF Start, Boot, BaseTypeOK, botxVars
    <2> QED BY <1>0, <2>1, TokenKept
<1>5. ASSUME UNCHANGED <<pc, cur, token, rejected>>,
             \A b \in Bots : /\ epoch'[b] = epoch[b] \/ epoch'[b] = epoch[b] + 1
                             /\ cache'[b] \in {cache[b], NoToken}
      PROVE  Goal
    <2>1. \A b \in Bots : epoch[b] <= epoch'[b]
        BY <1>0, <1>5
    <2> QED BY <1>0, <1>5, <2>1, TokenKept
<1>6. ASSUME Environment PROVE Goal
    BY <1>5, <1>6
    DEF Environment, Signal, Revoke, CacheExpires, handlerVars, botxVars, BaseTypeOK
<1>7. CASE UNCHANGED baseVars
    BY <1>5, <1>7 DEF baseVars, handlerVars, botxVars
<1>8. ASSUME NEW w \in Workers, LoseConnection(w) PROVE Goal
    BY <1>5, <1>8 DEF LoseConnection, handlerVars, botxVars
<1>9. ASSUME \/ \E m \in Msgs : Publish(m)
             \/ \E w \in Workers, m \in Msgs : Deliver(w, m)
             \/ \E w \in Workers : Discard(w)
             \/ UNCHANGED vars
      PROVE  Goal
    BY <1>7, <1>9 DEF Publish, Deliver, Discard, vars
<1> QED
    BY <1>1, <1>2, <1>3, <1>4, <1>6, <1>8, <1>9 DEF Next, Work

(* The resend after a 401 uses another token than the one refused, unless  *)
(* the shared cache handed the refused one back (worker.go:320): whatever  *)
(* a worker holds was issued before the API's present token, and the one   *)
(* refused before the one the API gives now.                               *)
THEOREM RefreshSafe == Spec => RefreshedTokenIsNew
<1> DEFINE JInv == IInv /\ TokenInv
           Goal == \A w \in Workers : RefreshesAnew(w)
<1>1. Init => JInv
    BY InitInv, TokenInit DEF Init
<1>2. JInv /\ [Next]_vars => JInv'
    BY NextInv, NextToken
<1>3. JInv /\ [Next]_vars => [Goal]_baseVars
    BY NextInv, NextToken
<1>4. RefreshedTokenIsNew <=> [][Goal]_baseVars
    BY DEF RefreshedTokenIsNew
<1> HIDE DEF JInv, Goal
<1> QED BY <1>1, <1>2, <1>3, <1>4, PTL DEF Spec

-----------------------------------------------------------------------------
(* The queue implements Delivery. *)

LEMMA CustodyInit == Init => CustodyInv
BY DEF Init, BaseInit, CustodyInv, InHandler

(* Where a message is, where nothing but the broker moves it. *)
LEMMA PublishedKept ==
    ASSUME UNCHANGED brokerVars
    PROVE  /\ Unacked' = Unacked
           /\ Published' = Published
           /\ Retired' = Retired
BY DEF brokerVars, Unacked, Published, Retired

(* What the broker waits for an answer on, from one consumer. *)
Owed(w) == {held[w]} \ {None}

(* The broker answers for one delivery: the message goes back to the queue *)
(* or leaves the broker's custody.                                         *)
LEMMA AnswerMoves ==
    ASSUME TypeOK, CustodyInv, NEW w \in Workers,
           held' = [held EXCEPT ![w] = None]
    PROVE  /\ Unacked' = Unacked \ {held[w]}
           /\ \A v \in Workers : held'[v] \in {held[v], None}
           /\ Owed(w) \cap ready = {}
           /\ Owed(w) \subseteq Unacked
<1>1. \A v \in Workers : held'[v] = IF v = w THEN None ELSE held[v]
    BY DEF TypeOK
<1>2. \A m : m \in Unacked' <=> m \in Unacked \ {held[w]}
    BY <1>1 DEF Unacked, CustodyInv
<1> QED BY <1>1, <1>2 DEF CustodyInv, Unacked, Owed

(* Custody, when one consumer's delivery is given back or forgotten. *)
LEMMA AnswerCustody ==
    ASSUME TypeOK, CustodyInv, NEW w \in Workers,
           held' = [held EXCEPT ![w] = None],
           ready' \in {ready, ready \cup Owed(w)},
           acked \subseteq acked', dead \subseteq dead',
           Owed(w) \subseteq ready' \cup acked' \cup dead',
           \A v \in Workers :
               /\ buffer'[v] \in {buffer[v], None}
               /\ InHandler(v)' => InHandler(v) /\ cur'[v] = cur[v]
    PROVE  CustodyInv'
<1>1. /\ Unacked' = Unacked \ {held[w]}
      /\ \A v \in Workers : held'[v] \in {held[v], None}
      /\ held'[w] = None
      /\ \A v \in Workers : held'[v] # None => held[v] # held[w]
    <2>1. \A v \in Workers : held'[v] = IF v = w THEN None ELSE held[v]
        BY DEF TypeOK
    <2> QED BY <2>1, AnswerMoves DEF CustodyInv
<1>2. None \notin Unacked
    BY DEF Unacked
<1>3. Published \subseteq Published'
    BY <1>1, <1>2 DEF Published, Owed
<1>4. ASSUME NEW v \in Workers
      PROVE  /\ held'[v] # None => held'[v] \notin ready'
             /\ \A u \in Workers : u # v /\ held'[u] = held'[v] => held'[v] = None
             /\ buffer'[v] # None => buffer'[v] \in Published'
             /\ InHandler(v)' => cur'[v] \in Published'
    <2>1. held'[v] # None => held'[v] \notin ready'
        BY <1>1 DEF CustodyInv, Owed
    <2>2. \A u \in Workers : u # v /\ held'[u] = held'[v] => held'[v] = None
        BY <1>1 DEF CustodyInv
    <2>3. buffer'[v] # None => buffer'[v] \in Published'
        BY <1>3 DEF CustodyInv
    <2>4. InHandler(v)' => cur'[v] \in Published'
        BY <1>3 DEF CustodyInv
    <2> QED BY <2>1, <2>2, <2>3, <2>4
<1> QED BY <1>4 DEF CustodyInv

(* Steps that leave the broker alone. *)
LEMMA QuietCustody ==
    ASSUME CustodyInv, UNCHANGED brokerVars,
           \A w \in Workers : InHandler(w)' => InHandler(w) /\ cur'[w] = cur[w]
    PROVE  CustodyInv'
BY PublishedKept DEF CustodyInv, brokerVars

LEMMA ExitCustody ==
    ASSUME IInv, CustodyInv, NEW w \in Workers, Exit(w), Disconnect(w),
           buffer' = [buffer EXCEPT ![w] = None]
    PROVE  CustodyInv'
<1>1. /\ pc'[w] = "down"
      /\ \A v \in Workers : v # w => pc'[v] = pc[v] /\ cur'[v] = cur[v]
    BY DEF IInv, BaseInv, BaseTypeOK, Exit, Leave
<1>2. \A v \in Workers : /\ buffer'[v] \in {buffer[v], None}
                         /\ InHandler(v)' => InHandler(v) /\ cur'[v] = cur[v]
    BY <1>1 DEF IInv, TypeOK, InHandler
<1>3. /\ held' = [held EXCEPT ![w] = None]
      /\ ready' = ready \cup Owed(w)
      /\ acked' = acked /\ dead' = dead
    BY DEF Disconnect, Owed
<1> QED BY <1>2, <1>3, AnswerCustody DEF IInv, Owed

LEMMA NextCustody ==
    ASSUME IInv, CustodyInv, [Next]_vars
    PROVE  CustodyInv'
<1> USE DEF IInv, Owed
<1>1. ASSUME NEW m \in Msgs, Publish(m) PROVE CustodyInv'
    <2>1. /\ UNCHANGED <<pc, cur, held, buffer, acked, dead>>
          /\ ready' = ready \cup {m} /\ m \notin Published
        BY <1>1 DEF Publish, baseVars, handlerVars
    <2>2. Published' = Published \cup {m} /\ Unacked' = Unacked
        BY <2>1 DEF Published, Unacked
    <2>3. \A w \in Workers : held[w] # None => held[w] # m
        BY <2>1 DEF Published, Unacked
    <2> QED BY <2>1, <2>2, <2>3 DEF CustodyInv, InHandler
<1>2. ASSUME NEW w \in Workers, NEW m \in Msgs, Deliver(w, m) PROVE CustodyInv'
    <2>1. /\ UNCHANGED <<pc, cur, acked, dead>>
          /\ ready' = ready \ {m} /\ m \in ready /\ held[w] = None
          /\ held'[w] = m /\ buffer'[w] = m
          /\ \A v \in Workers : v # w => /\ held'[v] = held[v]
                                         /\ buffer'[v] = buffer[v]
        BY <1>2 DEF Deliver, TypeOK, baseVars, handlerVars
    <2>2. m # None
        BY HandlerAssumption
    <2>3. Published' = Published
        <3>1. \A x : x \in Unacked' <=> x \in Unacked \cup {m}
            BY <2>1, <2>2 DEF Unacked
        <3> QED BY <2>1, <3>1 DEF Published
    <2>4. m \in Published
        BY <2>1 DEF Published
    <2>5. \A v \in Workers : v # w => held[v] # m
        BY <2>1, <2>2 DEF CustodyInv
    <2> QED BY <2>1, <2>2, <2>3, <2>4, <2>5 DEF CustodyInv, InHandler
<1>3. ASSUME NEW w \in Workers, Start(w) PROVE CustodyInv'
    <2>1. /\ UNCHANGED <<ready, held, buffer, acked, dead, cur>>
          /\ pc'[w] = "idle"
          /\ \A v \in Workers : v # w => pc'[v] = pc[v]
        BY <1>3 DEF Start, Boot, BaseInv, BaseTypeOK
    <2>2. Published' = Published
        BY <2>1 DEF Published, Unacked
    <2> QED BY <2>1, <2>2 DEF CustodyInv, InHandler
<1>4. ASSUME NEW w \in Workers, HandlerStep(w), UNCHANGED brokerVars
      PROVE  CustodyInv'
    <2>1. /\ cur' = cur /\ InHandler(w)
          /\ \A v \in Workers : v # w => pc'[v] = pc[v]
        BY <1>4, HandlerStepFrame DEF BaseInv
    <2>2. \A v \in Workers : InHandler(v)' => InHandler(v) /\ cur'[v] = cur[v]
        BY <2>1 DEF InHandler
    <2> QED BY <1>4, <2>2, QuietCustody
<1>5. ASSUME NEW w \in Workers, Discard(w) PROVE CustodyInv'
    <2>1. \A v \in Workers : /\ buffer'[v] \in {buffer[v], None}
                             /\ InHandler(v)' => InHandler(v) /\ cur'[v] = cur[v]
        BY <1>5 DEF Discard, TypeOK, InHandler, baseVars, handlerVars
    <2>2. /\ held' = [held EXCEPT ![w] = None]
          /\ ready' = ready /\ acked' = acked /\ dead' = dead \cup Owed(w)
        BY <1>5 DEF Discard
    <2> QED BY <2>1, <2>2, AnswerCustody
<1>6. ASSUME NEW w \in Workers, Take(w) PROVE CustodyInv'
    <2>1. /\ cur'[w] = buffer[w] /\ buffer[w] \in Msgs /\ buffer'[w] = None
          /\ UNCHANGED <<ready, held, acked, dead>>
          /\ \A v \in Workers : v # w => /\ pc'[v] = pc[v]
                                         /\ cur'[v] = cur[v]
                                         /\ buffer'[v] = buffer[v]
        BY <1>6 DEF Take, Enter, TypeOK, BaseInv, BaseTypeOK
    <2>2. Published' = Published
        BY <2>1 DEF Published, Unacked
    <2>3. buffer[w] \in Published
        BY <2>1, HandlerAssumption DEF CustodyInv
    <2> QED BY <2>1, <2>2, <2>3 DEF CustodyInv, InHandler
<1>7. ASSUME NEW w \in Workers, Settle(w) PROVE CustodyInv'
    <2>1. \A v \in Workers : /\ buffer'[v] \in {buffer[v], None}
                             /\ InHandler(v)' => InHandler(v) /\ cur'[v] = cur[v]
        BY <1>7 DEF Settle, Leave, InHandler, BaseInv, BaseTypeOK
    <2>2. /\ held' = [held EXCEPT ![w] = None]
          /\ ready' \in {ready, ready \cup Owed(w)}
          /\ acked \subseteq acked' /\ dead \subseteq dead'
          /\ Owed(w) \subseteq ready' \cup acked' \cup dead'
        BY <1>7 DEF Settle, AfterAnswer
    <2> QED BY <2>1, <2>2, AnswerCustody
<1>8. ASSUME NEW w \in Workers, Stop(w) \/ Crash(w) PROVE CustodyInv'
    BY <1>8, ExitCustody DEF Stop, Crash
<1>9. ASSUME NEW w \in Workers, LoseConnection(w) PROVE CustodyInv'
    <2>1. \A v \in Workers : /\ buffer'[v] \in {buffer[v], None}
                             /\ InHandler(v)' => InHandler(v) /\ cur'[v] = cur[v]
        BY <1>9 DEF LoseConnection, InHandler, handlerVars
    <2>2. /\ held' = [held EXCEPT ![w] = None]
          /\ ready' = ready \cup Owed(w) /\ acked' = acked /\ dead' = dead
        BY <1>9 DEF LoseConnection, Disconnect
    <2> QED BY <2>1, <2>2, AnswerCustody
<1>10. ASSUME Environment, UNCHANGED brokerVars PROVE CustodyInv'
    <2>1. UNCHANGED <<pc, cur>>
        BY <1>10 DEF Environment, Signal, Revoke, CacheExpires, handlerVars
    <2> QED BY <1>10, <2>1, QuietCustody DEF InHandler
<1>11. CASE UNCHANGED vars
    <2>1. UNCHANGED <<pc, cur>> /\ UNCHANGED brokerVars
        BY <1>11 DEF vars, baseVars, handlerVars
    <2> QED BY <2>1, QuietCustody DEF InHandler
<1> QED
    BY <1>1, <1>2, <1>3, <1>4, <1>5, <1>6, <1>7, <1>8, <1>9, <1>10, <1>11
    DEF Next, Work

(* What Delivery calls known and settled. *)
LEMMA DeliveryTerms ==
    /\ D!Known = Published
    /\ D!Settled = Handled
BY DEF D!Known, D!Settled, Published, Retired, Handled

(* A step the broker does not take part in submits nothing and retires     *)
(* nothing: one message may be accepted, or answered, or both.             *)
LEMMA HandlerDelivers ==
    ASSUME NEW m \in Published \cap (Msgs \ Malformed),
           delivered' \in {delivered, delivered \cup {m}},
           (gaveUp \cup declined)' \in
               {gaveUp \cup declined, gaveUp \cup declined \cup {m}},
           (ready \cup Unacked)' = ready \cup Unacked, Retired' = Retired
    PROVE  [D!Next]_(D!vars)
<1>1. m \in D!Known \ Malformed /\ m \in Msgs
    BY DeliveryTerms
<1>2. CASE delivered' = delivered /\ (gaveUp \cup declined)' = gaveUp \cup declined
    BY <1>2 DEF D!vars
<1>3. CASE delivered' = delivered \cup {m}
           /\ (gaveUp \cup declined)' = gaveUp \cup declined
    BY <1>1, <1>3 DEF D!Next, D!Accept
<1>4. CASE delivered' = delivered
           /\ (gaveUp \cup declined)' = gaveUp \cup declined \cup {m}
    BY <1>1, <1>4 DEF D!Next, D!Answer
<1>5. CASE delivered' = delivered \cup {m}
           /\ (gaveUp \cup declined)' = gaveUp \cup declined \cup {m}
    BY <1>1, <1>5 DEF D!Next, D!AcceptAndAnswer
<1> QED BY <1>2, <1>3, <1>4, <1>5

(* The answer to a delivery retires a settled message or puts it back.     *)
LEMMA AnswerRetires ==
    ASSUME TypeOK, CustodyInv, NEW w \in Workers,
           held' = [held EXCEPT ![w] = None],
           \/ ready' = ready \cup Owed(w) /\ Retired' = Retired
           \/ ready' = ready /\ Retired' = Retired \cup Owed(w) /\ Owed(w) \subseteq Handled,
           UNCHANGED <<delivered, gaveUp, declined>>
    PROVE  [D!Next]_(D!vars)
<1> USE DEF Owed
<1>1. /\ Unacked' = Unacked \ {held[w]}
      /\ Owed(w) \cap ready = {} /\ Owed(w) \subseteq Unacked
      /\ None \notin Unacked
    BY AnswerMoves DEF Unacked
<1>2. CASE ready' = ready \cup Owed(w) /\ Retired' = Retired
    <2>1. (ready \cup Unacked)' = ready \cup Unacked
        BY <1>1, <1>2
    <2> QED BY <1>2, <2>1 DEF D!vars
<1>3. CASE ready' = ready /\ Retired' = Retired \cup Owed(w) /\ Owed(w) \subseteq Handled
    <2>1. (ready \cup Unacked)' = (ready \cup Unacked) \ Owed(w)
        BY <1>1, <1>3
    <2>2. Owed(w) \subseteq (ready \cup Unacked) \cap D!Settled
        BY <1>1, <1>3, DeliveryTerms
    <2>3. Owed(w) \in SUBSET Msgs
        BY DEF TypeOK
    <2> QED BY <1>3, <2>1, <2>2, <2>3 DEF D!Next, D!Retire
<1> QED BY <1>2, <1>3

LEMMA DeliveryStep ==
    ASSUME IInv, CustodyInv, [Next]_vars
    PROVE  [D!Next]_(D!vars)
<1> USE DEF IInv, Owed
<1>0. ASSUME UNCHANGED brokerVars, UNCHANGED <<delivered, gaveUp, declined>>
      PROVE  UNCHANGED D!vars
    BY <1>0, PublishedKept DEF D!vars, brokerVars
<1>1. ASSUME NEW m \in Msgs, Publish(m) PROVE D!Next
    <2>1. /\ ready' = ready \cup {m} /\ m \notin Published
          /\ UNCHANGED <<held, acked, dead, delivered, gaveUp, declined>>
        BY <1>1 DEF Publish, baseVars, historyVars, sendVars
    <2>2. Unacked' = Unacked /\ Retired' = Retired
        BY <2>1 DEF Unacked, Retired
    <2>3. (ready \cup Unacked)' = (ready \cup Unacked) \cup {m}
        BY <2>1, <2>2
    <2> QED BY <2>1, <2>2, <2>3, DeliveryTerms DEF D!Next, D!Submit
<1>2. ASSUME NEW w \in Workers, NEW m \in Msgs, Deliver(w, m)
      PROVE  UNCHANGED D!vars
    <2>1. /\ ready' = ready \ {m} /\ m \in ready /\ held[w] = None
          /\ held'[w] = m
          /\ \A v \in Workers : v # w => held'[v] = held[v]
          /\ UNCHANGED <<acked, dead, delivered, gaveUp, declined>>
        BY <1>2 DEF Deliver, TypeOK, baseVars, historyVars, sendVars
    <2>2. m # None
        BY HandlerAssumption
    <2>3. \A x : x \in Unacked' <=> x \in Unacked \cup {m}
        BY <2>1, <2>2 DEF Unacked
    <2>4. (ready \cup Unacked)' = ready \cup Unacked
        BY <2>1, <2>3
    <2> QED BY <2>1, <2>4 DEF D!vars, Retired
<1>3. ASSUME NEW w \in Workers, Start(w) PROVE UNCHANGED D!vars
    <2>1. /\ UNCHANGED <<ready, held, acked, dead>>
          /\ UNCHANGED <<delivered, gaveUp, declined>>
        BY <1>3 DEF Start, Boot, historyVars, sendVars
    <2> QED BY <2>1 DEF D!vars, Unacked, Retired
<1>4. ASSUME NEW w \in Workers, HandlerStep(w), UNCHANGED brokerVars
      PROVE  [D!Next]_(D!vars)
    <2>1. /\ declined' = declined
          /\ InHandler(w)
          /\ delivered \subseteq delivered' /\ gaveUp \subseteq gaveUp'
          /\ delivered' \subseteq delivered \cup {cur[w]}
          /\ gaveUp' \subseteq gaveUp \cup {cur[w]}
        BY <1>4, HandlerStepFrame DEF BaseInv
    <2>2. cur[w] \in Published \cap (Msgs \ Malformed)
        BY <2>1 DEF CustodyInv, BaseInv, HandlerInv
    <2>3. /\ delivered' \in {delivered, delivered \cup {cur[w]}}
          /\ gaveUp' \in {gaveUp, gaveUp \cup {cur[w]}}
        BY <2>1
    <2>4. (gaveUp \cup declined)' \in
              {gaveUp \cup declined, gaveUp \cup declined \cup {cur[w]}}
        BY <2>1, <2>3
    <2>5. (ready \cup Unacked)' = ready \cup Unacked /\ Retired' = Retired
        BY <1>4, PublishedKept DEF brokerVars
    <2> QED BY <2>2, <2>3, <2>4, <2>5, HandlerDelivers
<1>5. ASSUME NEW w \in Workers, Discard(w) PROVE [D!Next]_(D!vars)
    <2>1. /\ held' = [held EXCEPT ![w] = None] /\ ready' = ready
          /\ Retired' = Retired \cup Owed(w)
          /\ UNCHANGED <<delivered, gaveUp, declined>>
        BY <1>5 DEF Discard, Retired, baseVars, historyVars, sendVars
    <2>2. Owed(w) \subseteq Handled
        BY <1>5 DEF Discard, DeliveryInv, Handled
    <2> QED BY <2>1, <2>2, AnswerRetires
<1>6. ASSUME NEW w \in Workers, Take(w) PROVE [D!Next]_(D!vars)
    <2> DEFINE m == buffer[w]
    <2>1. /\ m \in Msgs \ Malformed
          /\ declined' \in {declined, declined \cup {m}}
          /\ UNCHANGED <<delivered, gaveUp, ready, held, acked, dead>>
        BY <1>6 DEF Take, Enter, sendVars
    <2>2. m \in Published
        BY <2>1, HandlerAssumption DEF CustodyInv
    <2>3. (ready \cup Unacked)' = ready \cup Unacked /\ Retired' = Retired
        BY <2>1 DEF Unacked, Retired
    <2>4. (gaveUp \cup declined)' \in
              {gaveUp \cup declined, gaveUp \cup declined \cup {m}}
        BY <2>1
    <2> HIDE DEF m
    <2> QED BY <2>1, <2>2, <2>3, <2>4, HandlerDelivers
<1>7. ASSUME NEW w \in Workers, Settle(w) PROVE [D!Next]_(D!vars)
    <2>1. /\ held' = [held EXCEPT ![w] = None]
          /\ UNCHANGED <<delivered, gaveUp, declined>>
          /\ VerdictJustified(w) /\ verdict[w] \in Verdict
          /\ Owed(w) \subseteq {cur[w]}
        BY <1>7
        DEF Settle, AfterAnswer, historyVars, sendVars, BaseInv, BaseTypeOK,
            HandlerInv, Decided, DeliveryInv, InHandler
    <2>2. CASE Requeue(w) /\ ready' = ready \cup Owed(w) /\ UNCHANGED <<acked, dead>>
        BY <2>1, <2>2, AnswerRetires DEF Retired
    <2>3. CASE /\ Acks(w) \/ ~Requeue(w)
               /\ ready' = ready
               /\ Retired' = Retired \cup Owed(w)
        <3>1. cur[w] \in Handled
            BY <2>1, <2>3
            DEF Acks, ReturnsNil, Requeue, VerdictJustified, Verdict, Handled
        <3> QED BY <2>1, <2>3, <3>1, AnswerRetires
    <2> QED BY <1>7, <2>2, <2>3 DEF Settle, Retired
<1>8. ASSUME NEW w \in Workers, Disconnect(w),
             UNCHANGED <<delivered, gaveUp, declined>>
      PROVE  [D!Next]_(D!vars)
    <2>1. /\ held' = [held EXCEPT ![w] = None]
          /\ ready' = ready \cup Owed(w) /\ Retired' = Retired
        BY <1>8 DEF Disconnect, Retired
    <2> QED BY <1>8, <2>1, AnswerRetires
<1>9. ASSUME NEW w \in Workers, Stop(w) \/ Crash(w) \/ LoseConnection(w)
      PROVE  [D!Next]_(D!vars)
    BY <1>8, <1>9 DEF Stop, Crash, LoseConnection, historyVars, sendVars
<1>10. ASSUME Environment, UNCHANGED brokerVars PROVE UNCHANGED D!vars
    <2>1. UNCHANGED <<delivered, gaveUp, declined>>
        BY <1>10
        DEF Environment, Signal, Revoke, CacheExpires, historyVars, sendVars
    <2> QED BY <1>0, <1>10, <2>1
<1>11. CASE UNCHANGED vars
    BY <1>0, <1>11 DEF vars, baseVars, historyVars, sendVars
<1> QED
    BY <1>1, <1>2, <1>3, <1>4, <1>5, <1>6, <1>7, <1>9, <1>10, <1>11
    DEF Next, Work

LEMMA DeliveryInit == Init => D!Init
BY HandlerAssumption DEF Init, BaseInit, D!Init, Unacked, Retired

(* The queue with its workers keeps the promise of Delivery: whatever is   *)
(* published stays in the broker's custody until BotX accepted it, a live  *)
(* worker decided against it or no worker could read it, through crashes,  *)
(* lost connections and shutdowns (rabbitmq/driver.go:188-194).            *)
THEOREM ImplementsDelivery == Spec => KeepsPromise
<1> DEFINE JInv == IInv /\ CustodyInv
<1>1. Init => JInv
    BY InitInv, CustodyInit
<1>2. JInv /\ [Next]_vars => JInv'
    BY NextInv, NextCustody
<1>3. JInv /\ [Next]_vars => [D!Next]_(D!vars)
    BY DeliveryStep
<1> HIDE DEF JInv
<1> QED BY <1>1, <1>2, <1>3, DeliveryInit, PTL DEF Spec, KeepsPromise, D!Spec
=============================================================================
