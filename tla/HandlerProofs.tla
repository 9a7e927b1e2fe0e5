---------------------------- MODULE HandlerProofs ----------------------------
(***************************************************************************)
(* What the handler's steps preserve, for any number of workers, messages, *)
(* bots and retries.  The proofs about the two drivers rest on these       *)
(* lemmas: each is about one step of the shared state of WorkerHandler.    *)
(***************************************************************************)
EXTENDS WorkerHandler, TLAPS

(* The base state at the start is well typed and satisfies the invariants. *)
LEMMA InitFacts ==
    BaseInit => BaseTypeOK /\ HandlerInv /\ OnceInv
<1> SUFFICES ASSUME BaseInit PROVE BaseTypeOK /\ HandlerInv /\ OnceInv
    OBVIOUS
<1>1. BaseTypeOK
    BY HandlerAssumption
    DEF BaseInit, BaseTypeOK, PC, Verdict, Status, Token, NoToken, FirstToken
<1>2. HandlerInv
    BY DEF BaseInit, HandlerInv, InHandler, Trying, Decided
<1>3. OnceInv
    BY DEF BaseInit, OnceInv, InHandler, Trying
<1> QED BY <1>1, <1>2, <1>3

-----------------------------------------------------------------------------
(* Type correctness of every step of the handler. *)
LEMMA HandlerStepType ==
    ASSUME BaseTypeOK, HandlerInv, NEW w \in Workers, HandlerStep(w)
    PROVE  BaseTypeOK'
<1> DEFINE b == BotOf[cur[w]]
<1>0. /\ Trying(w) => /\ cur[w] \in Msgs
                      /\ b \in Bots
                      /\ token[w][b] \in Token
                      /\ epoch[b] \in Token
                      /\ AuthToken(w, b) \in Token
      /\ InHandler(w) => cur[w] \in Msgs
      /\ NoToken \in Token
    BY HandlerAssumption
    DEF BaseTypeOK, HandlerInv, Trying, InHandler, Token, NoToken, FirstToken,
        AuthToken, StaticToken, CachedToken
<1>auth. ASSUME Trying(w), Authenticate(w)
         PROVE  /\ token' \in [Workers -> [Bots -> Token]]
                /\ cache' \in [Bots -> Token]
    BY <1>0, <1>auth DEF BaseTypeOK, Authenticate
<1>give. ASSUME Trying(w), GiveUp(w)
         PROVE  /\ pc' \in [Workers -> PC]
                /\ attempt' \in [Workers -> 0..RetryCount]
                /\ verdict' \in [Workers -> Verdict]
                /\ gaveUp' \subseteq Msgs
    BY <1>0, <1>give DEF BaseTypeOK, GiveUp, PC, Verdict
<1>fail. ASSUME Trying(w), FailAttempt(w)
         PROVE  /\ pc' \in [Workers -> PC]
                /\ attempt' \in [Workers -> 0..RetryCount]
                /\ verdict' \in [Workers -> Verdict]
                /\ gaveUp' \subseteq Msgs
    <2>1. CASE AttemptsLeft(w)
        <3>1. attempt[w] \in 0..RetryCount /\ attempt[w] < RetryCount
            BY <2>1 DEF BaseTypeOK, AttemptsLeft
        <3>2. attempt[w] + 1 \in 0..RetryCount
            BY <3>1, HandlerAssumption
        <3>3. /\ pc' = [pc EXCEPT ![w] = "backoff"]
              /\ attempt' = [attempt EXCEPT ![w] = @ + 1]
              /\ UNCHANGED <<verdict, gaveUp>>
            BY <1>fail, <2>1 DEF FailAttempt
        <3>4. attempt' \in [Workers -> 0..RetryCount]
            BY <3>2, <3>3 DEF BaseTypeOK
        <3>5. pc' \in [Workers -> PC]
            BY <3>3 DEF BaseTypeOK, PC
        <3> QED BY <3>3, <3>4, <3>5 DEF BaseTypeOK
    <2>2. CASE ~AttemptsLeft(w)
        BY <1>fail, <2>2, <1>give DEF FailAttempt
    <2> QED BY <2>1, <2>2
<1>1. CASE EnsureToken(w)
    <2>1. Trying(w)
        BY <1>1 DEF EnsureToken, Trying
    <2> QED BY <1>1, <2>1, <1>auth
        DEF EnsureToken, BaseTypeOK, historyVars, sendVars, handVars
<1>2. CASE AuthFails(w)
    <2>1. Trying(w)
        BY <1>2 DEF AuthFails, Trying
    <2> QED BY <1>2, <2>1, <1>fail
        DEF AuthFails, BaseTypeOK, botxVars, sendVars, handVars
<1>3. CASE BeginSend(w)
    <2>1. Trying(w)
        BY <1>3 DEF BeginSend, Trying
    <2>2. CASE ctxDone[w]
        BY <1>3, <2>1, <2>2, <1>fail
        DEF BeginSend, BaseTypeOK, botxVars, sendVars, handVars
    <2>3. CASE ~ctxDone[w]
        BY <1>3, <2>3
        DEF BeginSend, BaseTypeOK, botxVars, sendVars, handVars, PC
    <2> QED BY <2>2, <2>3
<1>4. CASE SendOK(w)
    <2>1. Trying(w)
        BY <1>4 DEF SendOK, Trying
    <2> QED BY <1>4, <2>1, <1>0
        DEF SendOK, Accept, BaseTypeOK, botxVars, handVars, PC, Verdict
<1>5. CASE SendUnauthorized(w)
    <2>1. Trying(w)
        BY <1>5 DEF SendUnauthorized, Trying
    <2>2. CASE b \in StaticBots \/ rejected[w] # NoToken
        BY <1>5, <2>1, <2>2, <1>give
        DEF SendUnauthorized, BaseTypeOK, botxVars, sendVars, handVars
    <2>3. CASE b \notin StaticBots /\ rejected[w] = NoToken
        BY <1>5, <2>1, <2>3, <1>0
        DEF SendUnauthorized, ClientToken, BaseTypeOK, botxVars, sendVars,
            handVars, PC
    <2> QED BY <2>2, <2>3
<1>6. CASE SendError(w)
    <2>1. Trying(w)
        BY <1>6 DEF SendError, Trying
    <2>2. /\ delivered' \subseteq Msgs
          /\ duplicated' \subseteq Msgs
          /\ unanswered' \subseteq Msgs
        BY <1>6, <2>1, <1>0 DEF SendError, Accept, BaseTypeOK, sendVars
    <2> QED BY <1>6, <2>1, <2>2, <1>fail
        DEF SendError, BaseTypeOK, botxVars, handVars
<1>7. CASE Refresh(w)
    <2>1. Trying(w)
        BY <1>7 DEF Refresh, Trying
    <2> QED BY <1>7, <2>1, <1>auth
        DEF Refresh, BaseTypeOK, historyVars, sendVars, handVars, PC
<1>8. CASE RefreshFails(w)
    <2>1. Trying(w)
        BY <1>8 DEF RefreshFails, Trying
    <2> QED BY <1>8, <2>1, <1>give
        DEF RefreshFails, BaseTypeOK, botxVars, sendVars, handVars
<1>9. CASE BackoffElapses(w)
    BY <1>9, <1>0
    DEF BackoffElapses, BaseTypeOK, botxVars, historyVars, sendVars, handVars,
        PC
<1>10. CASE BackoffCancelled(w)
    BY <1>10
    DEF BackoffCancelled, BaseTypeOK, botxVars, historyVars, sendVars,
        handVars, PC, Verdict
<1>11. CASE Report(w)
    <2>1. InHandler(w)
        BY <1>11 DEF Report, InHandler
    <2>2. ResultStatus(verdict[w]) \in Status
        BY <1>11
        DEF Report, HandlerInv, Decided, VerdictJustified, BaseTypeOK, Verdict,
            ResultStatus, Status
    <2>3. results' \subseteq (Msgs \X Status)
        BY <1>11, <2>1, <2>2, <1>0 DEF Report, BaseTypeOK
    <2> QED BY <1>11, <2>3
        DEF Report, BaseTypeOK, botxVars, sendVars, handVars, PC
<1> QED
    BY <1>1, <1>2, <1>3, <1>4, <1>5, <1>6, <1>7, <1>8, <1>9, <1>10, <1>11
    DEF HandlerStep
-----------------------------------------------------------------------------
(* What a step of one handler leaves alone, and how the history grows: the *)
(* step knows of no message but its own, which stays in its hands.         *)
LEMMA HandlerStepFrame ==
    ASSUME BaseTypeOK, NEW w \in Workers, HandlerStep(w)
    PROVE  /\ UNCHANGED <<cur, ctxDone, declined, handedOut, redelivered,
                         disruptions>>
           /\ \A v \in Workers : v # w => /\ pc'[v] = pc[v]
                                         /\ verdict'[v] = verdict[v]
           /\ InHandler(w) /\ InHandler(w)'
           /\ Trying(w)' => Trying(w)
           /\ delivered \subseteq delivered'
           /\ delivered' \subseteq delivered \cup {cur[w]}
           /\ gaveUp \subseteq gaveUp'
           /\ gaveUp' \subseteq gaveUp \cup {cur[w]}
           /\ unanswered \subseteq unanswered'
           /\ unanswered' \subseteq unanswered \cup {cur[w]}
<1> USE DEF InHandler, Trying, BaseTypeOK, botxVars, historyVars, sendVars,
            handVars
<1>give. ASSUME GiveUp(w)
         PROVE  /\ \A v \in Workers : v # w => /\ pc'[v] = pc[v]
                                              /\ verdict'[v] = verdict[v]
                /\ pc'[w] = "report"
                /\ gaveUp \subseteq gaveUp'
                /\ gaveUp' \subseteq gaveUp \cup {cur[w]}
    BY <1>give DEF GiveUp
<1>fail. ASSUME FailAttempt(w)
         PROVE  /\ \A v \in Workers : v # w => /\ pc'[v] = pc[v]
                                              /\ verdict'[v] = verdict[v]
                /\ pc'[w] \in {"backoff", "report"}
                /\ gaveUp \subseteq gaveUp'
                /\ gaveUp' \subseteq gaveUp \cup {cur[w]}
    BY <1>fail, <1>give DEF FailAttempt
<1>1. CASE EnsureToken(w)
    BY <1>1 DEF EnsureToken
<1>2. CASE AuthFails(w)
    BY <1>2, <1>fail DEF AuthFails
<1>3. CASE BeginSend(w)
    BY <1>3, <1>fail DEF BeginSend
<1>4. CASE SendOK(w)
    BY <1>4 DEF SendOK, Accept
<1>5. CASE SendUnauthorized(w)
    BY <1>5, <1>give DEF SendUnauthorized
<1>6. CASE SendError(w)
    <2>1. /\ delivered \subseteq delivered'
          /\ delivered' \subseteq delivered \cup {cur[w]}
          /\ unanswered \subseteq unanswered'
          /\ unanswered' \subseteq unanswered \cup {cur[w]}
        BY <1>6 DEF SendError, Accept
    <2> QED BY <1>6, <2>1, <1>fail DEF SendError
<1>7. CASE Refresh(w)
    BY <1>7 DEF Refresh
<1>8. CASE RefreshFails(w)
    BY <1>8, <1>give DEF RefreshFails
<1>9. CASE BackoffElapses(w)
    BY <1>9 DEF BackoffElapses
<1>10. CASE BackoffCancelled(w)
    BY <1>10 DEF BackoffCancelled
<1>11. CASE Report(w)
    BY <1>11 DEF Report
<1> QED
    BY <1>1, <1>2, <1>3, <1>4, <1>5, <1>6, <1>7, <1>8, <1>9, <1>10, <1>11
    DEF HandlerStep

(* A handler that ends its retry loop with a verdict ends it with one that *)
(* is justified.                                                           *)
LEMMA HandlerStepVerdict ==
    ASSUME BaseTypeOK, HandlerInv, NEW w \in Workers, HandlerStep(w),
           Decided(w)'
    PROVE  /\ VerdictJustified(w)'
           /\ pc'[w] = "report" => verdict'[w] # "aborted"
<1> USE DEF Decided, VerdictJustified, BaseTypeOK, botxVars, historyVars,
            sendVars, handVars
<1>give. ASSUME GiveUp(w), UNCHANGED <<cur, ctxDone>>
         PROVE  /\ VerdictJustified(w)'
                /\ pc'[w] = "report" => verdict'[w] # "aborted"
    BY <1>give DEF GiveUp
<1>fail. ASSUME FailAttempt(w), UNCHANGED <<cur, ctxDone>>
         PROVE  /\ VerdictJustified(w)'
                /\ pc'[w] = "report" => verdict'[w] # "aborted"
    BY <1>fail, <1>give DEF FailAttempt
<1>1. CASE EnsureToken(w)
    BY <1>1 DEF EnsureToken
<1>2. CASE AuthFails(w)
    BY <1>2, <1>fail DEF AuthFails
<1>3. CASE BeginSend(w)
    BY <1>3, <1>fail DEF BeginSend
<1>4. CASE SendOK(w)
    BY <1>4 DEF SendOK, Accept
<1>5. CASE SendUnauthorized(w)
    BY <1>5, <1>give DEF SendUnauthorized
<1>6. CASE SendError(w)
    BY <1>6, <1>fail DEF SendError
<1>7. CASE Refresh(w)
    BY <1>7 DEF Refresh
<1>8. CASE RefreshFails(w)
    BY <1>8, <1>give DEF RefreshFails
<1>9. CASE BackoffElapses(w)
    BY <1>9 DEF BackoffElapses
<1>10. CASE BackoffCancelled(w)
    BY <1>10 DEF BackoffCancelled
<1>11. CASE Report(w)
    BY <1>11 DEF Report, HandlerInv
<1> QED
    BY <1>1, <1>2, <1>3, <1>4, <1>5, <1>6, <1>7, <1>8, <1>9, <1>10, <1>11
    DEF HandlerStep

(* A handler's step keeps what the handlers know true. *)
LEMMA HandlerStepInv ==
    ASSUME BaseTypeOK, HandlerInv, NEW w \in Workers, HandlerStep(w)
    PROVE  HandlerInv'
<1>0. SUFFICES ASSUME NEW v \in Workers
      PROVE  /\ InHandler(v)' => /\ cur'[v] \in Msgs \ Malformed
                                 /\ cur'[v] \in handedOut'
             /\ Trying(v)' => BotOf[cur'[v]] \in Bots
             /\ Decided(v)' => VerdictJustified(v)'
             /\ pc'[v] = "report" => verdict'[v] # "aborted"
    BY DEF HandlerInv
<1>1. CASE v = w
    <2>1. /\ cur' = cur /\ handedOut' = handedOut
          /\ InHandler(w)
          /\ Trying(w)' => Trying(w)
        BY HandlerStepFrame
    <2>2. Decided(v)' => /\ VerdictJustified(v)'
                         /\ pc'[v] = "report" => verdict'[v] # "aborted"
        BY <1>1, HandlerStepVerdict
    <2> QED BY <1>1, <2>1, <2>2 DEF HandlerInv, Decided
<1>2. CASE v # w
    <2>1. /\ UNCHANGED <<cur, ctxDone, declined, handedOut>>
          /\ pc'[v] = pc[v] /\ verdict'[v] = verdict[v]
          /\ delivered \subseteq delivered'
          /\ gaveUp \subseteq gaveUp'
        BY <1>2, HandlerStepFrame
    <2>2. Decided(v) /\ VerdictJustified(v) => VerdictJustified(v)'
        BY <2>1 DEF VerdictJustified
    <2> QED BY <2>1, <2>2 DEF HandlerInv, InHandler, Trying, Decided
<1> QED BY <1>1, <1>2

(* A message's acceptance in the hands of its own handler is forgotten     *)
(* only when the answer was lost; a second acceptance is by a handler that *)
(* was still trying.                                                       *)
LEMMA HandlerStepAccept ==
    ASSUME BaseTypeOK, NEW w \in Workers, HandlerStep(w)
    PROVE  /\ Trying(w)' => delivered' \subseteq delivered \cup unanswered'
           /\ \/ UNCHANGED duplicated
              \/ /\ Trying(w)
                 /\ duplicated' = duplicated \cup (delivered \cap {cur[w]})
<1> USE DEF Trying, BaseTypeOK, botxVars, historyVars, sendVars, handVars
<1>1. CASE SendOK(w)
    BY <1>1 DEF SendOK, Accept
<1>2. CASE SendError(w)
    BY <1>2 DEF SendError, Accept
<1>3. CASE ~SendOK(w) /\ ~SendError(w)
    BY <1>3
    DEF HandlerStep, EnsureToken, AuthFails, BeginSend, SendUnauthorized,
        Refresh, RefreshFails, BackoffElapses, BackoffCancelled, Report
<1> QED BY <1>1, <1>2, <1>3

(* Only Report publishes, and "sent" only for that verdict. *)
LEMMA HandlerStepResults ==
    ASSUME BaseTypeOK, HandlerInv, NEW w \in Workers, HandlerStep(w),
           NEW m \in Msgs, <<m, "sent">> \in results' \ results
    PROVE  m \in delivered
<1>1. Report(w)
    BY DEF HandlerStep, EnsureToken, AuthFails, BeginSend, SendOK,
           SendUnauthorized, SendError, Refresh, RefreshFails, BackoffElapses,
           BackoffCancelled, historyVars
<1>2. m = cur[w] /\ verdict[w] = "sent"
    BY <1>1 DEF Report, ResultStatus
<1>3. VerdictJustified(w)
    BY <1>1 DEF Report, HandlerInv, Decided
<1> QED BY <1>2, <1>3 DEF VerdictJustified

-----------------------------------------------------------------------------
(* The part of both drivers' inductive invariants that is about the        *)
(* handlers and the history.                                               *)
BaseInv == /\ BaseTypeOK
           /\ HandlerInv
           /\ OnceInv
           /\ DuplicateExplained
           /\ SentIsTrue

LEMMA InitBase == BaseInit => BaseInv
<1> SUFFICES ASSUME BaseInit PROVE DuplicateExplained /\ SentIsTrue
    BY InitFacts DEF BaseInv
<1> QED BY DEF BaseInit, DuplicateExplained, SentIsTrue

LEMMA HandlerStepBase ==
    ASSUME BaseInv, NEW w \in Workers, HandlerStep(w)
    PROVE  BaseInv'
<1> USE DEF BaseInv
<1>1. BaseTypeOK'
    BY HandlerStepType
<1>2. HandlerInv'
    BY HandlerStepInv
<1>0. /\ UNCHANGED <<cur, handedOut, redelivered>>
      /\ \A v \in Workers : v # w => pc'[v] = pc[v]
      /\ InHandler(w)
      /\ Trying(w)' => Trying(w)
      /\ delivered \subseteq delivered'
      /\ delivered' \subseteq delivered \cup {cur[w]}
      /\ unanswered \subseteq unanswered'
    BY HandlerStepFrame
<1>3. OnceInv'
    <2>1. delivered' \subseteq handedOut'
        BY <1>0 DEF OnceInv, HandlerInv
    <2>2. ASSUME NEW u \in Workers, NEW v \in Workers, u # v,
                 InHandler(u)', InHandler(v)', cur'[u] = cur'[v]
          PROVE  cur'[v] \in redelivered'
        BY <1>0, <2>2 DEF OnceInv, InHandler
    <2>3. ASSUME NEW v \in Workers, Trying(v)', cur'[v] \in delivered'
          PROVE  cur'[v] \in unanswered' \cup redelivered'
        <3>1. CASE v = w
            <4>1. delivered' \subseteq delivered \cup unanswered'
                BY <2>3, <3>1, HandlerStepAccept
            <4> QED BY <1>0, <2>3, <3>1, <4>1 DEF OnceInv
        <3>2. CASE v # w
            <4>1. Trying(v) /\ InHandler(v)
                BY <1>0, <2>3, <3>2 DEF Trying, InHandler
            <4>2. CASE cur[v] \in delivered
                BY <1>0, <4>1, <4>2 DEF OnceInv
            <4>3. CASE cur[v] = cur[w]
                BY <1>0, <3>2, <4>1, <4>3 DEF OnceInv
            <4> QED BY <1>0, <2>3, <4>2, <4>3
        <3> QED BY <3>1, <3>2
    <2> QED BY <2>1, <2>2, <2>3 DEF OnceInv
<1>4. DuplicateExplained'
    BY <1>0, HandlerStepAccept DEF OnceInv, DuplicateExplained
<1>5. SentIsTrue'
    BY <1>0, HandlerStepResults DEF SentIsTrue
<1> QED BY <1>1, <1>2, <1>3, <1>4, <1>5

LEMMA EnterBase ==
    ASSUME BaseInv, NEW w \in Workers, pc[w] = "idle",
           NEW m \in Msgs \ Malformed, Enter(w, m),
           UNCHANGED <<attempt, rejected, token, ctxDone, botxVars,
                       disruptions, sendVars, gaveUp, results>>
    PROVE  BaseInv'
<1> USE DEF BaseInv, botxVars, sendVars
<1>0. /\ cur' = [cur EXCEPT ![w] = m]
      /\ handedOut' = handedOut \cup {m}
      /\ redelivered' = redelivered \cup (handedOut \cap {m})
      /\ pc'[w] \in {"report", "attempt"}
      /\ \A v \in Workers : v # w => /\ pc'[v] = pc[v]
                                    /\ verdict'[v] = verdict[v]
                                    /\ cur'[v] = cur[v]
      /\ cur'[w] = m
      /\ declined \subseteq declined'
    BY DEF Enter, BaseTypeOK
<1>1. BaseTypeOK'
    <2>1. /\ pc' \in [Workers -> PC]
          /\ verdict' \in [Workers -> Verdict]
          /\ declined' \subseteq Msgs
        BY DEF Enter, BaseTypeOK, PC, Verdict
    <2>2. /\ cur' \in [Workers -> Msgs \cup {None}]
          /\ handedOut' \subseteq Msgs
          /\ redelivered' \subseteq Msgs
        BY <1>0 DEF BaseTypeOK
    <2> QED BY <2>1, <2>2 DEF BaseTypeOK
<1>2. HandlerInv'
    <2>0. SUFFICES ASSUME NEW v \in Workers
          PROVE  /\ InHandler(v)' => /\ cur'[v] \in Msgs \ Malformed
                                     /\ cur'[v] \in handedOut'
                 /\ Trying(v)' => BotOf[cur'[v]] \in Bots
                 /\ Decided(v)' => VerdictJustified(v)'
                 /\ pc'[v] = "report" => verdict'[v] # "aborted"
        BY DEF HandlerInv
    <2>1. CASE v = w
        <3>1. pc'[w] = "attempt" => BotOf[m] # NoBot
            BY DEF Enter, BaseTypeOK
        <3>2. Trying(w)' => BotOf[m] \in Bots
            BY <1>0, <3>1, HandlerAssumption DEF Trying
        <3>3. pc'[w] = "report" => /\ verdict'[w] \in {"rejected", "dry-run"}
                                  /\ m \in declined'
            BY DEF Enter, BaseTypeOK
        <3> QED BY <1>0, <2>1, <3>2, <3>3 DEF Decided, VerdictJustified
    <2>2. CASE v # w
        <3>1. Decided(v) /\ VerdictJustified(v) => VerdictJustified(v)'
            BY <1>0, <2>2 DEF VerdictJustified
        <3> QED BY <1>0, <2>2, <3>1 DEF HandlerInv, InHandler, Trying, Decided
    <2> QED BY <2>1, <2>2
<1>3. OnceInv'
    <2>1. delivered' \subseteq handedOut'
        BY <1>0 DEF OnceInv
    <2>2. ASSUME NEW u \in Workers, NEW v \in Workers, u # v,
                 InHandler(u)', InHandler(v)', cur'[u] = cur'[v]
          PROVE  cur'[v] \in redelivered'
        BY <1>0, <2>2 DEF OnceInv, HandlerInv, InHandler
    <2>3. ASSUME NEW v \in Workers, Trying(v)', cur'[v] \in delivered'
          PROVE  cur'[v] \in unanswered' \cup redelivered'
        BY <1>0, <2>3 DEF OnceInv, Trying
    <2> QED BY <2>1, <2>2, <2>3 DEF OnceInv
<1>4. DuplicateExplained' /\ SentIsTrue'
    BY <1>0 DEF DuplicateExplained, SentIsTrue
<1> QED BY <1>1, <1>2, <1>3, <1>4

(* The handler is left, in order or because the process ended. *)
LEMMA LeaveBase ==
    ASSUME BaseInv, NEW w \in Workers, NEW to \in {"down", "idle"},
           Leave(w, to),
           token' \in [Workers -> [Bots -> Token]],
           ctxDone' \in [Workers -> BOOLEAN],
           \A v \in Workers : v # w => ctxDone'[v] = ctxDone[v],
           disruptions' \in 0..MaxDisruptions,
           UNCHANGED <<botxVars, historyVars>>
    PROVE  BaseInv'
<1> USE DEF BaseInv, botxVars, historyVars, sendVars, handVars
<1>0. /\ pc'[w] = to
      /\ \A v \in Workers : v # w => /\ pc'[v] = pc[v]
                                    /\ cur'[v] = cur[v]
                                    /\ verdict'[v] = verdict[v]
    BY DEF Leave, BaseTypeOK
<1>1. BaseTypeOK'
    <2>1. /\ pc' \in [Workers -> PC]
          /\ verdict' \in [Workers -> Verdict]
        BY DEF Leave, BaseTypeOK, PC, Verdict
    <2>2. cur' \in [Workers -> Msgs \cup {None}]
        BY DEF Leave, BaseTypeOK
    <2>3. 0 \in 0..RetryCount /\ NoToken \in Token
        BY HandlerAssumption DEF NoToken, Token
    <2>4. /\ attempt' \in [Workers -> 0..RetryCount]
          /\ rejected' \in [Workers -> Token]
        BY <2>3 DEF Leave, BaseTypeOK
    <2> QED BY <2>1, <2>2, <2>4 DEF BaseTypeOK
<1>2. HandlerInv'
    BY <1>0
    DEF HandlerInv, InHandler, Trying, Decided, VerdictJustified
<1>3. OnceInv'
    BY <1>0 DEF OnceInv, InHandler, Trying
<1>4. DuplicateExplained' /\ SentIsTrue'
    BY DEF DuplicateExplained, SentIsTrue
<1> QED BY <1>1, <1>2, <1>3, <1>4

LEMMA DisruptType ==
    ASSUME BaseTypeOK, Disrupt PROVE disruptions' \in 0..MaxDisruptions
<1>1. disruptions \in 0..MaxDisruptions /\ MaxDisruptions \in Nat
    BY HandlerAssumption DEF BaseTypeOK
<1> QED BY <1>1 DEF Disrupt

LEMMA ExitBase ==
    ASSUME BaseInv, NEW w \in Workers, Exit(w),
           Disrupt \/ UNCHANGED disruptions,
           UNCHANGED <<botxVars, historyVars>>
    PROVE  BaseInv'
<1>1. /\ token' \in [Workers -> [Bots -> Token]]
      /\ ctxDone' \in [Workers -> BOOLEAN]
      /\ \A v \in Workers : v # w => ctxDone'[v] = ctxDone[v]
    <2>1. NoToken \in Token
        BY HandlerAssumption DEF NoToken, Token
    <2> QED BY <2>1 DEF Exit, BaseInv, BaseTypeOK
<1>2. disruptions' \in 0..MaxDisruptions
    BY DisruptType DEF BaseInv, BaseTypeOK
<1>3. Leave(w, "down")
    BY DEF Exit
<1> QED BY <1>1, <1>2, <1>3, LeaveBase

(* Steps that touch neither a message in a handler nor the history: a boot,*)
(* a signal, a disruption the driver models, the BotX API and the cache.   *)
LEMMA QuietBase ==
    ASSUME BaseInv,
           UNCHANGED <<cur, attempt, rejected, verdict, token, historyVars>>,
           \/ UNCHANGED pc
           \/ \E w \in Workers : /\ pc[w] = "down"
                                 /\ pc' = [pc EXCEPT ![w] = "idle"],
           ctxDone' \in [Workers -> BOOLEAN],
           \A w \in Workers : ctxDone[w] => ctxDone'[w],
           epoch' \in [Bots -> 1..MaxEpoch],
           cache' \in [Bots -> Token],
           Disrupt \/ UNCHANGED disruptions
    PROVE  BaseInv'
<1> USE DEF BaseInv, historyVars, sendVars, handVars
<1>0. /\ pc' \in [Workers -> PC]
      /\ \A w \in Workers : \/ pc'[w] = pc[w]
                            \/ pc'[w] \in {"down", "idle"}
    BY DEF BaseTypeOK, PC
<1>1. BaseTypeOK'
    BY <1>0, DisruptType DEF BaseTypeOK
<1>2. HandlerInv'
    BY <1>0 DEF HandlerInv, InHandler, Trying, Decided, VerdictJustified
<1>3. OnceInv'
    BY <1>0 DEF OnceInv, InHandler, Trying
<1>4. DuplicateExplained' /\ SentIsTrue'
    BY DEF DuplicateExplained, SentIsTrue
<1> QED BY <1>1, <1>2, <1>3, <1>4

LEMMA BootBase ==
    ASSUME BaseInv, NEW w \in Workers, Boot(w)
    PROVE  BaseInv'
BY QuietBase DEF Boot, BaseInv, BaseTypeOK, botxVars

LEMMA StutterBase ==
    ASSUME BaseInv, UNCHANGED baseVars
    PROVE  BaseInv'
BY QuietBase DEF BaseInv, BaseTypeOK, baseVars, handlerVars, botxVars

LEMMA DisruptBase ==
    ASSUME BaseInv, UNCHANGED <<handlerVars, botxVars, historyVars>>,
           Disrupt \/ UNCHANGED disruptions
    PROVE  BaseInv'
BY QuietBase DEF BaseInv, BaseTypeOK, handlerVars, botxVars

LEMMA EnvironmentBase ==
    ASSUME BaseInv, Environment
    PROVE  BaseInv'
<1> USE DEF BaseInv, BaseTypeOK
<1>1. CASE \E w \in Workers : Signal(w)
    BY <1>1, QuietBase DEF Signal, botxVars
<1>2. CASE \E b \in Bots : Revoke(b)
    <2>1. PICK b \in Bots : Revoke(b)
        BY <1>2
    <2>2. epoch[b] + 1 \in 1..MaxEpoch
        BY <2>1, HandlerAssumption DEF Revoke
    <2> QED BY <2>1, <2>2, QuietBase DEF Revoke, handlerVars
<1>3. CASE \E b \in Bots : CacheExpires(b)
    <2>1. NoToken \in Token
        BY HandlerAssumption DEF NoToken, Token
    <2> QED BY <1>3, <2>1, QuietBase DEF CacheExpires, handlerVars
<1> QED BY <1>1, <1>2, <1>3 DEF Environment

-----------------------------------------------------------------------------
(* A token comes from the API, the configuration or the cache: none is     *)
(* ahead of what the API accepts, and the one refused is behind it.        *)
TokenInv ==
    /\ \A w \in Workers, b \in Bots : token[w][b] <= epoch[b]
    /\ \A b \in Bots : cache[b] <= epoch[b]
    /\ \A w \in Workers : pc[w] = "refresh" =>
           BotOf[cur[w]] \notin StaticBots /\ rejected[w] < epoch[BotOf[cur[w]]]

LEMMA TokenInit == BaseInit => TokenInv
<1> SUFFICES ASSUME BaseInit PROVE TokenInv
    OBVIOUS
<1>1. \A w \in Workers, b \in Bots : token[w][b] = 0 /\ epoch[b] = 1
    BY DEF BaseInit, NoToken, FirstToken
<1>2. \A b \in Bots : cache[b] = 0 /\ epoch[b] = 1
    BY DEF BaseInit, NoToken, FirstToken
<1>3. \A w \in Workers : pc[w] = "down"
    BY DEF BaseInit
<1> QED BY <1>1, <1>2, <1>3 DEF TokenInv

(* The numbers that tokens are.                                            *)
LEMMA TokenNumbers ==
    ASSUME BaseTypeOK
    PROVE  /\ \A w \in Workers : rejected[w] \in Nat
           /\ \A w \in Workers, b \in Bots : token[w][b] \in Nat
           /\ \A b \in Bots : cache[b] \in Nat /\ epoch[b] \in Nat \ {0}
BY HandlerAssumption DEF BaseTypeOK, Token

(* A step that gives no handler a token: the API's tokens may have moved   *)
(* on, tokens may be forgotten, a handler may be entered or left.          *)
LEMMA TokenKept ==
    ASSUME BaseTypeOK, BaseTypeOK', TokenInv,
           \A w \in Workers, b \in Bots : token'[w][b] \in {token[w][b], NoToken},
           \A b \in Bots : cache'[b] \in {cache[b], NoToken} /\ epoch[b] <= epoch'[b],
           \A w \in Workers : Trying(w) => BotOf[cur[w]] \in Bots,
           \A w \in Workers :
               \/ pc'[w] = pc[w] /\ cur'[w] = cur[w] /\ rejected'[w] = rejected[w]
               \/ pc'[w] # "refresh" /\ (pc[w] = "refresh" => pc'[w] # "attempt")
    PROVE  TokenInv' /\ \A w \in Workers : RefreshesAnew(w)
<1>0. /\ \A w \in Workers : rejected[w] \in Nat
      /\ \A w \in Workers, b \in Bots : token[w][b] \in Nat
      /\ \A b \in Bots : cache[b] \in Nat /\ epoch[b] \in Nat /\ epoch'[b] \in Nat
    BY TokenNumbers DEF BaseTypeOK
<1>1. \A w \in Workers, b \in Bots : token'[w][b] <= epoch'[b]
    BY <1>0 DEF TokenInv, NoToken
<1>2. \A b \in Bots : cache'[b] <= epoch'[b]
    BY <1>0 DEF TokenInv, NoToken
<1>3. ASSUME NEW w \in Workers, pc'[w] = "refresh"
      PROVE  BotOf[cur'[w]] \notin StaticBots /\ rejected'[w] < epoch'[BotOf[cur'[w]]]
    <2>1. pc[w] = "refresh" /\ cur'[w] = cur[w] /\ rejected'[w] = rejected[w]
        BY <1>3
    <2>2. BotOf[cur[w]] \in Bots \ StaticBots /\ rejected[w] < epoch[BotOf[cur[w]]]
        BY <2>1 DEF TokenInv, Trying
    <2> QED BY <1>0, <2>1, <2>2
<1>4. ASSUME NEW w \in Workers PROVE RefreshesAnew(w)
    BY <1>4 DEF RefreshesAnew
<1> QED BY <1>1, <1>2, <1>3, <1>4 DEF TokenInv

(* authenticate never gives a token that is ahead of the API, and gives a  *)
(* bot with a secret what the cache holds, or else the API's own.          *)
LEMMA TokenGiven ==
    ASSUME BaseTypeOK, TokenInv, NEW w \in Workers, NEW b \in Bots
    PROVE  /\ AuthToken(w, b) \in Nat /\ AuthToken(w, b) <= epoch[b]
           /\ b \notin StaticBots =>
                 AuthToken(w, b) \in {CachedToken(b), epoch[b]}
<1>0. cache[b] \in Nat /\ epoch[b] \in Nat /\ 1 <= epoch[b] /\ cache[b] <= epoch[b]
    BY TokenNumbers DEF TokenInv
<1>1. CASE b \in StaticBots
    <2>1. AuthToken(w, b) = 1
        BY <1>1 DEF AuthToken, StaticToken, FirstToken
    <2> QED BY <1>0, <1>1, <2>1
<1>2. CASE b \notin StaticBots
    <2>1. AuthToken(w, b) \in {CachedToken(b), epoch[b]}
        BY <1>2 DEF AuthToken
    <2>2. CachedToken(b) \in {0, cache[b]}
        BY DEF CachedToken, NoToken
    <2> QED BY <1>0, <1>2, <2>1, <2>2
<1> QED BY <1>1, <1>2

(* A step of the handler.                                                  *)
LEMMA TokenStep ==
    ASSUME BaseInv, TokenInv, NEW w \in Workers, HandlerStep(w)
    PROVE  TokenInv' /\ \A v \in Workers : RefreshesAnew(v)
<1> DEFINE b == BotOf[cur[w]]
<1> USE DEF BaseInv
<1>0. /\ BaseTypeOK' /\ cur' = cur
      /\ \A v \in Workers : v # w => pc'[v] = pc[v]
      /\ \A v \in Workers : Trying(v) => BotOf[cur[v]] \in Bots
    BY HandlerStepBase, HandlerStepFrame DEF HandlerInv
<1>n. /\ \A v \in Workers : rejected[v] \in Nat
      /\ \A v \in Workers, c \in Bots : token[v][c] \in Nat
      /\ \A c \in Bots : epoch[c] \in Nat \ {0}
    BY TokenNumbers
<1>auth. ASSUME Trying(w), Authenticate(w)
         PROVE  /\ \A v \in Workers, c \in Bots : token'[v][c] <= epoch[c]
                /\ \A c \in Bots : cache'[c] <= epoch[c]
                /\ token'[w][b] = AuthToken(w, b)
    <2>1. b \in Bots
        BY <1>0, <1>auth
    <2>2. AuthToken(w, b) <= epoch[b]
        BY <2>1, TokenGiven
    <2>3. \A v \in Workers, c \in Bots :
              token'[v][c] = IF v = w /\ c = b THEN AuthToken(w, b) ELSE token[v][c]
        BY <1>auth, <2>1 DEF Authenticate, BaseTypeOK
    <2>4. \A c \in Bots : cache'[c] \in {cache[c]} \cup ({AuthToken(w, b)} \cap {AuthToken(w, c)})
        BY <1>auth, <2>1 DEF Authenticate, BaseTypeOK
    <2>5. \A c \in Bots : AuthToken(w, c) <= epoch[c]
        BY TokenGiven
    <2> QED BY <2>1, <2>2, <2>3, <2>4, <2>5 DEF TokenInv
(* A handler that is not about to refresh, nor resending after it.         *)
<1>kept. ASSUME epoch' = epoch,
                \A v \in Workers, c \in Bots : token'[v][c] <= epoch[c],
                \A c \in Bots : cache'[c] <= epoch[c],
                \A v \in Workers : v # w => rejected'[v] = rejected[v],
                pc'[w] = "refresh" => b \notin StaticBots /\ rejected'[w] < epoch[b],
                RefreshesAnew(w)
         PROVE  TokenInv' /\ \A v \in Workers : RefreshesAnew(v)
    <2>1. ASSUME NEW v \in Workers, pc'[v] = "refresh"
          PROVE  BotOf[cur'[v]] \notin StaticBots /\ rejected'[v] < epoch'[BotOf[cur'[v]]]
        <3>1. CASE v = w
            BY <1>0, <1>kept, <2>1, <3>1
        <3>2. CASE v # w
            BY <1>0, <1>kept, <2>1, <3>2 DEF TokenInv
        <3> QED BY <3>1, <3>2
    <2>2. ASSUME NEW v \in Workers PROVE RefreshesAnew(v)
        BY <1>0, <1>kept, <2>2 DEF RefreshesAnew
    <2> QED BY <1>kept, <2>1, <2>2 DEF TokenInv
<1>same. ASSUME UNCHANGED <<token, cache, epoch>>,
                \A v \in Workers : v # w => rejected'[v] = rejected[v],
                pc'[w] # "refresh", pc[w] # "refresh" \/ pc'[w] # "attempt"
         PROVE  TokenInv' /\ \A v \in Workers : RefreshesAnew(v)
    <2>1. RefreshesAnew(w)
        BY <1>same DEF RefreshesAnew
    <2>2. /\ \A v \in Workers, c \in Bots : token'[v][c] <= epoch[c]
          /\ \A c \in Bots : cache'[c] <= epoch[c]
        BY <1>same DEF TokenInv
    <2> QED BY <1>same, <1>kept, <2>1, <2>2
<1>fail. ASSUME FailAttempt(w) PROVE pc'[w] \in {"backoff", "report"}
    BY <1>fail DEF FailAttempt, GiveUp, BaseTypeOK
<1>give. ASSUME GiveUp(w) PROVE pc'[w] = "report"
    BY <1>give DEF GiveUp, BaseTypeOK
<1>1. CASE EnsureToken(w)
    <2>1. Trying(w) /\ Authenticate(w) /\ UNCHANGED <<pc, rejected, epoch>> /\ pc[w] = "attempt"
        BY <1>1 DEF EnsureToken, Trying
    <2>2. RefreshesAnew(w)
        BY <2>1 DEF RefreshesAnew
    <2> QED BY <1>auth, <1>kept, <2>1, <2>2
<1>2. CASE AuthFails(w)
    BY <1>2, <1>fail, <1>same DEF AuthFails, botxVars
<1>3. CASE BeginSend(w)
    <2>1. UNCHANGED <<token, cache, epoch, rejected>> /\ pc[w] = "attempt"
        BY <1>3 DEF BeginSend, botxVars
    <2>2. pc'[w] \in {"sending", "backoff", "report"}
        BY <1>3, <1>fail DEF BeginSend, BaseTypeOK
    <2> QED BY <2>1, <2>2, <1>same
<1>4. CASE SendOK(w)
    BY <1>4, <1>same DEF SendOK, botxVars, BaseTypeOK
<1>5. CASE SendUnauthorized(w)
    <2>1. UNCHANGED <<token, cache, epoch>> /\ pc[w] = "sending" /\ Trying(w)
        BY <1>5 DEF SendUnauthorized, botxVars, Trying
    <2>2. CASE GiveUp(w) /\ UNCHANGED rejected
        BY <1>give, <1>same, <2>1, <2>2
    <2>3. CASE /\ b \notin StaticBots
               /\ pc' = [pc EXCEPT ![w] = "refresh"]
               /\ rejected' = [rejected EXCEPT ![w] = ClientToken(w)]
        <3>1. ClientToken(w) < epoch[b]
            <4>1. ClientToken(w) # epoch[b] /\ ClientToken(w) = token[w][b]
                BY <1>5 DEF SendUnauthorized, TokenAccepted, ClientToken
            <4>2. token[w][b] <= epoch[b] /\ token[w][b] \in Nat /\ epoch[b] \in Nat
                BY <1>0, <1>n, <2>1 DEF TokenInv
            <4> QED BY <4>1, <4>2
        <3>2. /\ pc'[w] = "refresh" /\ rejected'[w] = ClientToken(w)
              /\ \A v \in Workers : v # w => rejected'[v] = rejected[v]
            BY <2>3 DEF BaseTypeOK
        <3>3. RefreshesAnew(w)
            BY <2>1 DEF RefreshesAnew
        <3>4. /\ \A v \in Workers, c \in Bots : token'[v][c] <= epoch[c]
              /\ \A c \in Bots : cache'[c] <= epoch[c]
            BY <2>1 DEF TokenInv
        <3> QED BY <1>kept, <2>1, <2>3, <3>1, <3>2, <3>3, <3>4
    <2> QED BY <1>5, <2>2, <2>3 DEF SendUnauthorized
<1>6. CASE SendError(w)
    BY <1>6, <1>fail, <1>same DEF SendError, botxVars
<1>7. CASE Refresh(w)
    <2>1. Trying(w) /\ Authenticate(w) /\ UNCHANGED <<rejected, epoch>>
        BY <1>7 DEF Refresh, Trying
    <2>2. pc[w] = "refresh" /\ pc'[w] = "attempt"
        BY <1>7 DEF Refresh, BaseTypeOK
    <2>3. b \in Bots /\ b \notin StaticBots /\ rejected[w] < epoch[b]
        BY <1>0, <2>1, <2>2 DEF TokenInv
    <2>4. AuthToken(w, b) \in {CachedToken(b), epoch[b]}
        BY <2>3, TokenGiven
    <2>5. RefreshesAnew(w)
        BY <1>auth, <1>n, <2>1, <2>3, <2>4 DEF RefreshesAnew
    <2> QED BY <1>auth, <1>kept, <2>1, <2>2, <2>5
<1>8. CASE RefreshFails(w)
    BY <1>8, <1>give, <1>same DEF RefreshFails, botxVars
<1>9. CASE BackoffElapses(w)
    <2>1. UNCHANGED <<token, cache, epoch>> /\ pc'[w] = "attempt" /\ pc[w] = "backoff"
        BY <1>9 DEF BackoffElapses, botxVars, BaseTypeOK
    <2>2. \A v \in Workers : v # w => rejected'[v] = rejected[v]
        BY <1>9 DEF BackoffElapses, BaseTypeOK
    <2> QED BY <1>same, <2>1, <2>2
<1>10. CASE BackoffCancelled(w)
    BY <1>10, <1>same DEF BackoffCancelled, botxVars, BaseTypeOK
<1>11. CASE Report(w)
    BY <1>11, <1>same DEF Report, botxVars, BaseTypeOK
<1> QED
    BY <1>1, <1>2, <1>3, <1>4, <1>5, <1>6, <1>7, <1>8, <1>9, <1>10, <1>11
    DEF HandlerStep
=============================================================================
