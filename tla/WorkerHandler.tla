---------------------------- MODULE WorkerHandler ----------------------------
(***************************************************************************)
(* The queue worker's message handler (internal/cmd/worker.go), as each    *)
(* worker process runs it for one message at a time, with the BotX API it  *)
(* calls and the token cache it goes through (internal/cmd/cmd.go).        *)
(*                                                                         *)
(* Every call that leaves the process (a send, a token request, a result   *)
(* publication) is a step of its own, so the steps of several workers, a   *)
(* token revocation, a signal and a crash may come between any two.  How a *)
(* message reaches the handler and what the handler's return value does to *)
(* it is the driver's business: RabbitWorker and KafkaWorker extend this   *)
(* module.                                                                 *)
(***************************************************************************)
EXTENDS Integers, FiniteSets

CONSTANTS
    Workers,         \* worker processes consuming the same work queue
    Msgs,            \* the work messages producers publish (request ids)
    Bots,            \* the bots of the workers' configuration
    NoBot,           \* stands for a bot_id the configuration does not have
    None,            \* no message
    BotOf,           \* [Msgs -> Bots \cup {NoBot}]: the message's routing.bot_id
    StaticBots,      \* bots configured with a static token
    Malformed,       \* messages whose body does not decode
    WithReply,       \* messages that name a reply queue
    DryRunWorkers,   \* workers started with --dry-run
    SharedCache,     \* cache.type is file or vault (TRUE) or none (FALSE)
    RetryCount,      \* worker.retry_count
    MaxEpoch,        \* bound: token generations of one bot
    MaxDisruptions   \* bound: signals, crashes, lost connections, rebalances

ASSUME HandlerAssumption ==
    /\ NoBot \notin Bots
    /\ None \notin Msgs \cup Workers
    /\ BotOf \in [Msgs -> Bots \cup {NoBot}]
    /\ StaticBots \subseteq Bots
    /\ Malformed \subseteq Msgs
    /\ WithReply \subseteq Msgs
    /\ DryRunWorkers \subseteq Workers
    /\ SharedCache \in BOOLEAN
    /\ RetryCount \in Nat \ {0}     \* newWorkerRunner replaces 0 by 3
    /\ MaxEpoch \in Nat \ {0}
    /\ MaxDisruptions \in Nat

VARIABLES
    pc,        \* where each worker process is
    cur,       \* the message its handler works on
    attempt,   \* the retry loop's counter
    rejected,  \* the token refused with 401 in this attempt, or NoToken
    verdict,   \* how the handler ended
    token,     \* botapi.Client.Token of each worker's client for each bot
    ctxDone,   \* the worker received SIGTERM: its context is cancelled
    epoch,     \* the generation of tokens the BotX API accepts, per bot
    cache,     \* the token in the shared token cache, per bot
    disruptions  \* disruptions so far

(* History, written only so that the properties can speak of the past. *)
VARIABLES
    delivered,    \* messages the BotX API accepted
    duplicated,   \* messages it accepted more than once
    unanswered,   \* messages accepted by a call whose answer was lost
    gaveUp,       \* messages a live handler failed for good
    declined,     \* messages a handler skipped: unknown bot, dry run
    handedOut,    \* messages given to a handler
    redelivered,  \* messages given to a handler again
    results       \* <<message, status>> pairs on the reply queues

handlerVars == <<pc, cur, attempt, rejected, verdict, token, ctxDone>>
botxVars    == <<epoch, cache>>
sendVars    == <<delivered, duplicated, unanswered>>
handVars    == <<handedOut, redelivered>>
historyVars == <<sendVars, gaveUp, declined, handVars, results>>
baseVars    == <<handlerVars, botxVars, disruptions, historyVars>>

NoToken    == 0
FirstToken == 1
Token      == 0..MaxEpoch

PC      == {"down", "idle", "attempt", "sending", "refresh", "backoff",
            "report", "return"}
Verdict == {"none", "sent", "failed", "rejected", "dry-run", "aborted"}
Status  == {"sent", "failed", "dry-run"}

(* The handler holds a message from its entry to the driver's answer. *)
InHandler(w) == pc[w] \notin {"down", "idle"}

BaseTypeOK ==
    /\ pc \in [Workers -> PC]
    /\ cur \in [Workers -> Msgs \cup {None}]
    /\ attempt \in [Workers -> 0..RetryCount]
    /\ rejected \in [Workers -> Token]
    /\ verdict \in [Workers -> Verdict]
    /\ token \in [Workers -> [Bots -> Token]]
    /\ ctxDone \in [Workers -> BOOLEAN]
    /\ epoch \in [Bots -> 1..MaxEpoch]
    /\ cache \in [Bots -> Token]
    /\ disruptions \in 0..MaxDisruptions
    /\ delivered \subseteq Msgs
    /\ duplicated \subseteq Msgs
    /\ unanswered \subseteq Msgs
    /\ gaveUp \subseteq Msgs
    /\ declined \subseteq Msgs
    /\ handedOut \subseteq Msgs
    /\ redelivered \subseteq Msgs
    /\ results \subseteq (Msgs \X Status)

BaseInit ==
    /\ pc = [w \in Workers |-> "down"]
    /\ cur = [w \in Workers |-> None]
    /\ attempt = [w \in Workers |-> 0]
    /\ rejected = [w \in Workers |-> NoToken]
    /\ verdict = [w \in Workers |-> "none"]
    /\ token = [w \in Workers |-> [b \in Bots |-> NoToken]]
    /\ ctxDone = [w \in Workers |-> FALSE]
    /\ epoch = [b \in Bots |-> FirstToken]
    /\ cache = [b \in Bots |-> NoToken]
    /\ disruptions = 0
    /\ delivered = {} /\ duplicated = {} /\ unanswered = {}
    /\ gaveUp = {} /\ declined = {}
    /\ handedOut = {} /\ redelivered = {}
    /\ results = {}

-----------------------------------------------------------------------------
(* authenticate: the static token; else the cached token if there is one,  *)
(* whatever it is worth; else a new one from the BotX API, which is cached.*)

StaticToken == FirstToken    \* the API may come to refuse it, it never changes

CachedToken(b) == IF SharedCache THEN cache[b] ELSE NoToken

\* MUTANT: a new token is looked up in what the process already holds.
StaleAuthToken(w, b) ==
    IF b \in StaticBots THEN StaticToken
    ELSE IF token[w][b] # NoToken THEN token[w][b]
    ELSE IF CachedToken(b) # NoToken THEN CachedToken(b)
    ELSE epoch[b]

AuthToken(w, b) ==
    IF b \in StaticBots THEN StaticToken
    ELSE IF CachedToken(b) # NoToken THEN CachedToken(b)
    ELSE epoch[b]

(* authenticate succeeds for the bot of w's message: the client gets the   *)
(* token, and the cache holds it from then on.                             *)
Authenticate(w) ==
    LET b == BotOf[cur[w]] IN
    /\ token' = [token EXCEPT ![w][b] = AuthToken(w, b)]
    /\ cache' = IF SharedCache /\ b \notin StaticBots
                THEN [cache EXCEPT ![b] = AuthToken(w, b)]
                ELSE cache

ClientToken(w) == token[w][BotOf[cur[w]]]
TokenAccepted(w) == ClientToken(w) = epoch[BotOf[cur[w]]]

-----------------------------------------------------------------------------
(* The handler is entered (BotByID, getOrCreateClient, the dry-run test).  *)
(* Parsing inline mentions rewrites the payload in memory only.            *)

Enter(w, m) ==
    /\ cur' = [cur EXCEPT ![w] = m]
    /\ handedOut' = handedOut \cup {m}
    /\ redelivered' = redelivered \cup (handedOut \cap {m})
    /\ \/ /\ BotOf[m] = NoBot
          /\ pc' = [pc EXCEPT ![w] = "report"]
          /\ verdict' = [verdict EXCEPT ![w] = "rejected"]
          /\ declined' = declined \cup {m}
       \/ /\ BotOf[m] # NoBot
          /\ w \in DryRunWorkers
          /\ pc' = [pc EXCEPT ![w] = "report"]
          /\ verdict' = [verdict EXCEPT ![w] = "dry-run"]
          /\ declined' = declined \cup {m}
       \/ /\ BotOf[m] # NoBot
          /\ w \notin DryRunWorkers
          /\ pc' = [pc EXCEPT ![w] = "attempt"]
          /\ verdict' = [verdict EXCEPT ![w] = "none"]
          /\ UNCHANGED declined

(* The loop ends with an error.  The history records that the worker gave  *)
(* the message up unless the shutdown is what made it fail.                *)
GiveUp(w) ==
    /\ pc' = [pc EXCEPT ![w] = "report"]
    /\ verdict' = [verdict EXCEPT ![w] = "failed"]
    /\ gaveUp' = IF ctxDone[w] THEN gaveUp ELSE gaveUp \cup {cur[w]}
    /\ UNCHANGED attempt

\* MUTANT: the loop runs once more than retry_count allows.
OneAttemptMore(w) == attempt[w] <= RetryCount

(* The loop's condition for the attempt after this one.                    *)
AttemptsLeft(w) == attempt[w] < RetryCount

(* The attempt failed in a way another attempt may mend.                   *)
FailAttempt(w) ==
    \/ /\ AttemptsLeft(w)
       /\ pc' = [pc EXCEPT ![w] = "backoff"]
       /\ attempt' = [attempt EXCEPT ![w] = @ + 1]
       /\ UNCHANGED <<verdict, gaveUp>>
    \/ /\ ~AttemptsLeft(w)
       /\ GiveUp(w)

(* The BotX API accepts the message.                                       *)
Accept(m) ==
    /\ delivered' = delivered \cup {m}
    /\ duplicated' = duplicated \cup (delivered \cap {m})

-----------------------------------------------------------------------------
(* The client has no token: authenticate, or count the attempt as failed.  *)
EnsureToken(w) ==
    /\ pc[w] = "attempt" /\ ClientToken(w) = NoToken
    /\ Authenticate(w)
    /\ UNCHANGED <<pc, cur, attempt, rejected, verdict, ctxDone, epoch,
                   disruptions, historyVars>>

AuthFails(w) ==
    /\ pc[w] = "attempt" /\ ClientToken(w) = NoToken
    /\ FailAttempt(w)
    /\ UNCHANGED <<cur, rejected, token, ctxDone, botxVars, disruptions,
                   sendVars, declined, handVars, results>>

(* SendWithSyncID: a request made under a cancelled context is not sent.   *)
BeginSend(w) ==
    /\ pc[w] = "attempt" /\ ClientToken(w) # NoToken
    /\ \/ /\ ~ctxDone[w]
          /\ pc' = [pc EXCEPT ![w] = "sending"]
          /\ UNCHANGED <<attempt, verdict, gaveUp>>
       \/ /\ ctxDone[w]
          /\ FailAttempt(w)
    /\ UNCHANGED <<cur, rejected, token, ctxDone, botxVars, disruptions,
                   sendVars, declined, handVars, results>>

(* 200, 201 or 202 comes back: the loop is left.  An answer that races the *)
(* shutdown may still win.                                                 *)
\* MUTANT: the answer 202 is taken for an error and the loop goes on.
SendOKButRetried(w) ==
    /\ pc[w] = "sending" /\ TokenAccepted(w)
    /\ Accept(cur[w])
    /\ FailAttempt(w)
    /\ UNCHANGED <<cur, rejected, token, ctxDone, botxVars, disruptions,
                   unanswered, declined, handVars, results>>

SendOK(w) ==
    /\ pc[w] = "sending" /\ TokenAccepted(w)
    /\ Accept(cur[w])
    /\ pc' = [pc EXCEPT ![w] = "report"]
    /\ verdict' = [verdict EXCEPT ![w] = "sent"]
    /\ UNCHANGED <<cur, attempt, rejected, token, ctxDone, botxVars,
                   disruptions, unanswered, gaveUp, declined, handVars, results>>

(* 401: a static token or a second 401 is final, otherwise refresh.        *)
SendUnauthorized(w) ==
    /\ pc[w] = "sending" /\ ~TokenAccepted(w)
    /\ \/ /\ BotOf[cur[w]] \in StaticBots \/ rejected[w] # NoToken
          /\ GiveUp(w)
          /\ UNCHANGED rejected
       \/ /\ BotOf[cur[w]] \notin StaticBots /\ rejected[w] = NoToken
          /\ pc' = [pc EXCEPT ![w] = "refresh"]
          /\ rejected' = [rejected EXCEPT ![w] = ClientToken(w)]
          /\ UNCHANGED <<attempt, verdict, gaveUp>>
    /\ UNCHANGED <<cur, token, ctxDone, botxVars, disruptions, sendVars,
                   declined, handVars, results>>

(* Any other answer, a network error, a timeout or the cancelled context.  *)
(* The API may have accepted the message before the answer was lost.       *)
SendError(w) ==
    /\ pc[w] = "sending"
    /\ \/ /\ TokenAccepted(w)
          /\ Accept(cur[w])
          /\ unanswered' = unanswered \cup {cur[w]}
       \/ UNCHANGED sendVars
    /\ FailAttempt(w)
    /\ UNCHANGED <<cur, rejected, token, ctxDone, botxVars, disruptions,
                   declined, handVars, results>>

(* After a 401: authenticate again, then resend within the same attempt.   *)
Refresh(w) ==
    /\ pc[w] = "refresh"
    /\ Authenticate(w)
    /\ pc' = [pc EXCEPT ![w] = "attempt"]
    /\ UNCHANGED <<cur, attempt, rejected, verdict, ctxDone, epoch,
                   disruptions, historyVars>>

RefreshFails(w) ==
    /\ pc[w] = "refresh"
    /\ GiveUp(w)
    /\ UNCHANGED <<cur, rejected, token, ctxDone, botxVars, disruptions,
                   sendVars, declined, handVars, results>>

(* The wait before the next attempt: the timer, or the shutdown.  When     *)
(* both are ready the select takes either.                                 *)
BackoffElapses(w) ==
    /\ pc[w] = "backoff"
    /\ pc' = [pc EXCEPT ![w] = "attempt"]
    /\ rejected' = [rejected EXCEPT ![w] = NoToken]
    /\ UNCHANGED <<cur, attempt, verdict, token, ctxDone, botxVars,
                   disruptions, historyVars>>

BackoffCancelled(w) ==
    /\ pc[w] = "backoff" /\ ctxDone[w]
    /\ pc' = [pc EXCEPT ![w] = "return"]
    /\ verdict' = [verdict EXCEPT ![w] = "aborted"]
    /\ UNCHANGED <<cur, attempt, rejected, token, ctxDone, botxVars,
                   disruptions, historyVars>>

(* publishResult, before the handler returns.  A failed publication is     *)
(* logged and forgotten.                                                   *)
\* MUTANT: the result's status does not follow the outcome.
ReportedAlwaysSent(v) == "sent"

ResultStatus(v) == IF v = "rejected" THEN "failed" ELSE v

Report(w) ==
    /\ pc[w] = "report"
    /\ pc' = [pc EXCEPT ![w] = "return"]
    /\ \/ /\ cur[w] \in WithReply
          /\ results' = results \cup {<<cur[w], ResultStatus(verdict[w])>>}
       \/ UNCHANGED results
    /\ UNCHANGED <<cur, attempt, rejected, verdict, token, ctxDone, botxVars,
                   disruptions, sendVars, gaveUp, declined, handVars>>

HandlerStep(w) ==
    \/ EnsureToken(w)  \/ AuthFails(w)        \/ BeginSend(w)
    \/ SendOK(w)       \/ SendUnauthorized(w) \/ SendError(w)
    \/ Refresh(w)      \/ RefreshFails(w)
    \/ BackoffElapses(w) \/ BackoffCancelled(w)
    \/ Report(w)

-----------------------------------------------------------------------------
(* What the handler's return value says to the driver.                     *)
ReturnsNil(w) == verdict[w] \in {"sent", "rejected", "dry-run"}

(* The handler's local state, before a message is taken and after it.      *)
Leave(w, to) ==
    /\ pc' = [pc EXCEPT ![w] = to]
    /\ cur' = [cur EXCEPT ![w] = None]
    /\ attempt' = [attempt EXCEPT ![w] = 0]
    /\ rejected' = [rejected EXCEPT ![w] = NoToken]
    /\ verdict' = [verdict EXCEPT ![w] = "none"]

Boot(w) ==
    /\ pc[w] = "down"
    /\ pc' = [pc EXCEPT ![w] = "idle"]
    /\ UNCHANGED <<cur, attempt, rejected, verdict, token, ctxDone, botxVars,
                   disruptions, historyVars>>

(* The process ends, by returning from runWorker or by crashing; the next  *)
(* one starts with no client and a new context.                            *)
Exit(w) ==
    /\ Leave(w, "down")
    /\ token' = [token EXCEPT ![w] = [b \in Bots |-> NoToken]]
    /\ ctxDone' = [ctxDone EXCEPT ![w] = FALSE]

Disrupt ==
    /\ disruptions < MaxDisruptions
    /\ disruptions' = disruptions + 1

(* SIGINT or SIGTERM cancels the context every call of the worker uses.    *)
Signal(w) ==
    /\ pc[w] # "down" /\ ~ctxDone[w]
    /\ Disrupt
    /\ ctxDone' = [ctxDone EXCEPT ![w] = TRUE]
    /\ UNCHANGED <<pc, cur, attempt, rejected, verdict, token, botxVars,
                   historyVars>>

(* The BotX server stops accepting a bot's tokens and issues others.       *)
Revoke(b) ==
    /\ epoch[b] < MaxEpoch
    /\ epoch' = [epoch EXCEPT ![b] = @ + 1]
    /\ UNCHANGED <<handlerVars, cache, disruptions, historyVars>>

(* The cached token's lifetime ends.                                       *)
CacheExpires(b) ==
    /\ cache[b] # NoToken
    /\ cache' = [cache EXCEPT ![b] = NoToken]
    /\ UNCHANGED <<handlerVars, epoch, disruptions, historyVars>>

Environment ==
    \/ \E w \in Workers : Signal(w)
    \/ \E b \in Bots : Revoke(b) \/ CacheExpires(b)

-----------------------------------------------------------------------------
(* Messages a worker has dealt with: the API has them, or a handler ended  *)
(* with a decision about them, or no handler could ever read them.         *)
Handled == delivered \cup gaveUp \cup declined \cup Malformed

(* Why a handler that reached a verdict is right to have reached it.       *)
VerdictJustified(w) ==
    /\ verdict[w] # "none"
    /\ verdict[w] = "sent" => cur[w] \in delivered
    /\ verdict[w] = "failed" => cur[w] \in gaveUp \/ ctxDone[w]
    /\ verdict[w] \in {"rejected", "dry-run"} => cur[w] \in declined
    /\ verdict[w] = "aborted" => ctxDone[w]

Trying(w)   == pc[w] \in {"attempt", "sending", "refresh", "backoff"}
Decided(w)  == pc[w] \in {"report", "return"}

(* What the handlers keep true whatever the broker does, as long as it     *)
(* only hands out messages that decode: the base of the inductive          *)
(* invariants of the two drivers.                                          *)
HandlerInv ==
    /\ \A w \in Workers : InHandler(w) =>
           /\ cur[w] \in Msgs \ Malformed
           /\ cur[w] \in handedOut
    /\ \A w \in Workers : Trying(w) => BotOf[cur[w]] \in Bots
    /\ \A w \in Workers : Decided(w) => VerdictJustified(w)
    /\ \A w \in Workers : pc[w] = "report" => verdict[w] # "aborted"

(* One handler at a time knows of a message the broker handed out once,    *)
(* and does not try again what it knows was accepted.                      *)
OnceInv ==
    /\ delivered \subseteq handedOut
    /\ \A v, w \in Workers :
           v # w /\ InHandler(v) /\ InHandler(w) /\ cur[v] = cur[w]
               => cur[w] \in redelivered
    /\ \A w \in Workers :
           Trying(w) /\ cur[w] \in delivered
               => cur[w] \in unanswered \cup redelivered

(* BotX accepts a message twice only when a call's answer was lost or the  *)
(* broker handed the message out again: the retry loop and the 401 path of *)
(* handleMessage never resend what they know was accepted (worker.go:284). *)
DuplicateExplained == duplicated \subseteq (unanswered \cup redelivered)

(* A "sent" result on the reply queue is never a lie, whatever crash,      *)
(* retry or redelivery happened to the message (worker.go:350).            *)
SentIsTrue == \A m \in Msgs : <<m, "sent">> \in results => m \in delivered

(* What a refresh makes of the token that was refused: another one, unless *)
(* the cache still holds it, where authenticate looks first (cmd.go:169).  *)
RefreshesAnew(w) ==
    pc[w] = "refresh" /\ pc'[w] = "attempt"
        => \/ token'[w][BotOf[cur[w]]] # rejected[w]
           \/ CachedToken(BotOf[cur[w]]) = rejected[w]

(* The resend after a 401 uses another token than the one just refused     *)
(* (worker.go:320), in every interleaving with revocations, expiries and   *)
(* other workers, with one exception: nobody takes a refused token out of  *)
(* a file or Vault cache, and what the cache has is handed back.           *)
RefreshedTokenIsNew == [][\A w \in Workers : RefreshesAnew(w)]_baseVars
=============================================================================
