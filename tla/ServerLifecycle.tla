---------------------------- MODULE ServerLifecycle ----------------------------
(***************************************************************************)
(* The life of the HTTP server (internal/server/server.go, Run): loading   *)
(* the certificate, serving, the graceful shutdown; and BotX callbacks,    *)
(* whose handlers run inside the request or in the background              *)
(* (handler_callback.go, callback_router.go, callback_jwt.go).             *)
(*                                                                         *)
(* A goroutine started is not yet one that runs.  Handlers may take as     *)
(* long as they like: a killed command whose children keep its output open *)
(* is waited for.                                                          *)
(***************************************************************************)
EXTENDS CertReloader, Sequences, FiniteSets

CONSTANTS
    Requests,
    Req,        \* [Requests -> records]: the callback and its token
    Rules,      \* server.callbacks.rules in order: [events, async]
    Secrets,    \* bots with a secret, or {} where verify_jwt is off
    None,       \* no field
    MaxRequests \* bound: requests that come, of those in Requests

ASSUME LifecycleAssumption ==
    /\ MaxRequests \in Nat
    /\ \A n \in 1..Len(Rules) : Rules[n].async \in BOOLEAN
    /\ \A r \in Requests :
           /\ Req[r].kind \in {"command", "notification"}
           /\ Req[r].wellFormed \in BOOLEAN /\ Req[r].inTime \in BOOLEAN

VARIABLES
    run,        \* where Run is
    result,     \* what it returned
    signalled,  \* its context is cancelled
    deadline,   \* the 10 seconds of the shutdown are over
    late,       \* Shutdown returned with requests open
    serve,      \* the goroutine that serves: off, on, failed, closed
    poller,     \* the goroutine that reloads the certificate
    cancelled,  \* callbackCtx is
    waiter,     \* the goroutine in callbackWG.Wait
    at,         \* of each request: the next of its rules, 0 before it came
    answer,     \* its status
    job         \* of each request and rule: its handler

runVars    == <<run, result, signalled, deadline, late, serve, poller>>
serverVars == <<runVars, cancelled, waiter, at, answer, job>>
vars == <<certVars, serverVars>>

NoAnswer == 0

Init ==
    /\ CertInit
    /\ run = "starting" /\ result = "none"
    /\ signalled = FALSE /\ deadline = FALSE /\ late = FALSE /\ cancelled = FALSE
    /\ serve = "off" /\ poller = "off" /\ waiter = "none"
    /\ at = [r \in Requests |-> 0]
    /\ answer = [r \in Requests |-> NoAnswer]
    /\ job = [r \in Requests |-> [n \in 1..Len(Rules) |-> "none"]]

Ended == run \in {"returned", "crashed"}
Open == {r \in Requests : at[r] > 0 /\ answer[r] = NoAnswer}

\* MUTANT: a handler is counted once its goroutine runs.
CountedLate == {"running"}

Counted == {"spawned", "running"}

(* callbackWG's counter                                                    *)
Pending(j) ==
    {h \in Requests \X (1..Len(Rules)) :
        Rules[h[2]].async /\ j[h[1]][h[2]] \in Counted}

-----------------------------------------------------------------------------
(* Run: from the certificate to serving                                    *)

Signal ==
    /\ ~signalled /\ ~Ended
    /\ signalled' = TRUE
    /\ UNCHANGED <<certVars, run, result, deadline, late, serve, poller,
                   cancelled, waiter, at, answer, job>>

(* loadInitial, whose reads are ReloadStep's, then Listen.                 *)
Start ==
    /\ run = "starting" /\ reading = "idle"
    /\ \/ /\ cert # Nothing
          /\ run' = "serving" /\ serve' = "on" /\ poller' = "on"
          /\ UNCHANGED <<result, cancelled>>
       \/ /\ run' = "returned" /\ result' = "failed" /\ cancelled' = TRUE
          /\ UNCHANGED <<serve, poller>>
    /\ UNCHANGED <<certVars, signalled, deadline, late, waiter, at, answer, job>>

(* Accept fails for good.                                                  *)
ServeFails ==
    /\ serve = "on" /\ run = "serving"
    /\ serve' = "failed"
    /\ UNCHANGED <<certVars, run, result, signalled, deadline, late, poller,
                   cancelled, waiter, at, answer, job>>

SeeFailure ==
    /\ run = "serving" /\ serve = "failed"
    /\ run' = "leaving" /\ result' = "failed"
    /\ UNCHANGED <<certVars, signalled, deadline, late, serve, poller,
                   cancelled, waiter, at, answer, job>>

-----------------------------------------------------------------------------
(* Run: the shutdown                                                       *)

\* MUTANT: the handlers are cancelled before the requests are waited for.
CancelsFirst == TRUE

CancelledByShutdown == cancelled

BeginShutdown ==
    /\ run = "serving" /\ signalled
    /\ run' = "draining"
    /\ serve' = IF serve = "on" THEN "closed" ELSE serve
    /\ cancelled' = CancelledByShutdown
    /\ UNCHANGED <<certVars, result, signalled, deadline, late, poller,
                   waiter, at, answer, job>>

Deadline ==
    /\ run \in {"draining", "waiting"} /\ ~deadline
    /\ deadline' = TRUE
    /\ UNCHANGED <<certVars, run, result, signalled, late, serve, poller,
                   cancelled, waiter, at, answer, job>>

ShutdownReturns == Open = {} \/ deadline

(* Shutdown returns, the handlers are told to stop, and another goroutine  *)
(* waits for them.                                                         *)
Drained ==
    /\ run = "draining" /\ ShutdownReturns
    /\ run' = "waiting"
    /\ late' = (Open # {} /\ deadline)
    /\ cancelled' = TRUE
    /\ waiter' = "started"
    /\ UNCHANGED <<certVars, result, signalled, deadline, serve, poller,
                   at, answer, job>>

\* MUTANT: the handlers are waited for without a limit.
OnlyDone == run = "waiting" /\ waiter = "done"

WaitOver == run = "waiting" /\ (waiter = "done" \/ deadline)

Waited ==
    /\ WaitOver
    /\ run' = "leaving"
    /\ \/ waiter = "done" /\ result' = IF late THEN "failed" ELSE "ok"
       \/ deadline /\ result' = "failed"
    /\ UNCHANGED <<certVars, signalled, deadline, late, serve, poller,
                   cancelled, waiter, at, answer, job>>

(* The deferred calls wait for the goroutines that serve and that reload.  *)
Return ==
    /\ run = "leaving" /\ serve \in {"failed", "closed"} /\ poller = "done"
    /\ run' = "returned" /\ cancelled' = TRUE
    /\ UNCHANGED <<certVars, result, signalled, deadline, late, serve, poller,
                   waiter, at, answer, job>>

(* WaitGroup.Wait: asleep until the counter is zero, it panics where it    *)
(* finds the counter in use again.                                         *)
WaiterStep ==
    /\ ~Ended
    /\ \/ /\ waiter = "started"
          /\ waiter' = IF Pending(job) = {} THEN "done" ELSE "asleep"
          /\ UNCHANGED run
       \/ /\ waiter = "woken"
          /\ IF Pending(job) = {} THEN waiter' = "done" /\ UNCHANGED run
             ELSE run' = "crashed" /\ UNCHANGED waiter
    /\ UNCHANGED <<certVars, result, signalled, deadline, late, serve, poller,
                   cancelled, at, answer, job>>

-----------------------------------------------------------------------------
(* The poller                                                              *)

PollerTick ==
    /\ poller = "on" /\ ~Ended /\ Tick
    /\ UNCHANGED <<fileVars, serverVars>>

PollerReads ==
    /\ (poller = "on" \/ run = "starting") /\ ~Ended /\ ReloadStep
    /\ UNCHANGED serverVars

PollerStops ==
    /\ poller = "on" /\ reading = "idle" /\ ~Ended
    /\ signalled \/ run = "leaving"
    /\ poller' = "done"
    /\ UNCHANGED <<certVars, run, result, signalled, deadline, late, serve,
                   cancelled, waiter, at, answer, job>>

Renewal ==
    /\ ~Ended /\ RenewalStep
    /\ UNCHANGED serverVars

-----------------------------------------------------------------------------
(* Callbacks                                                               *)

(* HS256 with the secret of the bot in aud, within exp and nbf.            *)
Verified(r) ==
    \/ Secrets = {}
    \/ Req[r].aud \in Secrets /\ Req[r].signer = Req[r].aud /\ Req[r].inTime

\* MUTANT: any bot's token will do.
AnyBot(r) == TRUE

(* A notification names no bot.                                            *)
SameBot(r) ==
    Req[r].kind = "notification" \/ Secrets = {} \/ Req[r].aud = Req[r].bot

(* All rules whose events have the request's, or "*", in order.            *)
Route(r) ==
    LET event == IF Req[r].kind = "command" THEN Req[r].event ELSE Req[r].kind
    IN  SelectSeq([n \in 1..Len(Rules) |-> n],
                  LAMBDA n : Rules[n].events \cap {event, "*"} # {})

Accepted(r) == IF Req[r].kind = "command" THEN 202 ELSE 200

Arrive(r) ==
    /\ serve = "on" /\ at[r] = 0
    /\ Cardinality({q \in Requests : at[q] > 0}) < MaxRequests
    /\ at' = [at EXCEPT ![r] = 1]
    /\ answer' = [answer EXCEPT ![r] =
           IF ~Verified(r) THEN 401
           ELSE IF ~Req[r].wellFormed THEN 400
           ELSE IF ~SameBot(r) THEN 403
           ELSE NoAnswer]
    /\ UNCHANGED <<certVars, runVars, cancelled, waiter, job>>

MoreRules(r) == at[r] <= Len(Route(r))

(* The next rule: in the background, or the request waits for it.          *)
Dispatch(r) ==
    LET n == Route(r)[at[r]] IN
    /\ r \in Open /\ MoreRules(r) /\ ~Ended
    /\ job[r][n] = "none"
    /\ IF Rules[n].async
       THEN /\ job' = [job EXCEPT ![r][n] = "spawned"]
            /\ at' = [at EXCEPT ![r] = @ + 1]
       ELSE /\ job' = [job EXCEPT ![r][n] = "running"]
            /\ UNCHANGED at
    /\ UNCHANGED <<certVars, runVars, cancelled, waiter, answer>>

(* The goroutine runs; under a cancelled context it only finds that out.   *)
Begin(r, n) ==
    /\ job[r][n] = "spawned" /\ ~Ended
    /\ job' = [job EXCEPT ![r][n] = "running"]
    /\ UNCHANGED <<certVars, runVars, cancelled, waiter, at, answer>>

\* MUTANT: a handler in the background moves its request on as well.
MovesOn(r, n) == at[r] + 1

After(r, n) == IF Rules[n].async THEN at[r] ELSE at[r] + 1

(* A handler is done, failed, timed out or cut short: all the same to the  *)
(* server.  The last one in the background wakes the waiter.               *)
End(r, n) ==
    /\ job[r][n] = "running" /\ ~Ended
    /\ job' = [job EXCEPT ![r][n] = IF cancelled /\ Rules[n].async THEN "cut" ELSE "ended"]
    /\ at' = [at EXCEPT ![r] = After(r, n)]
    /\ waiter' = IF /\ Rules[n].async /\ waiter = "asleep" /\ Pending(job') = {}
                 THEN "woken" ELSE waiter
    /\ UNCHANGED <<certVars, runVars, cancelled, answer>>

Answer(r) ==
    /\ r \in Open /\ ~MoreRules(r) /\ ~Ended
    /\ answer' = [answer EXCEPT ![r] = Accepted(r)]
    /\ UNCHANGED <<certVars, runVars, cancelled, waiter, at, job>>

Callback ==
    \E r \in Requests :
        \/ Arrive(r) \/ Dispatch(r) \/ Answer(r)
        \/ \E n \in 1..Len(Rules) : Begin(r, n) \/ End(r, n)

-----------------------------------------------------------------------------
RunStep == Start \/ SeeFailure \/ BeginShutdown \/ Drained \/ Waited \/ Return

Next ==
    \/ RunStep \/ Signal \/ ServeFails \/ Deadline \/ WaiterStep
    \/ PollerTick \/ PollerReads \/ PollerStops \/ Renewal \/ Callback

Spec == Init /\ [][Next]_vars

(* Goroutines are scheduled, the ticker and the shutdown's timer fire, and *)
(* a renewal begun is finished.  A select does not always prefer the       *)
(* ticker.  Nothing ends a handler.                                        *)
FairSpec ==
    /\ Spec
    /\ WF_vars(RunStep) /\ WF_vars(Deadline) /\ WF_vars(WaiterStep)
    /\ WF_vars(PollerTick) /\ WF_vars(PollerReads) /\ SF_vars(PollerStops)
    /\ WF_vars(Renewal)

-----------------------------------------------------------------------------
TypeOK ==
    /\ CertTypeOK
    /\ run \in {"starting", "serving", "draining", "waiting", "leaving",
                "returned", "crashed"}
    /\ result \in {"none", "ok", "failed"}
    /\ {signalled, deadline, late, cancelled} \subseteq BOOLEAN
    /\ serve \in {"off", "on", "failed", "closed"}
    /\ poller \in {"off", "on", "done"}
    /\ waiter \in {"none", "started", "asleep", "woken", "done"}
    /\ at \in [Requests -> 0..Len(Rules) + 1]
    /\ answer \in [Requests -> {NoAnswer, 200, 202, 400, 401, 403}]
    /\ job \in [Requests -> [1..Len(Rules) ->
                    {"none", "spawned", "running", "ended", "cut"}]]

(* A shutdown reported as clean left nothing behind: no request open, no   *)
(* handler started or about to, no goroutine of the server                 *)
(* (server.go:553-576).                                                    *)
CleanReturn ==
    result = "ok" /\ run = "returned" =>
        /\ Open = {} /\ poller = "done" /\ serve # "on"
        /\ \A r \in Requests, n \in 1..Len(Rules) :
               job[r][n] \notin {"spawned", "running"}

(* A shutdown cancels the handlers' context only when no request can start *)
(* one any more, and the counter it waits on is not used again - unless    *)
(* the wait for the requests had timed out (server.go:555-566).            *)
ShutdownOrder ==
    /\ run \in {"draining", "waiting"} /\ cancelled /\ ~late => Open = {}
    /\ run = "crashed" => late

(* With verify_jwt on, a handler runs only for a callback signed in time   *)
(* with the secret of a bot the server has, and for a command of that bot  *)
(* (callback_jwt.go:60-133, handler_callback.go:49-59).                    *)
CallbackGenuine ==
    \A r \in Requests : (\E n \in 1..Len(Rules) : job[r][n] # "none") =>
        \/ Secrets = {}
        \/ /\ Req[r].signer \in Secrets /\ Req[r].inTime
           /\ Req[r].kind = "command" => Req[r].signer = Req[r].bot

(* Once signalled, Run returns, whatever the handlers do                   *)
(* (server.go:548-576).                                                    *)
ShutdownEnds == signalled ~> Ended

(* A server that goes on serving ends up with the newest pair, however the *)
(* reads fell between the writes (tls.go:67-83).                           *)
NewestServed ==
    <>[](run = "serving") =>
        <>[](cert = [cert |-> renewal, key |-> KeyOf[renewal]])
=============================================================================
