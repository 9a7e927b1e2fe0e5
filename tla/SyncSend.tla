------------------------------- MODULE SyncSend -------------------------------
(***************************************************************************)
(* The HTTP server of "serve" without --enqueue: POST /send, /alertmanager *)
(* and /grafana (internal/server/auth.go, handler_send.go, multisend.go,   *)
(* handler_alertmanager.go, handler_grafana.go) down to the bot senders    *)
(* that share one token per bot (internal/cmd/serve.go, botSender).        *)
(*                                                                         *)
(* Requests run concurrently.  A call to the BotX API is a step or more;   *)
(* what a request decides between two calls is one step.  A token is the   *)
(* number of its issue: the API accepts the latest, Revoke starts the      *)
(* next.  Mentions are looked up with a client of their own and change     *)
(* nothing here.                                                           *)
(***************************************************************************)
EXTENDS Naturals, Sequences, FiniteSets

CONSTANTS
    Requests,
    Req,         \* [Requests -> records]: what the request carries
    Servers,     \* the bots it may have been started with: [names, sender, single]
    Chats,       \* [aliases -> [id, bot]]: the configured chats
    Default,     \* [send, hook, fallback]: the default chats
    ChatIds,     \* chat UUIDs
    Bots,        \* bot names
    StaticBots,  \* those with a static token instead of a secret
    None,        \* an empty field
    MaxEpoch,    \* bound: tokens the API issues per bot
    MaxRequests  \* bound: requests served, of those in Requests

ASSUME SyncAssumption ==
    /\ None \notin ChatIds \cup Bots
    /\ StaticBots \subseteq Bots
    /\ MaxEpoch \in Nat /\ MaxRequests \in Nat
    /\ \A s \in Servers :
           /\ s.names \subseteq Bots            \* several, or {}
           /\ s.sender \in Bots                 \* the only one if names = {}
           /\ s.single \in {None, s.sender}     \* and its name, if it has one
    /\ \A a \in DOMAIN Chats :
           Chats[a].id \in ChatIds /\ Chats[a].bot \in Bots \cup {None}
    /\ \A r \in Requests :
           /\ Req[r].kind \in {"send", "hook"}
           /\ LET t == Req[r].targets IN        \* parseChatIDs: no repetitions
                  /\ t \in Seq({t[k] : k \in DOMAIN t})
                  /\ \A k, l \in DOMAIN t : t[k] = t[l] => k = l
           /\ Req[r].bot \in Bots \cup {None}
           /\ Req[r].cred.kind \in {"key", "signature", "wrong", "none"}
           /\ Req[r].cred.bot \in Bots \cup {None}
           /\ Req[r].cred.scope \subseteq ChatIds

VARIABLES
    server,     \* one of Servers; it never changes
    token,      \* of each sender: the token its client holds, 0 for none
    epoch,      \* of each bot: the token the API accepts
    pc,         \* where each request is
    i,          \* the target it is at
    route,      \* chat and bot of that target
    fresh,      \* the token it has just been issued
    used,       \* the token of its call in flight
    outcome,    \* of each target: in results ("sent"), in errs ("failed")
    answer,     \* the response
    delivered,  \* [chat, bot, target] of each message BotX accepted, in order
    disturbed   \* requests whose bot's token was revoked, or being replaced
                \* by another request, since they began their present target

senderVars  == <<token, epoch>>
requestVars == <<pc, i, route, fresh, used, outcome, answer>>
vars == <<server, senderVars, requestVars, delivered, disturbed>>

NoRoute == [chat |-> None, bot |-> None]
NoToken == 0
Torn    == MaxEpoch + 1    \* the half of one string and the length of another

(* The targets named, else the default chat.  "hook" stands for both       *)
(* webhooks, which name their own default first.                           *)
SingleChat(r) ==
    IF Req[r].kind = "hook" /\ Default.hook # None THEN Default.hook
    ELSE IF Req[r].kind = "hook" /\ Default.send = None THEN Default.fallback
    ELSE Default.send

Targets ==
    [r \in Requests |->
        IF Req[r].targets # <<>> THEN Req[r].targets
        ELSE IF SingleChat(r) # None THEN <<SingleChat(r)>> ELSE <<>>]

TargetsOf == [r \in Requests |-> {Targets[r][k] : k \in DOMAIN Targets[r]}]

Init ==
    /\ server \in Servers
    /\ epoch = [b \in Bots |-> 1]
    /\ token \in {t \in [Bots -> {NoToken, 1}] : \A b \in StaticBots : t[b] = 1}
    /\ pc = [r \in Requests |-> "new"]
    /\ i = [r \in Requests |-> 1]
    /\ route = [r \in Requests |-> NoRoute]
    /\ fresh = [r \in Requests |-> NoToken]
    /\ used = [r \in Requests |-> NoToken]
    /\ outcome = [r \in Requests |-> [t \in TargetsOf[r] |-> "pending"]]
    /\ answer = [r \in Requests |-> "none"]
    /\ delivered = [r \in Requests |-> <<>>]
    /\ disturbed = {}

-----------------------------------------------------------------------------
(* Before the fan-out.                                                     *)

(* authMiddleware: a key, else the signature of a bot.                     *)
Authenticated(r) == Req[r].cred.kind \in {"key", "signature"}
Scoped(r)        == Req[r].cred.kind = "key" /\ Req[r].cred.scope # {}
AuthBot(r)       == IF Req[r].cred.kind = "signature" THEN Req[r].cred.bot ELSE None
ChatAllowed(r, c) == Scoped(r) => c \in Req[r].cred.scope

ChatKnown(t) == t \in ChatIds \/ t \in DOMAIN Chats
ChatOf(t)    == IF t \in ChatIds THEN t ELSE Chats[t].id
BoundBot(t)  == IF t \in ChatIds THEN None ELSE Chats[t].bot

\* MUTANT: only the UUIDs are checked here, as the asynchronous mode does.
AuthorizedUnresolved(r) ==
    Scoped(r) => \A t \in TargetsOf[r] \cap ChatIds : ChatAllowed(r, t)

(* authorizeTargets: every target resolves to a chat of the key's scope.   *)
Authorized(r) ==
    Scoped(r) => \A t \in TargetsOf[r] : ChatKnown(t) /\ ChatAllowed(r, ChatOf(t))

Respond(r, a) ==
    /\ pc' = [pc EXCEPT ![r] = "done"]
    /\ answer' = [answer EXCEPT ![r] = a]
    /\ UNCHANGED <<i, route, fresh, used, outcome, delivered, disturbed>>

Arrive(r) ==
    /\ pc[r] = "new"
    /\ Cardinality({q \in Requests : pc[q] # "new"}) < MaxRequests
    /\ IF ~Authenticated(r) THEN Respond(r, "forbidden")
       ELSE IF Targets[r] = <<>> \/ ~Req[r].wellFormed THEN Respond(r, "invalid")
       ELSE IF ~Authorized(r) THEN Respond(r, "forbidden")
       ELSE /\ pc' = [pc EXCEPT ![r] = "target"]
            /\ UNCHANGED <<i, route, fresh, used, outcome, answer, delivered,
                           disturbed>>
    /\ UNCHANGED <<server, senderVars>>

-----------------------------------------------------------------------------
(* The fan-out, target by target.                                          *)

MoreToDo(r) == i[r] <= Len(Targets[r])
Target(r)   == Targets[r][i[r]]

\* MUTANT: a failed target is tried again.
TryAgain(r) == i' = i

Advance(r) == i' = [i EXCEPT ![r] = @ + 1]

NextTarget(r) ==
    /\ pc' = [pc EXCEPT ![r] = "target"]
    /\ route' = [route EXCEPT ![r] = NoRoute]
    /\ fresh' = [fresh EXCEPT ![r] = NoToken]
    /\ used' = [used EXCEPT ![r] = NoToken]
    /\ UNCHANGED answer

Fail(r) ==
    /\ NextTarget(r)
    /\ Advance(r)
    /\ outcome' = [outcome EXCEPT ![r][Target(r)] = "failed"]

(* The bot a target asks for: the request's, else the one bound to it.     *)
Wanted(r, t) == IF Req[r].bot # None THEN Req[r].bot ELSE BoundBot(t)

\* MUTANT: the bot of the signature is only a default.
BotDefaultsToSigner(r, t) ==
    IF Wanted(r, t) # None THEN Wanted(r, t) ELSE AuthBot(r)

(* resolveRequestBot; None is a refusal.                                   *)
RequestBot(r, t) ==
    IF server.names = {}
    THEN IF Wanted(r, t) \in {None, server.single} THEN server.sender ELSE None
    ELSE IF AuthBot(r) # None
    THEN IF Wanted(r, t) \in {None, AuthBot(r)} THEN AuthBot(r) ELSE None
    ELSE IF Wanted(r, t) \in server.names THEN Wanted(r, t) ELSE None

(* client.Token = tok is two words, written without synchronization: these *)
(* requests are about to write one.                                        *)
Storing(b) == {q \in Requests : pc[q] \in {"store", "restore"} /\ route[q].bot = b}

(* The test for an empty token reads its length alone: while another       *)
(* request stores a token it may see one that is not there yet.            *)
AfterTokenTest(b) ==
    IF token[b] # NoToken THEN {"send"}
    ELSE IF Storing(b) # {} THEN {"login", "send"}
    ELSE {"login"}

(* Resolve the chat, then its bot; authenticate first if there is no token.*)
BeginTarget(r) ==
    LET t == Target(r)
        b == RequestBot(r, t)
    IN  /\ pc[r] = "target"
        /\ MoreToDo(r)
        /\ IF ~ChatKnown(t) \/ b = None
           THEN Fail(r) /\ UNCHANGED disturbed
           ELSE /\ route' = [route EXCEPT ![r] = [chat |-> ChatOf(t), bot |-> b]]
                /\ \E p \in AfterTokenTest(b) : pc' = [pc EXCEPT ![r] = p]
                /\ disturbed' = disturbed \ {r}
                /\ UNCHANGED <<i, fresh, used, outcome, answer>>
        /\ UNCHANGED <<server, senderVars, delivered>>

(* refreshToken: a token from the API, whatever the cache holds.  At       *)
(* "login" the sender had none, at "refresh" it was refused.               *)
\* MUTANT: a token the sender holds is taken for fresh.
FreshFromSender(r) == IF token[route[r].bot] # NoToken THEN token[route[r].bot]
                      ELSE epoch[route[r].bot]

FreshToken(r) == epoch[route[r].bot]

Refresh(r) ==
    /\ pc[r] \in {"login", "refresh"}
    /\ \/ /\ fresh' = [fresh EXCEPT ![r] = FreshToken(r)]
          /\ pc' = [pc EXCEPT ![r] = IF pc[r] = "login" THEN "store" ELSE "restore"]
          /\ UNCHANGED <<i, route, used, outcome, answer>>
       \/ Fail(r)
    /\ UNCHANGED <<server, senderVars, delivered, disturbed>>

(* client.Token = tok.                                                     *)
Store(r) ==
    /\ pc[r] \in {"store", "restore"}
    /\ token' = [token EXCEPT ![route[r].bot] = fresh[r]]
    /\ pc' = [pc EXCEPT ![r] = IF pc[r] = "store" THEN "send" ELSE "resend"]
    /\ disturbed' = disturbed \cup {q \in Requests \ {r} : route[q].bot = route[r].bot}
    /\ UNCHANGED <<server, epoch, i, route, fresh, used, outcome, answer, delivered>>

(* What a read of the token may return: its value, or while another        *)
(* request stores one, that one or a mix of the two.                       *)
TokensRead(b) ==
    {token[b]} \cup
    (IF Storing(b) = {} THEN {} ELSE {fresh[q] : q \in Storing(b)} \cup {Torn})

(* The request goes out with the token as it is read.  The new length on   *)
(* the nil pointer of an empty string is a panic, which net/http recovers: *)
(* the connection ends without a response.                                 *)
Call(r) ==
    LET b == route[r].bot IN
    /\ pc[r] \in {"send", "resend"}
    /\ \/ \E t \in TokensRead(b) :
              /\ used' = [used EXCEPT ![r] = t]
              /\ pc' = [pc EXCEPT ![r] = IF pc[r] = "send" THEN "sent" ELSE "resent"]
       \/ /\ token[b] = NoToken /\ Storing(b) # {}
          /\ pc' = [pc EXCEPT ![r] = "aborted"]
          /\ UNCHANGED used
    /\ disturbed' = IF Storing(b) # {} THEN disturbed \cup {r} ELSE disturbed
    /\ UNCHANGED <<server, senderVars, i, route, fresh, outcome, answer, delivered>>

TokenAccepted(r) == used[r] = epoch[route[r].bot]

Accept(r) ==
    delivered' = [delivered EXCEPT ![r] =
        Append(@, [chat |-> route[r].chat, bot |-> route[r].bot, target |-> Target(r)])]

CallOK(r) ==
    /\ pc[r] \in {"sent", "resent"}
    /\ TokenAccepted(r)
    /\ Accept(r)
    /\ NextTarget(r)
    /\ Advance(r)
    /\ outcome' = [outcome EXCEPT ![r][Target(r)] = "sent"]
    /\ UNCHANGED <<server, senderVars, disturbed>>

(* 401: a static token is given up, another one refreshed once.            *)
CallUnauthorized(r) ==
    /\ pc[r] \in {"sent", "resent"}
    /\ ~TokenAccepted(r)
    /\ IF pc[r] = "sent" /\ route[r].bot \notin StaticBots
       THEN /\ pc' = [pc EXCEPT ![r] = "refresh"]
            /\ UNCHANGED <<i, route, fresh, used, outcome, answer>>
       ELSE Fail(r)
    /\ UNCHANGED <<server, senderVars, delivered, disturbed>>

\* MUTANT: the message is sent again after any error.
FailAndResend(r) ==
    IF pc[r] = "sent"
    THEN /\ pc' = [pc EXCEPT ![r] = "resend"]
         /\ UNCHANGED <<i, route, fresh, used, outcome, answer>>
    ELSE Fail(r)

GiveUp(r) == Fail(r)

(* Any other error; BotX may have accepted the message all the same.       *)
CallError(r) ==
    /\ pc[r] \in {"sent", "resent"}
    /\ GiveUp(r)
    /\ UNCHANGED delivered \/ (TokenAccepted(r) /\ Accept(r))
    /\ UNCHANGED <<server, senderVars, disturbed>>

\* MUTANT: 200 only if nothing failed.
AllOrNothing(r) ==
    IF \A t \in TargetsOf[r] : outcome[r][t] = "sent" THEN "accepted" ELSE "failed"

(* writeMultiSend: 200 if at least one target was delivered, else 502.     *)
StatusOf(r) ==
    IF \E t \in TargetsOf[r] : outcome[r][t] = "sent" THEN "accepted" ELSE "failed"

Answer(r) ==
    /\ pc[r] = "target"
    /\ ~MoreToDo(r)
    /\ Respond(r, StatusOf(r))
    /\ UNCHANGED <<server, senderVars>>

-----------------------------------------------------------------------------
(* The API expires or revokes a bot's token.                               *)
Revoke(b) ==
    /\ epoch[b] < MaxEpoch
    /\ epoch' = [epoch EXCEPT ![b] = @ + 1]
    /\ disturbed' = disturbed \cup {r \in Requests : route[r].bot = b}
    /\ UNCHANGED <<server, token, requestVars, delivered>>

RequestStep(r) ==
    \/ Arrive(r) \/ BeginTarget(r) \/ Refresh(r) \/ Store(r) \/ Call(r)
    \/ CallOK(r) \/ CallUnauthorized(r) \/ CallError(r) \/ Answer(r)

Next ==
    \/ \E r \in Requests : RequestStep(r)
    \/ \E b \in Bots : Revoke(b)

Spec == Init /\ [][Next]_vars

-----------------------------------------------------------------------------
Place == {"new", "target", "login", "store", "send", "sent", "refresh", "restore",
          "resend", "resent", "aborted", "done"}

Names == UNION {TargetsOf[r] : r \in Requests}

TypeOK ==
    /\ server \in Servers
    /\ token \in [Bots -> 0..Torn] /\ epoch \in [Bots -> 1..Torn]
    /\ pc \in [Requests -> Place]
    /\ i \in [Requests -> Nat \ {0}]
    /\ route \in [Requests -> [chat : ChatIds, bot : Bots] \cup {NoRoute}]
    /\ fresh \in [Requests -> 0..Torn] /\ used \in [Requests -> 0..Torn]
    /\ outcome = [r \in Requests |-> outcome[r]]
    /\ answer \in [Requests -> {"none", "accepted", "failed", "forbidden", "invalid"}]
    /\ delivered \in [Requests -> Seq([chat : ChatIds, bot : Bots, target : Names])]
    /\ disturbed \subseteq Requests
    /\ \A r \in Requests :
           /\ outcome[r] \in [TargetsOf[r] -> {"pending", "sent", "failed"}]
           /\ i[r] <= Len(Targets[r]) + 1
           /\ \A k \in DOMAIN Targets[r] :
                  outcome[r][Targets[r][k]] = "pending" <=> k >= i[r]

(* A scoped key's request that names, or falls back to, any chat outside   *)
(* the scope or one that does not resolve reaches no chat at all           *)
(* (server/auth.go, authorizeTargets before the fan-out).                  *)
ScopedAllOrNothing ==
    \A r \in Requests :
        Scoped(r) /\ delivered[r] # <<>> =>
            \A t \in TargetsOf[r] : ChatKnown(t) /\ ChatOf(t) \in Req[r].cred.scope

(* A message leaves by the bot its request was signed by, if the server    *)
(* has several and it was signed; else by the bot the request names or, if *)
(* it names none, the one the chat is bound to; a nameless or single bot   *)
(* answers for no other (server/server.go, resolveRequestBot).             *)
RightBot ==
    \A r \in Requests : \A k \in DOMAIN delivered[r] :
        LET d == delivered[r][k] IN
        /\ server.names # {} /\ AuthBot(r) # None => d.bot = AuthBot(r)
        /\ Req[r].bot # None => d.bot = Req[r].bot
        /\ Req[r].bot = None /\ BoundBot(d.target) # None => d.bot = BoundBot(d.target)
        /\ d.chat = ChatOf(d.target)

(* The resend after a 401 never sends a message twice: BotX accepts at     *)
(* most one per target of a request (cmd/serve.go, botSender.Send).        *)
OncePerTarget ==
    \A r \in Requests : \A k, l \in DOMAIN delivered[r] :
        delivered[r][k].target = delivered[r][l].target => k = l

(* A resend carries a token the API accepts, unless the token was revoked, *)
(* or another request was storing one, since the target was begun          *)
(* (cmd/serve.go, botSender.Send: the refresh goes to the API, not to the  *)
(* token the process or its cache holds).                                  *)
RefreshHeals ==
    \A r \in Requests :
        pc[r] = "resent" /\ r \notin disturbed => TokenAccepted(r)

(* A synchronous send is a fan-out as the server promises it.              *)
F == INSTANCE Fanout WITH
        reached <- [r \in Requests |->
                       {delivered[r][k].target : k \in DOMAIN delivered[r]}]

KeepsFanout == F!Spec
=============================================================================
