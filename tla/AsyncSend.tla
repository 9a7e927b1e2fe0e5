------------------------------ MODULE AsyncSend ------------------------------
(***************************************************************************)
(* POST /send in asynchronous mode (internal/server/handler_send.go, the   *)
(* send function of internal/cmd/serve.go, runServeEnqueue): a request is  *)
(* authorized and validated, then each target is routed through the        *)
(* catalog cache and becomes a message on the work queue.                  *)
(*                                                                         *)
(* Requests run concurrently, with each other and with the consumer that   *)
(* replaces the cached snapshot.  The catalog's max_age is a choice: a     *)
(* look at the cache may find the snapshot too old at any time.            *)
(***************************************************************************)
EXTENDS Catalog, FiniteSets

CONSTANTS
    Requests,
    Req,        \* [Requests -> records]: the payload and the key's scope
    ChatIds,    \* chat UUIDs
    BotIds,     \* bot UUIDs
    None,       \* an empty field
    MaxRequests,\* bound: requests served, of those in Requests
    ChatsOf,    \* [Snapshot -> [aliases -> [chat, bot]]]: CatalogSnapshot.Chats
    BotsOf      \* [Snapshot -> [aliases -> bot UUIDs]]: CatalogSnapshot.Bots

(* What a request may name as a target.                                    *)
Name == ChatIds \cup UNION {DOMAIN ChatsOf[v] : v \in Snapshot}

ASSUME AsyncAssumption ==
    /\ None \notin BotIds \cup ChatIds
    /\ MaxRequests \in Nat
    /\ \A r \in Requests :
           /\ Req[r].mode \in {"direct", "catalog", "mixed"}
           /\ Req[r].bot \notin BotIds
           /\ Req[r].targets \in Seq(Name)
           /\ Len(Req[r].targets) > 0                   \* parseChatIDs
           /\ \A k, l \in 1..Len(Req[r].targets) :
                  Req[r].targets[k] = Req[r].targets[l] => k = l
           /\ Req[r].scope \subseteq ChatIds
    /\ \A v \in Snapshot : \A a \in DOMAIN ChatsOf[v] :
           ChatsOf[v][a].chat \in ChatIds /\ ChatsOf[v][a].bot \notin BotIds
    /\ \A v \in Snapshot : \A a \in DOMAIN BotsOf[v] : BotsOf[v][a] \in BotIds

VARIABLES
    at,        \* where each request is
    i,         \* the target it is at
    snap,      \* the snapshot it took for that target
    route,     \* the routing of that target's message
    results,   \* the targets queued
    errs,      \* <<target, error>> pairs
    denied,    \* handleSend's counter of refused targets
    answer,    \* the response
    queue      \* the messages on the work queue

requestVars == <<at, i, snap, route, results, errs, denied, answer>>
vars        == <<catalogVars, requestVars, queue>>

At    == {"new", "look", "resolve", "publish", "done"}
Error == {"not_allowed", "unresolved", "other"}

Targets(r)  == {Req[r].targets[k] : k \in 1..Len(Req[r].targets)}
Target(r)   == Req[r].targets[i[r]]
MoreToDo(r) == i[r] <= Len(Req[r].targets)
Route       == [chat : ChatIds, bot : BotIds, via : Snapshot \cup {NoSnapshot}]
NoRoute     == [chat |-> None, bot |-> None, via |-> NoSnapshot]
Message     == [req : Requests, target : Name, route : Route]

TypeOK ==
    /\ CatalogTypeOK
    /\ at \in [Requests -> At]
    /\ i \in [Requests -> Nat \ {0}]
    /\ snap \in [Requests -> Snapshot \cup {NoSnapshot}]
    /\ route \in [Requests -> Route \cup {NoRoute}]
    /\ results \in [Requests -> SUBSET Name]
    /\ errs \in [Requests -> SUBSET (Name \X Error)]
    /\ denied \in [Requests -> Nat]
    /\ answer \in [Requests -> {"none", "accepted", "forbidden", "invalid", "failed"}]
    /\ queue \subseteq Message
    /\ \A r \in Requests :
           /\ i[r] <= Len(Req[r].targets) + 1
           /\ at[r] \in {"resolve", "publish"} => MoreToDo(r)
           /\ at[r] = "publish" => route[r] \in Route
           /\ denied[r] < i[r]

Init ==
    /\ CatalogInit
    /\ at = [r \in Requests |-> "new"]
    /\ i = [r \in Requests |-> 1]
    /\ snap = [r \in Requests |-> NoSnapshot]
    /\ route = [r \in Requests |-> NoRoute]
    /\ results = [r \in Requests |-> {}]
    /\ errs = [r \in Requests |-> {}]
    /\ denied = [r \in Requests |-> 0]
    /\ answer = [r \in Requests |-> "none"]
    /\ queue = {}

-----------------------------------------------------------------------------
(* Before the fan-out.                                                     *)

Scoped(r) == Req[r].scope # {}

ChatAllowed(r, chat) == Scoped(r) => chat \in Req[r].scope

(* authorizeTargets without resolution: aliases are left for later.        *)
Authorized(r) == \A t \in Targets(r) \cap ChatIds : ChatAllowed(r, t)

ValidRouting(r, t) ==
    IF Req[r].mode = "direct"
    THEN Req[r].botID \in BotIds /\ t \in ChatIds
    ELSE t \in ChatIds => Req[r].botID # None \/ Req[r].bot # None

Respond(r, a) ==
    /\ at' = [at EXCEPT ![r] = "done"]
    /\ answer' = [answer EXCEPT ![r] = a]
    /\ UNCHANGED <<i, snap, route, results, errs, denied, queue>>

Arrive(r) ==
    /\ at[r] = "new"
    /\ Cardinality({q \in Requests : at[q] # "new"}) < MaxRequests
    /\ IF ~Authorized(r) THEN Respond(r, "forbidden")
       ELSE IF \E t \in Targets(r) : ~ValidRouting(r, t) THEN Respond(r, "invalid")
       ELSE /\ at' = [at EXCEPT ![r] = "look"]
            /\ UNCHANGED <<i, snap, route, results, errs, denied, answer, queue>>

-----------------------------------------------------------------------------
(* The send function, target by target.                                    *)

\* MUTANT: any error counts as a refusal.
CountsAnyError(r, e) == TRUE

CountsAsDenied(r, e) == e = "not_allowed" \/ (e = "unresolved" /\ Scoped(r))

\* MUTANT: the next target goes the way of this one, without a look of its own.
NextTargetUnseen(r) ==
    /\ i' = [i EXCEPT ![r] = @ + 1]
    /\ UNCHANGED <<at, snap, route, answer>>

NextTarget(r) ==
    /\ i' = [i EXCEPT ![r] = @ + 1]
    /\ at' = [at EXCEPT ![r] = "look"]
    /\ snap' = [snap EXCEPT ![r] = NoSnapshot]
    /\ route' = [route EXCEPT ![r] = NoRoute]
    /\ UNCHANGED answer

Fail(r, e) ==
    /\ NextTarget(r)
    /\ errs' = [errs EXCEPT ![r] = @ \cup {<<Target(r), e>>}]
    /\ denied' = [denied EXCEPT ![r] = IF CountsAsDenied(r, e) THEN @ + 1 ELSE @]
    /\ UNCHANGED results

NeedsCatalog(r) ==
    \/ Req[r].mode = "catalog"
    \/ Req[r].mode = "mixed" /\ ~(Req[r].botID \in BotIds /\ Target(r) \in ChatIds)

(* catalogCache.Get, once per target: nothing when there is no snapshot or *)
(* it has expired.                                                         *)
Look(r) ==
    /\ at[r] = "look"
    /\ MoreToDo(r)
    /\ \/ /\ ~NeedsCatalog(r) \/ mem # NoSnapshot
          /\ snap' = [snap EXCEPT ![r] = IF NeedsCatalog(r) THEN mem ELSE NoSnapshot]
          /\ at' = [at EXCEPT ![r] = "resolve"]
          /\ UNCHANGED <<i, route, results, errs, denied, answer>>
       \/ NeedsCatalog(r) /\ Fail(r, "other")
    /\ UNCHANGED queue

(* Chats and bots are named by their UUID or by an alias of the snapshot.  *)
ChatKnown(v, t) == t \in ChatIds \/ (v # NoSnapshot /\ t \in DOMAIN ChatsOf[v])
ChatOf(v, t)    == IF t \in ChatIds THEN t ELSE ChatsOf[v][t].chat

(* bot_id, else the request's bot, else the bot bound to a chat alias.     *)
BotNamed(r, v, t) ==
    IF Req[r].botID # None THEN Req[r].botID
    ELSE IF Req[r].bot # None \/ t \in ChatIds THEN Req[r].bot
    ELSE ChatsOf[v][t].bot

BotKnown(v, b) == b \in BotIds \/ (v # NoSnapshot /\ b \in DOMAIN BotsOf[v])
BotOf(v, b)    == IF b \in BotIds THEN b ELSE BotsOf[v][b]

\* MUTANT: the bot is looked up in the cache again.
BotSourceFresh(r) == mem

BotSource(r) == snap[r]

\* MUTANT: the scope is applied to the target as the request names it.
ScopeTestedOnName(r, t, chat) == t \in ChatIds => ChatAllowed(r, t)

ScopeTest(r, t, chat) == ChatAllowed(r, chat)

Resolve(r) ==
    LET t == Target(r)
        v == snap[r]
        b == BotNamed(r, v, t)
        chat == ChatOf(v, t)
    IN  /\ at[r] = "resolve"
        /\ IF ~ChatKnown(v, t) THEN Fail(r, "unresolved")
           ELSE IF ~BotKnown(BotSource(r), b) THEN Fail(r, "other")
           ELSE IF ~ScopeTest(r, t, chat) THEN Fail(r, "not_allowed")
           ELSE /\ route' = [route EXCEPT ![r] =
                       [chat |-> chat, bot |-> BotOf(BotSource(r), b), via |-> v]]
                /\ at' = [at EXCEPT ![r] = "publish"]
                /\ UNCHANGED <<i, snap, results, errs, denied, answer>>
        /\ UNCHANGED queue

MessageFor(r) == [req |-> r, target |-> Target(r), route |-> route[r]]

(* PublishWork returned nil.  RabbitMQ was not asked for a confirmation    *)
(* and may have lost the message.                                          *)
PublishOK(r) ==
    /\ at[r] = "publish"
    /\ NextTarget(r)
    /\ results' = [results EXCEPT ![r] = @ \cup {Target(r)}]
    /\ \/ queue' = queue \cup {MessageFor(r)}
       \/ ~Durable /\ UNCHANGED queue
    /\ UNCHANGED <<errs, denied>>

(* PublishWork failed, or its answer was lost or came too late.            *)
PublishFails(r) ==
    /\ at[r] = "publish"
    /\ Fail(r, "other")
    /\ queue' \in {queue, queue \cup {MessageFor(r)}}

\* MUTANT: accepted only if nothing failed.
AllOrNothing(r) ==
    IF errs[r] = {} THEN "accepted"
    ELSE IF denied[r] = Len(Req[r].targets) THEN "forbidden" ELSE "failed"

(* 202 if at least one target was queued, 403 if all were refused, or 502. *)
StatusOf(r) ==
    IF results[r] # {} THEN "accepted"
    ELSE IF denied[r] = Len(Req[r].targets) THEN "forbidden" ELSE "failed"

(* After the fan-out.                                                      *)
Answer(r) ==
    /\ at[r] = "look"
    /\ ~MoreToDo(r)
    /\ Respond(r, StatusOf(r))

RequestStep(r) ==
    \/ Arrive(r) \/ Look(r) \/ Resolve(r)
    \/ PublishOK(r) \/ PublishFails(r) \/ Answer(r)

Next ==
    \/ CatalogStep /\ UNCHANGED <<requestVars, queue>>
    \/ \E r \in Requests : RequestStep(r) /\ UNCHANGED catalogVars

Spec == Init /\ [][Next]_vars

-----------------------------------------------------------------------------
(* A scoped key's messages go to chats of its scope only, whatever an      *)
(* alias means in the catalog and whenever that changes (cmd/serve.go,     *)
(* ChatAllowed after the resolution).                                      *)
ScopeHeld == \A m \in queue : ChatAllowed(m.req, m.route.chat)

(* Chat and bot of a message come from one snapshot, the one its routing   *)
(* names as the catalog revision, though the cache may have changed while  *)
(* it was being resolved.                                                  *)
RoutedByOneSnapshot ==
    \A m \in queue :
        LET b == BotNamed(m.req, m.route.via, m.target)
        IN  /\ m.route.chat = ChatOf(m.route.via, m.target)
            /\ BotKnown(m.route.via, b)
            /\ m.route.bot = BotOf(m.route.via, b)

Stored(r) == {m.target : m \in {q \in queue : q.req = r}}

(* A request answered 403 or 400 has put nothing on the queue, and one     *)
(* answered 202 on Kafka has put there what it reports.                    *)
AnswerIsTrue ==
    \A r \in Requests :
        /\ answer[r] \in {"forbidden", "invalid"} => Stored(r) = {}
        /\ Durable => results[r] \subseteq Stored(r)

(* An asynchronous send is a fan-out as the server promises it.            *)
OutcomeOf(r, t) ==
    IF t \in results[r] THEN "sent"
    ELSE IF \E e \in Error : <<t, e>> \in errs[r] /\ CountsAsDenied(r, e) THEN "denied"
    ELSE IF \E e \in Error : <<t, e>> \in errs[r] THEN "failed"
    ELSE "pending"

TargetsOf == [r \in Requests |-> Targets(r)]

F == INSTANCE Fanout WITH
        outcome   <- [r \in Requests |-> [t \in Targets(r) |-> OutcomeOf(r, t)]],
        reached   <- [r \in Requests |-> Stored(r)]

KeepsFanout == F!Spec
=============================================================================
