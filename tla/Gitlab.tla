-------------------------------- MODULE Gitlab --------------------------------
(***************************************************************************)
(* POST /gitlab: "serve" builds the senders of its configuration, or does  *)
(* not start; an event is authenticated by a sender's token, filtered,     *)
(* rendered, and delivered to the chats the request names or the sender's  *)
(* routes say (internal/server/handler_gitlab.go).  Requests share nothing *)
(* but the bots, which SyncSend is about: one at a time here.              *)
(***************************************************************************)
EXTENDS GitlabRules

CONSTANTS
    Confs,    \* the configurations
    Payloads, \* the events
    Tokens,   \* the values of X-Gitlab-Token
    Queries   \* the chat_id of the query: Missing, or a sequence

(* What "config validate" and the table of aliases leave: ids are UUIDs,   *)
(* lists are lists, and a glob is tried on text.  A server of several bots *)
(* has a file of several.                                                  *)
IsList(v) == v \in Seq(Range(v))

IsConf(c) ==
    /\ \A a \in DOMAIN c.chats : c.chats[a].id \in ChatIds \cup {Missing}
    /\ c.multi => c.several
    /\ IsList(c.senders)
    /\ \A k \in DOMAIN c.senders :
           LET s == c.senders[k] IN
           /\ IsList(s.chats) /\ IsList(s.routes)
           /\ s.broken \cup s.failing \cup s.blank \subseteq {Canon(t) : t \in s.templates}
           /\ \A n \in DOMAIN s.routes :
                  /\ IsList(s.routes[n].chats)
                  /\ \A sel \in DOMAIN s.routes[n].match \ {"event"} :
                     \A pat \in s.routes[n].match[sel] :
                         \/ pat.regex
                         \/ /\ IsList(pat.parts) /\ pat.parts # <<>>
                            /\ \A i \in DOMAIN pat.parts : IsList(pat.parts[i])
                            /\ \A p \in Payloads : \A v \in SelectorValues(p, sel) : IsList(v)

ASSUME GitlabAssumption ==
    /\ Missing \notin ChatIds
    /\ \A c \in Confs : IsConf(c)
    /\ \A q \in Queries : q = Missing \/ IsList(q)

VARIABLES conf, up, req, targets, results, errors, response

gitlabVars == <<conf, up, req, targets, results, errors, response>>

NoRequest == [none |-> TRUE]

GitlabInit ==
    /\ conf \in Confs
    /\ up = "starting"
    /\ req = NoRequest
    /\ targets = <<>> /\ results = <<>> /\ errors = <<>>
    /\ response = "none"

Boot ==
    /\ up = "starting"
    /\ up' = IF Starts(conf) THEN "up" ELSE "refused"
    /\ UNCHANGED <<conf, req, targets, results, errors, response>>

-----------------------------------------------------------------------------
Sender == conf.senders[req.sender]

(* resolveGitlabAuth                                                       *)
SendersOf(token) == {k \in DOMAIN conf.senders : conf.senders[k].secret = token}

(* senderScopeTargets: the scope's target for what the query names, if it  *)
(* is in the scope and would not change the bot.                           *)
InScope(c, s, ref) ==
    {e \in Scope(c, s) :
        IF \E d \in Scope(c, s) : d.id = ref THEN e.id = ref
        ELSE \E r \in Resolved(c, ref) : e.id = r.id /\ ~BotConflict(e, ref, r.bot)}

QueryTargets(c, s, q) ==
    Distinct([k \in DOMAIN q |-> (CHOOSE e \in InScope(c, s, q[k]) : TRUE).target])

BadRequest == [response |-> "invalid", to |-> <<>>]

Decision(c, s, p, q) ==
    IF ~PassesFilter(s, p) THEN [response |-> "ignored", to |-> <<>>]
    ELSE IF Template(s, p) \in s.failing THEN BadRequest
    ELSE IF Template(s, p) \in s.blank THEN [response |-> "ignored", to |-> <<>>]
    ELSE IF q = <<>> THEN BadRequest
    ELSE IF q # Missing
    THEN IF \E k \in DOMAIN q : InScope(c, s, q[k]) = {} THEN [response |-> "forbidden", to |-> <<>>]
         ELSE [response |-> "none", to |-> QueryTargets(c, s, q)]
    ELSE IF s.routes = <<>> THEN [response |-> "none", to |-> Distinct(s.chats)]
    ELSE IF MatchingRoutes(s.routes, p) = {} THEN [response |-> "ignored", to |-> <<>>]
    ELSE [response |-> "none", to |-> EvaluateRoutes(CompiledRoutes(c, s), p)]

(* The event, or a body that is no JSON.                                   *)
Receive(token, p, q) ==
    /\ up = "up" /\ req = NoRequest
    /\ IF SendersOf(token) = {}
       THEN req' = [sender |-> 0] /\ response' = "unauthorized" /\ UNCHANGED targets
       ELSE \E k \in SendersOf(token) :
            \E d \in {Decision(conf, conf.senders[k], p, q), BadRequest} :
                /\ req' = [sender |-> k, payload |-> p, query |-> q]
                /\ response' = d.response
                /\ targets' = d.to
    /\ UNCHANGED <<conf, up, results, errors>>

(* fanoutSend: the chat is resolved again, the bot is the one bound.       *)
Deliver ==
    /\ Len(results) + Len(errors) < Len(targets)
    /\ LET t == targets[Len(results) + Len(errors) + 1] IN
       \/ \E c \in Resolved(conf, t) :
              /\ results' = Append(results, [target |-> t, id |-> c.id, bot |-> c.bot])
              /\ UNCHANGED errors
       \/ errors' = Append(errors, t) /\ UNCHANGED results
    /\ UNCHANGED <<conf, up, req, targets, response>>

(* gitlabDeliver, writeMultiSend                                           *)
Respond ==
    /\ response = "none" /\ targets # <<>>
    /\ Len(results) + Len(errors) = Len(targets)
    /\ response' = IF results # <<>> THEN "delivered" ELSE "failed"
    /\ UNCHANGED <<conf, up, req, targets, results, errors>>

GitlabNext ==
    \/ Boot
    \/ \E t \in Tokens, p \in Payloads, q \in Queries : Receive(t, p, q)
    \/ Deliver \/ Respond

GitlabSpec == GitlabInit /\ [][GitlabNext]_gitlabVars

-----------------------------------------------------------------------------
(* What "config validate" passes, "serve" starts with, unless only "serve" *)
(* can know better: a hidden id, references to one secret or to an empty   *)
(* one, several bots and a warning of it, and templates, which "config     *)
(* validate" does not read.  What "serve" starts with, it passes, and a    *)
(* server of several bots starts with nothing it warned of.  The two are   *)
(* separate translations of the same rules, kept together by hand          *)
(* (config.go, validateCrossReferences; serve.go, buildGitlabSender).      *)
OfflineAgrees ==
    /\ up = "up" => ~Rejected(conf) /\ (conf.multi => ~Warned(conf))
    /\ up = "refused" =>
        \/ Rejected(conf)
        \/ conf.multi /\ Warned(conf)
        \/ \E a \in DOMAIN conf.chats : conf.chats[a].hidden
        \/ \E k \in DOMAIN conf.senders :
               conf.senders[k].secret = Missing \/ conf.senders[k].broken # {}
        \/ \E k, m \in DOMAIN conf.senders :
               k # m /\ conf.senders[k].secret = conf.senders[m].secret

(* Whether the parts of a glob cover the value in order, ends included.    *)
Globbed(parts, v) ==
    \E at \in [DOMAIN parts -> 1..Len(v) + 1] :
        /\ at[1] = 1 /\ at[Len(parts)] + Len(parts[Len(parts)]) = Len(v) + 1
        /\ \A k \in DOMAIN parts :
               Occurs(v, parts[k], at[k]) /\ (k > 1 => at[k] >= at[k - 1] + Len(parts[k - 1]))

Matched(p, r) ==
    \A sel \in DOMAIN r.match :
        IF sel = "event" THEN EventMatches(p, r.match[sel])
        ELSE \E v \in SelectorValues(p, sel), pat \in r.match[sel] :
                 IF pat.regex THEN v \in pat.values ELSE Globbed(pat.parts, v)

(* The references an event is for: those of the query, of the routes that  *)
(* match with no stopping match before them, or all the sender's.          *)
Asked ==
    IF req.query # Missing THEN Range(req.query)
    ELSE IF Sender.routes = <<>> THEN Range(Sender.chats)
    ELSE UNION {Range(Sender.routes[k].chats) : k \in {n \in DOMAIN Sender.routes :
             /\ Matched(req.payload, Sender.routes[n])
             /\ \A m \in 1..n - 1 : Sender.routes[m].stop
                                        => ~Matched(req.payload, Sender.routes[m])}}

(* An event reaches the chats it is for, each once and under whatever      *)
(* aliases it is asked for, none outside the sender's scope, and from the  *)
(* bot of the alias it is asked for if that has one.                       *)
RoutedOnce ==
    targets # <<>> /\ Len(results) + Len(errors) = Len(targets) =>
        LET ids == {c.id : c \in UNION {Resolved(conf, a) : a \in Asked}}
            scope == UNION {Resolved(conf, t) : t \in TargetRefs(Sender)}
        IN  /\ Len(targets) = Cardinality(ids)
            /\ {results[k].id : k \in DOMAIN results} \subseteq ids
            /\ \A k, m \in DOMAIN results : results[k].id = results[m].id => k = m
            /\ \A k \in DOMAIN results :
                   /\ [id |-> results[k].id, bot |-> results[k].bot] \in scope
                   /\ \A a \in Asked \ ChatIds : \A c \in Resolved(conf, a) :
                          c.id = results[k].id /\ c.bot # Missing /\ results[k].bot # Missing
                              => results[k].bot = c.bot
=============================================================================
