----------------------------- MODULE GitlabRules -----------------------------
(***************************************************************************)
(* The rules of a GitLab webhook sender: which events pass, which chats an *)
(* event goes to (internal/server/gitlab_routing.go, handler_gitlab.go),   *)
(* what "serve" makes of a configured sender at startup                    *)
(* (internal/cmd/serve.go) and what "config validate" says of it without   *)
(* secrets and flags (internal/config/config.go).  All operators are pure. *)
(*                                                                         *)
(*   conf    [chats : aliases -> [id, bot, hidden], several, multi,        *)
(*            senders : Seq(sender)]; the id of a hidden chat is a         *)
(*            reference to a secret, which only "serve" resolves           *)
(*   sender  [name, secret, literal, chats : Seq(refs), routes : Seq(route)*)
(*            only, exclude, templates : sets of keys, broken, failing,    *)
(*            blank]; literal is the secret as it is written, or the       *)
(*            reference to it; of the templates, inline or in files, the   *)
(*            broken cannot be read or parsed, the failing not be executed,*)
(*            and the blank render nothing                                 *)
(*   route   [match : selectors -> sets of patterns, chats : Seq, stop]    *)
(*   payload [kind, action, noteable, status, build, top, target, mrTarget,*)
(*            ref, oaRef, labels]                                          *)
(*   key     [kind, sub]: an event key; sub may be Missing or AnySub       *)
(***************************************************************************)
EXTENDS Naturals, SequencesExt

CONSTANTS
    ChatIds,  \* chat UUIDs
    Missing,  \* an empty or missing field
    AnySub    \* the subtype "*"

First(x, y) == IF x # Missing THEN x ELSE y

-----------------------------------------------------------------------------
(* What an event is                                                        *)

(* deriveEventKey                                                          *)
Subtype(p) ==
    CASE p.kind \in {"merge_request", "issue"} -> p.action
      [] p.kind = "note"                       -> p.noteable
      [] p.kind = "pipeline"                   -> p.status
      [] p.kind = "build"                      -> p.build
      [] p.kind \in {"push", "tag_push"}       -> Missing
      [] OTHER -> First(p.action, First(p.status, p.top))

(* gitlabBranch; the prefix of a ref is left out.                          *)
Branch(p) ==
    CASE p.kind \in {"merge_request", "note"}     -> First(p.target, p.mrTarget)
      [] p.kind \in {"push", "tag_push", "build"} -> p.ref
      [] p.kind = "pipeline"                      -> p.oaRef
      [] OTHER                                    -> Missing

EventMatches(p, keys) ==
    \E k \in keys : k.kind = p.kind /\ k.sub \in {Missing, AnySub, Subtype(p)}

PassesFilter(s, p) ==
    /\ s.only # {} => EventMatches(p, s.only)
    /\ ~EventMatches(p, s.exclude)

Canon(k) == IF k.sub = AnySub THEN [k EXCEPT !.sub = Missing] ELSE k

(* DefaultGitlabTemplates: the keys there is a template for anyway.        *)
BuiltIn ==
    [kind : {"merge_request"}, sub : {"open", "merge", "close"}]
        \cup [kind : {"note"}, sub : {"MergeRequest"}]
        \cup [kind : {"push", "tag_push", "pipeline", "issue", "default"}, sub : {Missing}]

(* ParseGitlabTemplates, selectTemplate: the key of the template rendered. *)
(* A built-in one of the event's own key comes before the sender's own for *)
(* the kind; the default can be the sender's as well.                      *)
Template(s, p) ==
    LET exact == [kind |-> p.kind, sub |-> Subtype(p)]
        all   == [kind |-> p.kind, sub |-> Missing]
        keys  == BuiltIn \cup {Canon(k) : k \in s.templates}
    IN  CASE exact \in keys -> exact [] exact \notin keys /\ all \in keys -> all
          [] OTHER -> [kind |-> "default", sub |-> Missing]

Ambiguous(s) == \E k, l \in s.templates : k # l /\ Canon(k) = Canon(l)

-----------------------------------------------------------------------------
(* Patterns.  A glob is the sequence of its parts between the asterisks.   *)

Occurs(v, part, at) ==
    at + Len(part) <= Len(v) + 1 /\ SubSeq(v, at, at + Len(part) - 1) = part

(* Where what follows the part's first occurrence begins; beyond the end   *)
(* of the value if there is none.                                          *)
AfterPart(v, part, from) ==
    LET found == {at \in from..Len(v) + 1 : Occurs(v, part, at)}
    IN  IF found = {} THEN Len(v) + 2 ELSE Min(found) + Len(part)

(* Every part but the ends is looked for in what the one before it left.   *)
GlobMatch(parts, v) ==
    LET n == Len(parts)
        rest[k \in 0..n - 1] == IF k = 0 THEN 1 ELSE AfterPart(v, parts[k], rest[k - 1])
        last == Len(v) + 1 - Len(parts[n])
    IN  IF n = 1 THEN v = parts[1]
        ELSE Occurs(v, parts[1], 1) /\ rest[n - 1] <= last /\ Occurs(v, parts[n], last)

(* compilePattern: a regular expression is the set of values it matches.   *)
PatternMatches(pat, v) ==
    IF pat.regex THEN v \in pat.values ELSE GlobMatch(pat.parts, v)

(* resolveSelector: the values under a selector; "labels" stands for any   *)
(* path into the payload.                                                  *)
SelectorValues(p, sel) ==
    CASE sel = "kind"   -> {p.kind} \ {Missing}
      [] sel = "branch" -> {Branch(p)} \ {Missing}
      [] sel = "labels" -> p.labels

ConditionMatches(p, sel, patterns) ==
    IF sel = "event" THEN EventMatches(p, patterns)
    ELSE \E v \in SelectorValues(p, sel), pat \in patterns : PatternMatches(pat, v)

RouteMatches(p, r) == \A sel \in DOMAIN r.match : ConditionMatches(p, sel, r.match[sel])

(* A list without the repetitions.                                         *)
Distinct(q) ==
    LET d[k \in 0..Len(q)] ==
            IF k = 0 THEN <<>>
            ELSE LET before == d[k - 1]
                 IN  IF q[k] \in Range(before) THEN before ELSE Append(before, q[k])
    IN  d[Len(q)]

(* evaluateRoutes: the chats of all matching routes up to one that stops.  *)
MatchingRoutes(routes, p) ==
    LET hits  == {k \in DOMAIN routes : RouteMatches(p, routes[k])}
        stops == {k \in hits : routes[k].stop}
    IN  {k \in hits : \A m \in stops : k <= m}

EvaluateRoutes(routes, p) ==
    LET hits == MatchingRoutes(routes, p)
        chats[k \in 0..Len(routes)] ==
            IF k = 0 THEN <<>>
            ELSE IF k \in hits THEN chats[k - 1] \o routes[k].chats ELSE chats[k - 1]
    IN  Distinct(chats[Len(routes)])

-----------------------------------------------------------------------------
(* Startup: buildGitlabSender                                              *)

(* ResolveChatRef: the chat and the bot it is bound to, if it resolves.    *)
Resolved(conf, ref) ==
    IF ref \in ChatIds THEN {[id |-> ref, bot |-> Missing]}
    ELSE {[id |-> conf.chats[a].id, bot |-> conf.chats[a].bot] :
              a \in {b \in DOMAIN conf.chats \cap {ref} : conf.chats[b].id # Missing}}

RouteRefs(s)  == UNION {Range(s.routes[k].chats) : k \in DOMAIN s.routes}
TargetRefs(s) == IF s.chats # <<>> THEN Range(s.chats) ELSE RouteRefs(s)

(* The sender's scope: [target, id, bot] of each delivery target.          *)
Scope(conf, s) ==
    UNION {{[target |-> t, id |-> c.id, bot |-> c.bot] : c \in Resolved(conf, t)} :
               t \in TargetRefs(s)}

\* MUTANT: an alias without a bot contradicts one with a bot.
UnboundConflicts(entry, ref, bot) == ref # entry.target /\ bot # entry.bot

BotConflict(entry, ref, bot) ==
    ref # entry.target /\ bot # Missing /\ entry.bot # Missing /\ bot # entry.bot

TargetFits(conf, ref) ==
    /\ Resolved(conf, ref) # {}
    /\ conf.multi => ref \notin ChatIds /\ conf.chats[ref].bot # Missing

RouteFits(conf, s, ref) ==
    \E c \in Resolved(conf, ref) : \E e \in Scope(conf, s) :
        e.id = c.id /\ ~BotConflict(e, ref, c.bot)

Builds(conf, s) ==
    /\ s.secret # Missing
    /\ \A ref \in TargetRefs(s) : TargetFits(conf, ref)
    /\ \A d, e \in Scope(conf, s) : d.id = e.id => d = e
    /\ s.chats # <<>> => \A ref \in RouteRefs(s) : RouteFits(conf, s, ref)
    /\ s.broken = {}

\* MUTANT: a route keeps the aliases it was written with.
AsWritten(conf, s, ref) == ref

(* With a scope of its own, a route delivers through the scope's targets.  *)
RouteTarget(conf, s, ref) ==
    LET id == (CHOOSE c \in Resolved(conf, ref) : TRUE).id
    IN  (CHOOSE e \in Scope(conf, s) : e.id = id).target

CompiledRoutes(conf, s) ==
    [k \in DOMAIN s.routes |->
        [match |-> s.routes[k].match, stop |-> s.routes[k].stop,
         chats |-> [n \in DOMAIN s.routes[k].chats |->
                       RouteTarget(conf, s, s.routes[k].chats[n])]]]

(* What is wrong with a sender alone: validateGitlabTemplates and routes.  *)
SenderValid(s) == ~Ambiguous(s) /\ \A n \in DOMAIN s.routes : s.routes[n].chats # <<>>

(* validateGitlab, shared with "config validate".                          *)
WellFormed(conf) ==
    /\ conf.senders # <<>>
    /\ \A k \in DOMAIN conf.senders :
           LET s == conf.senders[k] IN
           /\ s.literal # Missing
           /\ s.chats # <<>> \/ s.routes # <<>>
           /\ SenderValid(s)
           /\ \A m \in DOMAIN conf.senders \ {k} :
                  /\ conf.senders[m].literal # s.literal
                  /\ s.name # Missing => conf.senders[m].name # s.name

(* buildGitlabConfig                                                       *)
Starts(conf) ==
    /\ WellFormed(conf)
    /\ \A k \in DOMAIN conf.senders : Builds(conf, conf.senders[k])
    /\ \A k, m \in DOMAIN conf.senders :
           conf.senders[k].secret = conf.senders[m].secret => k = m

-----------------------------------------------------------------------------
(* "config validate": validateCrossReferences                              *)

Unknown(conf, ref) ==
    ref \notin ChatIds /\ (ref \notin DOMAIN conf.chats \/ conf.chats[ref].id = Missing)

(* classify: the targets that can be decided offline.                      *)
Decided(conf, ref) ==
    ~Unknown(conf, ref) /\ (ref \in ChatIds \/ ~conf.chats[ref].hidden)

OfflineId(conf, ref)  == IF ref \in ChatIds THEN ref ELSE conf.chats[ref].id
OfflineBot(conf, ref) == IF ref \in ChatIds THEN Missing ELSE conf.chats[ref].bot

OfflineScope(conf, s) == {t \in TargetRefs(s) : Decided(conf, t)}

RouteRejected(conf, s, ref) ==
    LET same == {t \in OfflineScope(conf, s) : OfflineId(conf, t) = OfflineId(conf, ref)}
    IN  IF same = {} THEN \A t \in TargetRefs(s) : Decided(conf, t)
        ELSE \E t \in same :
                 /\ t # ref /\ OfflineBot(conf, t) # OfflineBot(conf, ref)
                 /\ Missing \notin {OfflineBot(conf, t), OfflineBot(conf, ref)}

SenderRejected(conf, s) ==
    \/ \E ref \in TargetRefs(s) \cup RouteRefs(s) : Unknown(conf, ref)
    \/ \E t, u \in OfflineScope(conf, s) : t # u /\ OfflineId(conf, t) = OfflineId(conf, u)
    \/ s.chats # <<>> /\ \E ref \in RouteRefs(s) :
           Decided(conf, ref) /\ RouteRejected(conf, s, ref)

Rejected(conf) ==
    ~WellFormed(conf) \/ \E k \in DOMAIN conf.senders : SenderRejected(conf, conf.senders[k])

(* A warning, for the file does not tell how "serve" will be started.      *)
Warned(conf) ==
    conf.several /\ \E k \in DOMAIN conf.senders :
        \E ref \in TargetRefs(conf.senders[k]) :
            ref \in ChatIds \/ (ref \in DOMAIN conf.chats /\ conf.chats[ref].bot = Missing)
=============================================================================
