------------------------------ MODULE ConfigLoad ------------------------------
(***************************************************************************)
(* How the commands load the configuration (internal/config/config.go):    *)
(* the YAML file, the bot it resolves to, the environment, the flags.  All *)
(* operators are pure; None is an empty field.                             *)
(*                                                                         *)
(*   config  [bots : names -> bot, chats : aliases -> [id, bot, default]]  *)
(*   bot     [host, id, secret, token]                                     *)
(*   env     the same four;  flags  the same, bot (a name) and chats       *)
(***************************************************************************)
EXTENDS Naturals, Sequences, FiniteSets

CONSTANTS
    ChatIds,  \* chat UUIDs
    BotIds,   \* bot UUIDs
    None

NoBot == [host |-> None, id |-> None, secret |-> None, token |-> None]
Failed == [ok |-> FALSE, multi |-> FALSE, byChat |-> FALSE, name |-> None, bot |-> NoBot]
Loaded(n, b) == [ok |-> TRUE, multi |-> FALSE, byChat |-> FALSE, name |-> n, bot |-> b]

Or(x, y) == IF x # None THEN x ELSE y
Sole(S) == CHOOSE x \in S : S = {x}

-----------------------------------------------------------------------------
(* Chats                                                                   *)

Defaults(c) == {a \in DOMAIN c.chats : c.chats[a].default}

(* validateBotConfigs, ValidateDefaultChat.                                *)
ValidFile(c) ==
    /\ \A n \in DOMAIN c.bots : c.bots[n].secret = None \/ c.bots[n].token = None
    /\ Cardinality(Defaults(c)) <= 1

(* ResolveChatRef: a UUID, or an alias that has one.                       *)
ChatResolves(c, ref) ==
    ref \in ChatIds \/ (ref \in DOMAIN c.chats /\ c.chats[ref].id # None)
ChatId(c, ref) == IF ref \in ChatIds THEN ref ELSE c.chats[ref].id

(* SingleOrDefaultChatAlias                                                *)
DefaultTargets(c) ==
    IF Cardinality(DOMAIN c.chats) = 1 THEN <<Sole(DOMAIN c.chats)>>
    ELSE IF Defaults(c) # {} /\ c.chats[Sole(Defaults(c))].id # None
    THEN <<Sole(Defaults(c))>> ELSE <<>>

(* resolveChatBotFromFlags: the whole flag is looked up, as one alias.     *)
ChatBot(c, flags) ==
    IF flags.chats # <<>>
    THEN IF Len(flags.chats) = 1 /\ flags.chats[1] \in DOMAIN c.chats
         THEN c.chats[flags.chats[1]].bot ELSE None
    ELSE IF Cardinality(DOMAIN c.chats) = 1 THEN c.chats[Sole(DOMAIN c.chats)].bot
    ELSE IF Defaults(c) # {} THEN c.chats[Sole(Defaults(c))].bot ELSE None

(* ApplyChatBot: the bot of that name, if there is one.                    *)
BotsNamed(c, n) == {c.bots[k] : k \in DOMAIN c.bots \cap {n}}

-----------------------------------------------------------------------------
(* Layers                                                                  *)

\* MUTANT: a secret from a later layer leaves the token of an earlier one.
LayerKeepsBoth(b, l) ==
    [host |-> Or(l.host, b.host), id |-> Or(l.id, b.id),
     secret |-> Or(l.secret, b.secret), token |-> Or(l.token, b.token)]

(* applyFlags: host and id one by one, a secret or token instead of        *)
(* whichever there was; of both in one layer the token.                    *)
Layer(b, l) ==
    [host   |-> Or(l.host, b.host),
     id     |-> Or(l.id, b.id),
     secret |-> IF l.token # None THEN None ELSE Or(l.secret, b.secret),
     token  |-> IF l.token # None THEN l.token
                ELSE IF l.secret # None THEN None ELSE b.token]

(* applyEnvWithAuth: credentials do not count with the user's own header.  *)
ApplyEnv(b, env, manual) ==
    Layer(b, IF manual THEN [env EXCEPT !.secret = None, !.token = None] ELSE env)

Both(l) == l.secret # None /\ l.token # None

(* resolveBot: the one named, or the only one.                             *)
BotName(c, flags) ==
    IF flags.bot # None THEN flags.bot
    ELSE IF Cardinality(DOMAIN c.bots) = 1 THEN Sole(DOMAIN c.bots) ELSE None

(* clearStaleBotName: whether b is still the bot of that name.             *)
StillNamed(c, n, b) ==
    LET named == c.bots[n] IN
    /\ b.host = named.host /\ b.id = named.id
    /\ named.secret # None => b.secret = named.secret
    /\ named.token # None => b.token = named.token

HasCredentials(b) ==
    b.host # None /\ b.id # None /\ (b.secret # None \/ b.token # None)

(* The bot after all layers; Failed for an unknown name or two credentials *)
(* in the file or the environment.  The flags are not checked here.        *)
Resolved(c, env, flags) ==
    LET n == BotName(c, flags)
        b == Layer(ApplyEnv(IF n = None THEN NoBot ELSE c.bots[n], env, FALSE), flags)
    IN  IF ~ValidFile(c) \/ Both(env) THEN Failed
        ELSE IF n = None THEN Loaded(None, b)
        ELSE IF n \notin DOMAIN c.bots THEN Failed
        ELSE Loaded(IF StillNamed(c, n, b) THEN n ELSE None, b)

Complete(l) == IF l.ok /\ HasCredentials(l.bot) THEN l ELSE Failed

Several(c, flags) == flags.bot = None /\ Cardinality(DOMAIN c.bots) > 1

(* LoadForServe, LoadForSend: several bots and no credentials from outside *)
(* leave the choice to each message.                                       *)
LoadForServe(c, env, flags) ==
    LET r == Resolved(c, env, flags) IN
    IF r.ok /\ Several(c, flags) /\ ~HasCredentials(r.bot)
    THEN [r EXCEPT !.multi = TRUE] ELSE Complete(r)

(* Load: the bot bound to the chat takes the place of all layers.          *)
Load(c, env, flags) ==
    LET r == Resolved(c, env, flags)
        n == ChatBot(c, flags)
    IN  IF r.ok /\ Several(c, flags) /\ ~HasCredentials(r.bot)
        THEN IF BotsNamed(c, n) # {}
             THEN Complete([Loaded(n, Sole(BotsNamed(c, n))) EXCEPT !.byChat = TRUE])
             ELSE Failed
        ELSE Complete(r)

(* LoadForAPI; with an Authorization header of the user's the host is all  *)
(* it takes, and the file need not be valid.                               *)
LoadForAPI(c, env, flags, manual) ==
    LET n == BotName(c, flags)
        named == IF n \in DOMAIN c.bots THEN c.bots[n] ELSE NoBot
        b == Layer(ApplyEnv(named, env, TRUE), flags)
    IN  IF ~manual THEN Complete(Resolved(c, env, flags))
        ELSE IF b.host = None \/ (n # None /\ n \notin DOMAIN c.bots) THEN Failed
        ELSE Loaded(IF n # None /\ StillNamed(c, n, b) THEN n ELSE None, b)

(* Environment and flags alone.                                            *)
LoadBase(c, env, flags) ==
    IF ~ValidFile(c) \/ Both(env) THEN Failed
    ELSE Loaded(None, Layer(ApplyEnv(NoBot, env, FALSE), flags))

(* enqueue, serve --enqueue: the producer needs no credentials.            *)
LoadForEnqueue(c, env, flags) == LoadBase(c, env, flags)

(* ValidateBotIDs: one id, one bot, under any names.                       *)
UniqueIds(c) ==
    \A n, k \in DOMAIN c.bots :
        c.bots[n].id = c.bots[k].id /\ c.bots[n].id # None => c.bots[n] = c.bots[k]

LoadForWorker(c, env, flags) ==
    IF DOMAIN c.bots = {} \/ ~UniqueIds(c) THEN Failed ELSE LoadBase(c, env, flags)

-----------------------------------------------------------------------------
(* What a loaded configuration is: complete, with one kind of credentials; *)
(* and named after a bot only if it is that bot.                           *)
Coherent(c, l) ==
    /\ l.ok /\ ~l.multi => HasCredentials(l.bot) /\ ~Both(l.bot)
    /\ l.ok /\ l.name # None =>
           LET named == c.bots[l.name] IN
           /\ l.bot.host = named.host /\ l.bot.id = named.id
           /\ named.secret # None \/ named.token # None =>
                  l.bot.secret = named.secret /\ l.bot.token = named.token

(* What was said later and closer holds: a flag wins over the environment, *)
(* and that over the file; the last that gives credentials gives all of    *)
(* them, its token if it has both.                                         *)
Gives(l) == l.secret # None \/ l.token # None

LastWord(env, flags, l) ==
    LET last == IF Gives(flags) THEN flags ELSE env IN
    l.ok /\ ~l.byChat =>
        /\ Or(flags.host, env.host) # None => l.bot.host = Or(flags.host, env.host)
        /\ Or(flags.id, env.id) # None => l.bot.id = Or(flags.id, env.id)
        /\ Gives(last) =>
               /\ l.bot.token = last.token
               /\ last.token = None => l.bot.secret = last.secret
        /\ ~Both(l.bot)
=============================================================================
