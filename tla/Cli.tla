--------------------------------- MODULE Cli ---------------------------------
(***************************************************************************)
(* The commands "send" and "enqueue" (internal/cmd/send.go, enqueue.go):   *)
(* the configuration is loaded, --chat-id names one or more targets, and   *)
(* each gets one message: "send" posts it to BotX as the target's bot,     *)
(* "enqueue" first resolves every target and then puts the messages on the *)
(* work queue.  Meanwhile the catalog cache file may be replaced, tokens   *)
(* expire, and a call may fail with or without having had its effect.      *)
(* Whoever runs the command runs it again for the targets reported as      *)
(* failed, or as it was if it reported nothing.                            *)
(*                                                                         *)
(* The other kinds of command end where their configuration is loaded.     *)
(***************************************************************************)
EXTENDS ConfigLoad, SequencesExt

CONSTANTS
    Commands,   \* [kind, mode, config, env, flags]: the commands run
    Snapshots,  \* what the catalog cache file may hold
    MaxRuns,    \* bound: runs of the command
    MaxFaults   \* bound: calls that fail, and changes of the cache file

(* A command has these fields, and its targets are a list.                 *)
IsCommand(c) ==
    LET f == c.flags IN
    /\ c = [kind |-> c.kind, mode |-> c.mode, config |-> c.config,
            env |-> c.env, flags |-> f]
    /\ f = [host |-> f.host, id |-> f.id, secret |-> f.secret,
            token |-> f.token, bot |-> f.bot, chats |-> f.chats]
    /\ c.kind \in {"send", "serve", "enqueue", "producer", "user", "api",
                   "manual", "worker"}
    /\ f.chats \in Seq(Range(f.chats))

(* An empty field is no UUID.                                              *)
ASSUME CliAssumption ==
    /\ \A c \in Commands : IsCommand(c)
    /\ None \notin BotIds

VARIABLES
    cmd,       \* the command, with the targets of its next run
    cfg,       \* the loaded configuration
    targets,   \* those of this run
    pc,
    file,      \* the catalog cache file
    execs,     \* [bot names -> the clients built for them]
    pending,   \* messages resolved and not yet published, in order
    outcome,   \* [targets of this run -> "ok" or "error"], as they are reported
    delivered, \* messages accepted by BotX or stored on the queue, in order
    runs,
    faults,
    lost       \* targets whose message was accepted without an answer, one
               \* entry for each

vars == <<cmd, cfg, targets, pc, file, execs, pending, outcome, delivered,
          runs, faults, lost>>

Fault == faults < MaxFaults /\ faults' = faults + 1

Init ==
    /\ cmd \in Commands
    /\ cfg = Failed
    /\ targets = <<>>
    /\ pc = "load"
    /\ file \in Snapshots \cup {None}
    /\ execs = <<>>
    /\ pending = <<>>
    /\ outcome = <<>>
    /\ delivered = <<>>
    /\ runs = 1
    /\ faults = 0
    /\ lost = <<>>

-----------------------------------------------------------------------------
(* Loading                                                                 *)

(* Only these commands refuse --secret with --token; "producer" is "serve  *)
(* --enqueue", "user" stands for the commands on users, chats and bots.    *)
RefusesBoth == {"send", "serve", "api", "manual"}

LoadCommand(c) ==
    IF c.kind \in RefusesBoth /\ Both(c.flags) THEN Failed
    ELSE CASE c.kind \in {"send", "serve"} -> LoadForServe(c.config, c.env, c.flags)
           [] c.kind \in {"enqueue", "producer"} ->
                  LoadForEnqueue(c.config, c.env, c.flags)
           [] c.kind = "user"    -> Load(c.config, c.env, c.flags)
           [] c.kind = "api"     -> LoadForAPI(c.config, c.env, c.flags, FALSE)
           [] c.kind = "manual"  -> LoadForAPI(c.config, c.env, c.flags, TRUE)
           [] c.kind = "worker"  -> LoadForWorker(c.config, c.env, c.flags)

(* The entries of s at the places in S, in their order.                    *)
At(s, S) ==
    LET place(n) == CHOOSE k \in S : Cardinality({l \in S : l <= k}) = n
    IN  [n \in 1..Cardinality(S) |-> s[place(n)]]

(* parseChatIDs                                                            *)
Distinct(s) == At(s, {k \in DOMAIN s : \A l \in 1..(k-1) : s[l] # s[k]})

TargetsOf(c) ==
    IF c.flags.chats # <<>> THEN Distinct(c.flags.chats)
    ELSE IF c.kind = "send" THEN DefaultTargets(c.config) ELSE <<None>>

Start ==
    /\ pc = "load"
    /\ cfg' = LoadCommand(cmd)
    /\ targets' = TargetsOf(cmd)
    /\ pc' = IF ~cfg'.ok \/ targets' = <<>> \/ cmd.kind \notin {"send", "enqueue"}
             THEN "exit" ELSE cmd.kind
    /\ UNCHANGED <<cmd, file, execs, pending, outcome, delivered, runs, faults, lost>>

-----------------------------------------------------------------------------
(* The targets one by one.                                                 *)

Target == targets[Cardinality(DOMAIN outcome) + 1]

Reported(r) ==
    /\ outcome' = [t \in DOMAIN outcome \cup {Target} |->
                      IF t = Target THEN r ELSE outcome[t]]
    /\ pc' = IF Cardinality(DOMAIN outcome') = Len(targets) THEN "exit"
             ELSE IF pc = "again" THEN "send" ELSE pc

-----------------------------------------------------------------------------
(* send                                                                    *)

Sending == pc \in {"send", "again"} /\ ChatResolves(cmd.config, Target)

(* resolveSendTarget, getExec: the name a client is kept under, and its    *)
(* bot, if there is one.                                                   *)
BotFor(t) ==
    IF cfg.multi /\ t \notin ChatIds THEN cmd.config.chats[t].bot ELSE None

\* MUTANT: one client for the whole command.
OneClient(t) ==
    IF DOMAIN execs # {} THEN CHOOSE n \in DOMAIN execs : TRUE ELSE BotFor(t)

ExecKey(t) == BotFor(t)

ExecBots(n) ==
    IF ~cfg.multi THEN {cfg.bot}
    ELSE IF n = None THEN {} ELSE BotsNamed(cmd.config, n)

HasExec == ExecKey(Target) \in DOMAIN execs
Exec    == execs[ExecKey(Target)]

Unresolved ==
    /\ pc = "send"
    /\ \/ ~ChatResolves(cmd.config, Target)
       \/ ~HasExec /\ ExecBots(ExecKey(Target)) = {}
    /\ Reported("error")
    /\ UNCHANGED <<cmd, cfg, targets, file, execs, pending, delivered, runs, faults, lost>>

Authenticate ==
    /\ Sending /\ ~HasExec
    /\ \E b \in ExecBots(ExecKey(Target)) :
           /\ HasCredentials(b)
           /\ execs' = [n \in DOMAIN execs \cup {ExecKey(Target)} |->
                           IF n = ExecKey(Target) THEN b ELSE execs[n]]
    /\ UNCHANGED <<cmd, cfg, targets, pc, file, pending, outcome, delivered, runs, faults, lost>>

(* A bot of the file may have no credentials.                              *)
AuthenticateFails ==
    /\ Sending /\ ~HasExec
    /\ \E b \in ExecBots(ExecKey(Target)) :
           IF HasCredentials(b) THEN b.token = None /\ Fault ELSE UNCHANGED faults
    /\ Reported("error")
    /\ UNCHANGED <<cmd, cfg, targets, file, execs, pending, delivered, runs, lost>>

Post ==
    delivered' = Append(delivered,
        [target |-> Target, chat |-> ChatId(cmd.config, Target), bot |-> Exec])

SendOK ==
    /\ Sending /\ HasExec
    /\ Post
    /\ Reported("ok")
    /\ UNCHANGED <<cmd, cfg, targets, file, execs, pending, runs, faults, lost>>

(* 401: a token of a secret is replaced once.                              *)
Refresh ==
    /\ Sending /\ HasExec
    /\ pc = "send" /\ Exec.token = None
    /\ Fault
    /\ pc' = "again"
    /\ UNCHANGED <<cmd, cfg, targets, file, execs, pending, outcome, delivered, runs, lost>>

SendFails ==
    /\ Sending /\ HasExec
    /\ Fault
    /\ Reported("error")
    /\ UNCHANGED <<cmd, cfg, targets, file, execs, pending, delivered, runs, lost>>

SendUnanswered ==
    /\ Sending /\ HasExec
    /\ Fault
    /\ Post
    /\ Reported("error")
    /\ lost' = Append(lost, Target)
    /\ UNCHANGED <<cmd, cfg, targets, file, execs, pending, runs>>

-----------------------------------------------------------------------------
(* enqueue, the first phase: routing.                                      *)

\* MUTANT: bot_id is declared before the loop over the targets.
BotOfThePrevious == IF pending # <<>> THEN pending[Len(pending)].bot ELSE cfg.bot.id

BotID == cfg.bot.id
ById == BotID \in BotIds

Direct(t) == ById /\ t \in ChatIds

NeedsCatalog(t) ==
    cmd.mode = "catalog" \/ (cmd.mode = "mixed" /\ ~Direct(t))

(* resolveViaCatalog: --bot-id, a UUID or an alias; or --bot; or the bot   *)
(* the chat's alias is bound to.                                           *)
BotAsked(t, s) ==
    Or(Or(BotID, cmd.flags.bot),
       IF t \in DOMAIN s.chats \ ChatIds THEN s.chats[t].bot ELSE None)

Routable(t) ==
    IF NeedsCatalog(t)
    THEN /\ file # None
         /\ \/ t \in ChatIds
            \/ t \in DOMAIN file.chats /\ file.chats[t].id # None
         /\ ById \/ BotAsked(t, file) \in DOMAIN file.bots \ {None}
    ELSE Direct(t)

(* ResolveBotByID                                                          *)
HostsOf(s, id) == {s.bots[n].host : n \in {k \in DOMAIN s.bots : s.bots[k].id = id}}

Message(t) ==
    IF ~NeedsCatalog(t)
    THEN {[target |-> t, chat |-> t, bot |-> BotID, host |-> None, rev |-> None]}
    ELSE LET b  == BotAsked(t, file)
             id == IF ById THEN b ELSE file.bots[b].id
         IN  {[target |-> t, chat |-> IF t \in ChatIds THEN t ELSE file.chats[t].id,
               bot |-> id, host |-> h, rev |-> file.rev] :
                 h \in IF ~ById THEN {file.bots[b].host}
                       ELSE IF HostsOf(file, id) = {} THEN {None} ELSE HostsOf(file, id)}

ToResolve == targets[Len(pending) + 1]

\* MUTANT: each message is published as soon as it is resolved.
ResolveAndPublish ==
    /\ pc = "enqueue"
    /\ Routable(ToResolve)
    /\ \E m \in Message(ToResolve) :
           pending' = Append(pending, m) /\ delivered' = Append(delivered, m)
    /\ IF Len(pending') = Len(targets)
       THEN pc' = "exit" /\ outcome' = [t \in Range(targets) |-> "ok"]
       ELSE UNCHANGED <<pc, outcome>>
    /\ UNCHANGED <<cmd, cfg, targets, file, execs, runs, faults, lost>>

Resolve ==
    /\ pc = "enqueue"
    /\ Routable(ToResolve)
    /\ \E m \in Message(ToResolve) : pending' = Append(pending, m)
    /\ pc' = IF Len(pending') = Len(targets) THEN "publish" ELSE pc
    /\ UNCHANGED <<cmd, cfg, targets, file, execs, outcome, delivered, runs, faults, lost>>

(* Nothing is published and nothing reported per target.                   *)
Abandon ==
    /\ pc = "enqueue"
    /\ ~Routable(ToResolve)
    /\ pc' = "exit"
    /\ UNCHANGED <<cmd, cfg, targets, file, execs, pending, outcome, delivered, runs, faults, lost>>

-----------------------------------------------------------------------------
(* enqueue, the second phase: every message on its own.                    *)

Publishing == pc = "publish"
Store == delivered' = Append(delivered, pending[Cardinality(DOMAIN outcome) + 1])

PublishOK ==
    /\ Publishing
    /\ Store
    /\ Reported("ok")
    /\ UNCHANGED <<cmd, cfg, targets, file, execs, pending, runs, faults, lost>>

PublishFails ==
    /\ Publishing
    /\ Fault
    /\ Reported("error")
    /\ UNCHANGED <<cmd, cfg, targets, file, execs, pending, delivered, runs, lost>>

(* The broker has the message and its answer does not arrive.              *)
PublishUnanswered ==
    /\ Publishing
    /\ Fault
    /\ Store
    /\ Reported("error")
    /\ lost' = Append(lost, Target)
    /\ UNCHANGED <<cmd, cfg, targets, file, execs, pending, runs>>

(* RabbitMQ: handed to the connection, which is lost.                      *)
PublishDropped ==
    /\ Publishing
    /\ Fault
    /\ Reported("ok")
    /\ UNCHANGED <<cmd, cfg, targets, file, execs, pending, delivered, runs, lost>>

-----------------------------------------------------------------------------
(* The environment.                                                        *)

(* A worker's or server's catalog, or none that is readable and young.     *)
ReplaceFile ==
    /\ pc = "enqueue"
    /\ Fault
    /\ file' \in (Snapshots \cup {None}) \ {file}
    /\ UNCHANGED <<cmd, cfg, targets, pc, execs, pending, outcome, delivered, runs, lost>>

(* printSendResults, printEnqueueResults                                   *)
ToRepeat ==
    IF outcome = <<>> THEN targets
    ELSE At(targets, {k \in DOMAIN targets : outcome[targets[k]] = "error"})

RunAgain ==
    /\ pc = "exit" /\ cfg.ok /\ cmd.kind \in {"send", "enqueue"}
    /\ ToRepeat \notin {<<>>, <<None>>}
    /\ runs < MaxRuns
    /\ runs' = runs + 1
    /\ cmd' = [cmd EXCEPT !.flags.chats = ToRepeat]
    /\ pc' = "load"
    /\ execs' = <<>> /\ pending' = <<>> /\ outcome' = <<>>
    /\ UNCHANGED <<cfg, targets, file, delivered, faults, lost>>

Next ==
    \/ Start
    \/ Unresolved \/ Authenticate \/ AuthenticateFails
    \/ SendOK \/ Refresh \/ SendFails \/ SendUnanswered
    \/ Resolve \/ Abandon
    \/ PublishOK \/ PublishFails \/ PublishUnanswered \/ PublishDropped
    \/ ReplaceFile \/ RunAgain

Spec == Init /\ [][Next]_vars

-----------------------------------------------------------------------------
(* Properties                                                              *)

(* Whatever the file, the environment and the flags say, a command that    *)
(* goes on has the bot they say: complete, with one kind of credentials,   *)
(* those given last, and no bot's name when it is not that bot, for the    *)
(* token it then asks for is kept under host and id.  --secret with        *)
(* --token is refused or, by the commands that do not look, the secret is  *)
(* dropped.  A command with the user's own Authorization header is not     *)
(* held to this, and a producer and the worker need no complete bot.       *)
LoadedIsCoherent ==
    pc # "load" /\ cmd.kind # "manual" =>
        /\ cmd.kind \notin {"enqueue", "producer", "worker"} =>
               Coherent(cmd.config, cfg)
        /\ LastWord(cmd.env, cmd.flags, cfg)

(* Every message goes to the chat its target names, from the bot the       *)
(* command names, else from the one the chat is bound to: clients are      *)
(* built once per bot and used again for its other chats.                  *)
SentByOwnBot ==
    cmd.kind = "send" =>
        \A m \in Range(delivered) :
            /\ m.chat = ChatId(cmd.config, m.target)
            /\ IF Several(cmd.config, cmd.flags) /\ ~HasCredentials(cfg.bot)
               THEN /\ m.target \in DOMAIN cmd.config.chats
                    /\ BotsNamed(cmd.config, cmd.config.chats[m.target].bot) = {m.bot}
               ELSE m.bot = cfg.bot

(* A message routed through the catalog is routed by the snapshot whose    *)
(* revision it carries, and by what was asked for its own target, though   *)
(* the cache file is read again for every target and may have changed.     *)
RoutedByItsRevision ==
    cmd.kind = "enqueue" =>
        \A m \in Range(delivered) : m.rev # None =>
            \E s \in Snapshots :
                LET id == Or(cmd.flags.id, cmd.env.id)
                    chat == IF m.target \in ChatIds THEN [id |-> m.target, bot |-> None]
                            ELSE s.chats[m.target]
                    asked == <<id, cmd.flags.bot, chat.bot>>
                    first == asked[CHOOSE k \in 1..3 :
                                 asked[k] # None /\ \A l \in 1..(k-1) : asked[l] = None]
                IN  /\ s.rev = m.rev
                    /\ m.chat = chat.id
                    /\ m.bot = IF id \in BotIds THEN id ELSE s.bots[first].id
                    /\ m.host # None => m.host \in HostsOf(s, m.bot)

(* However often the command is repeated for what it reported as failed,   *)
(* no target gets a second message unless an answer to its first was lost: *)
(* what is published is reported, and nothing is before all is resolved.   *)
OnceUnlessLost ==
    \A t \in {m.target : m \in Range(delivered)} :
        Cardinality({k \in DOMAIN delivered : delivered[k].target = t})
            <= 1 + Cardinality({k \in DOMAIN lost : lost[k] = t})
=============================================================================
