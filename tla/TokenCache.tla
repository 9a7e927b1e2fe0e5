------------------------------ MODULE TokenCache ------------------------------
(***************************************************************************)
(* The token caches (internal/token: a JSON file, a Vault secret, or none) *)
(* under several processes: those that authenticate and refresh            *)
(* (internal/cmd/cmd.go), and the "bot token" commands (cmd/bot.go).       *)
(* Set and Delete read the whole cache, change it and write it back.  The  *)
(* file is truncated before it is written; one that is missing, empty or   *)
(* half-written is not readable.                                           *)
(***************************************************************************)
EXTENDS Naturals

CONSTANTS
    Procs,
    Bots,
    HostOf, IdOf,   \* of each bot: several hosts may know one id
    Backends,       \* of "file", "vault", "none"
    MaxTokens,      \* bound: tokens the API issues per bot
    MaxCommands     \* bound: commands run

ASSUME TokenAssumption ==
    /\ Backends \subseteq {"file", "vault", "none"}
    /\ MaxTokens \in Nat /\ MaxCommands \in Nat
    /\ \A b, c \in Bots : HostOf[b] = HostOf[c] /\ IdOf[b] = IdOf[c] => b = c

VARIABLES
    backend,    \* it never changes
    store,      \* the entries cached: [key, tok]
    readable,   \* the file; the secret always is
    issued,     \* of each bot: tokens the API has issued
    expired,    \* tokens whose time in the cache is over
    pc, cmd,    \* of each process: its place, and the command it runs
    count,      \* commands begun
    began,      \* tokens issued when it last went to refresh, or 0
    tok,        \* the token it has
    mine,       \* the entries it is about to write
    dirty,      \* another process wrote the file since it truncated it
    result,     \* how its last command ended
    ideal,      \* the entries, as Set and Delete would leave them one by one
    calm        \* no two writers overlapped, none died, no call failed

procVars  == <<pc, cmd, count, began, tok, mine, result>>
cacheVars == <<store, readable, dirty, ideal, calm>>
vars == <<backend, issued, expired, procVars, cacheVars>>

NoToken == [bot |-> "none", n |-> 0]
NoCmd   == [kind |-> "none", bot |-> "none", again |-> FALSE]

Init ==
    /\ backend \in Backends
    /\ store = {} /\ ideal = {} /\ readable = (backend # "file") /\ calm = TRUE
    /\ issued = [b \in Bots |-> 0] /\ expired = {}
    /\ pc = [p \in Procs |-> "idle"] /\ cmd = [p \in Procs |-> NoCmd]
    /\ count = 0 /\ began = [p \in Procs |-> 0]
    /\ tok = [p \in Procs |-> NoToken] /\ mine = [p \in Procs |-> {}]
    /\ dirty = [p \in Procs |-> FALSE] /\ result = [p \in Procs |-> "none"]

CacheKey(b) == <<HostOf[b], IdOf[b]>>

Key(p)   == CacheKey(cmd[p].bot)
Entry(p) == [key |-> Key(p), tok |-> tok[p]]
Live(S)  == {e \in S : e.tok \notin expired}
Without(S, k) == {e \in S : e.key # k}
Changing(p)   == pc[p] \in {"write", "writing"}

Goto(p, l) == pc' = [pc EXCEPT ![p] = l]

(* A command, or the first half of a "fresh" one, is over.                 *)
Finish(p, r) ==
    /\ IF cmd[p].again /\ r = "token"
       THEN /\ Goto(p, "fetch")
            /\ cmd' = [cmd EXCEPT ![p] = [@ EXCEPT !.kind = "refresh", !.again = FALSE]]
            /\ began' = [began EXCEPT ![p] = issued[cmd[p].bot]]
            /\ UNCHANGED result
       ELSE /\ Goto(p, "idle")
            /\ result' = [result EXCEPT ![p] = r]
            /\ UNCHANGED <<cmd, began>>
    /\ mine' = [mine EXCEPT ![p] = {}]
    /\ UNCHANGED <<backend, issued, expired, count>>

-----------------------------------------------------------------------------
\* MUTANT: "bot token refresh" looks into the cache first.
RefreshFromCache(k) == IF k = "clear" THEN "read" ELSE "get"

FirstStep(k) == IF k = "auth" THEN "get" ELSE IF k = "refresh" THEN "fetch" ELSE "read"

(* authenticate, refreshToken, botTokenClear; "fresh" is authenticate and  *)
(* then refreshToken.                                                      *)
Begin(p, k, b, again) ==
    /\ pc[p] = "idle" /\ count < MaxCommands
    /\ again => k = "auth"
    /\ count' = count + 1
    /\ cmd' = [cmd EXCEPT ![p] = [kind |-> k, bot |-> b, again |-> again]]
    /\ began' = [began EXCEPT ![p] = IF k = "refresh" THEN issued[b] ELSE 0]
    /\ tok' = [tok EXCEPT ![p] = NoToken]
    /\ result' = [result EXCEPT ![p] = "none"]
    /\ Goto(p, FirstStep(k))
    /\ UNCHANGED <<backend, issued, expired, mine, cacheVars>>

(* Get: what cannot be read, and what has expired, is a miss.              *)
GetHit(p) ==
    /\ pc[p] = "get" /\ readable
    /\ \E e \in Live(store) : e.key = Key(p) /\ tok' = [tok EXCEPT ![p] = e.tok]
    /\ Finish(p, "token")
    /\ UNCHANGED cacheVars

GetMiss(p) ==
    /\ pc[p] = "get"
    /\ \/ ~readable \/ backend = "vault"
       \/ \A e \in Live(store) : e.key # Key(p)
    /\ Goto(p, "fetch")
    /\ UNCHANGED <<backend, issued, expired, cmd, count, began, tok, mine, result, cacheVars>>

GetToken(p) ==
    LET b == cmd[p].bot IN
    /\ pc[p] = "fetch" /\ issued[b] < MaxTokens
    /\ issued' = [issued EXCEPT ![b] = @ + 1]
    /\ tok' = [tok EXCEPT ![p] = [bot |-> b, n |-> issued[b] + 1]]
    /\ Goto(p, "read")
    /\ UNCHANGED <<backend, expired, cmd, count, began, mine, result, cacheVars>>

GetTokenFails(p) ==
    /\ pc[p] = "fetch"
    /\ Finish(p, "api error")
    /\ UNCHANGED <<tok, cacheVars>>

-----------------------------------------------------------------------------
(* Set and Delete                                                          *)

\* MUTANT: the other entries are not written back.
OnlyMine(S, p) == IF cmd[p].kind = "clear" THEN {} ELSE {Entry(p)}

(* Set drops expired entries from the file, not from the secret.           *)
Changed(S, p) ==
    IF cmd[p].kind = "clear" THEN Without(S, Key(p))
    ELSE Without(IF backend = "file" THEN Live(S) ELSE S, Key(p)) \cup {Entry(p)}

(* Delete has nothing to write to an unreadable file, or for a key that    *)
(* the secret does not have.                                               *)
NothingToDo(p, S, ok) ==
    /\ cmd[p].kind = "clear"
    /\ IF backend = "file" THEN ~ok ELSE \A e \in S : e.key # Key(p)

Done(p) == IF cmd[p].kind = "clear" THEN "cleared" ELSE "token"

NoCache(p) ==
    /\ pc[p] = "read" /\ backend = "none"
    /\ Finish(p, Done(p))
    /\ UNCHANGED <<tok, cacheVars>>

(* The cache is read; S is what it holds, or nothing.  A call to Vault     *)
(* that fails is a read of nothing, except that Delete may give up.        *)
ReadAll(p) ==
    /\ pc[p] = "read" /\ backend # "none"
    /\ \E ok \in IF backend = "vault" THEN BOOLEAN ELSE {readable} :
          LET S == IF ok THEN store ELSE {} IN
          /\ calm' = (calm /\ (backend = "vault" => ok)
                           /\ \A q \in Procs \ {p} : ~Changing(q))
          /\ \/ NothingToDo(p, S, ok) /\ Finish(p, "cleared")
             \/ backend = "vault" /\ ~ok /\ cmd[p].kind = "clear" /\ Finish(p, "error")
             \/ /\ ~NothingToDo(p, S, ok)
                /\ mine' = [mine EXCEPT ![p] = Changed(S, p)]
                /\ Goto(p, "write")
                /\ UNCHANGED <<backend, issued, expired, cmd, count, began, result>>
    /\ UNCHANGED <<tok, store, readable, dirty, ideal>>

(* What this Set or Delete does to the entries when it is on its own.      *)
Ideally(p) ==
    ideal' = IF cmd[p].kind = "clear" THEN Without(ideal, Key(p))
             ELSE Without(ideal, Key(p)) \cup {Entry(p)}

PostSecret(p) ==
    /\ pc[p] = "write" /\ backend = "vault"
    /\ store' = mine[p]
    /\ Ideally(p)
    /\ Finish(p, Done(p))
    /\ UNCHANGED <<tok, readable, dirty, calm>>

(* Whatever came of it; Set's error is ignored.                            *)
PostFails(p) ==
    /\ pc[p] = "write" /\ backend = "vault"
    /\ store' \in {store, mine[p]}
    /\ calm' = FALSE
    /\ Finish(p, IF cmd[p].kind = "clear" THEN "error" ELSE "token")
    /\ UNCHANGED <<tok, readable, dirty, ideal>>

Truncate(p) ==
    /\ pc[p] = "write" /\ backend = "file"
    /\ readable' = FALSE /\ store' = {}
    /\ dirty' = [dirty EXCEPT ![p] = FALSE]
    /\ Goto(p, "writing")
    /\ UNCHANGED <<backend, issued, expired, cmd, count, began, tok, mine, result,
                   ideal, calm>>

(* The bytes go to the start of the file: over those that another process  *)
(* wrote in the meantime, whose end may stick out.                         *)
WriteFile(p) ==
    /\ pc[p] = "writing"
    /\ \/ store' = mine[p] /\ readable' = TRUE
       \/ dirty[p] /\ store' = {} /\ readable' = FALSE
    /\ Ideally(p)
    /\ Finish(p, Done(p))
    /\ dirty' = [q \in Procs |-> dirty[q] \/ (q # p /\ pc[q] = "writing")]
    /\ UNCHANGED <<tok, calm>>

(* The directory cannot be made or the file not be opened, and the file is *)
(* as it was; or the write breaks off and leaves what cannot be read.      *)
WriteFails(p) ==
    /\ Changing(p) /\ backend = "file"
    /\ \/ UNCHANGED <<store, readable, dirty>>
       \/ /\ pc[p] = "writing"
          /\ store' = {} /\ readable' = FALSE
          /\ dirty' = [q \in Procs |-> dirty[q] \/ (q # p /\ pc[q] = "writing")]
    /\ calm' = FALSE
    /\ Finish(p, IF cmd[p].kind = "clear" THEN "error" ELSE "token")
    /\ UNCHANGED <<tok, ideal>>

-----------------------------------------------------------------------------
Die(p) ==
    /\ pc[p] # "idle"
    /\ Goto(p, "idle")
    /\ cmd' = [cmd EXCEPT ![p] = NoCmd]
    /\ mine' = [mine EXCEPT ![p] = {}]
    /\ calm' = (calm /\ ~Changing(p))
    /\ UNCHANGED <<backend, issued, expired, count, began, tok, result, store,
                   readable, dirty, ideal>>

Expire ==
    /\ \E e \in store : expired' = expired \cup {e.tok}
    /\ UNCHANGED <<backend, issued, procVars, cacheVars>>

ProcStep(p) ==
    \/ \E k \in {"auth", "refresh", "clear"}, b \in Bots, again \in BOOLEAN :
           Begin(p, k, b, again)
    \/ GetHit(p) \/ GetMiss(p) \/ GetToken(p) \/ GetTokenFails(p)
    \/ NoCache(p) \/ ReadAll(p) \/ PostSecret(p) \/ PostFails(p)
    \/ Truncate(p) \/ WriteFile(p) \/ WriteFails(p) \/ Die(p)

Next == Expire \/ \E p \in Procs : ProcStep(p)

Spec == Init /\ [][Next]_vars

-----------------------------------------------------------------------------
Tokens == [bot : Bots, n : 1..MaxTokens]
Keys == {CacheKey(b) : b \in Bots}
Entries == [key : Keys, tok : Tokens]
Commands == [kind : {"none", "auth", "refresh", "clear"}, bot : Bots \cup {"none"},
             again : BOOLEAN]

TokenTypeOK ==
    /\ backend \in Backends
    /\ store \subseteq Entries /\ ideal \subseteq Entries
    /\ readable \in BOOLEAN /\ calm \in BOOLEAN
    /\ issued \in [Bots -> 0..MaxTokens] /\ expired \subseteq Tokens
    /\ pc \in [Procs -> {"idle", "get", "fetch", "read", "write", "writing"}]
    /\ cmd \in [Procs -> Commands]
    /\ count \in 0..MaxCommands /\ began \in [Procs -> 0..MaxTokens]
    /\ tok \in [Procs -> Tokens \cup {NoToken}]
    /\ mine \in [Procs -> SUBSET Entries] /\ dirty \in [Procs -> BOOLEAN]
    /\ result \in [Procs -> {"none", "token", "cleared", "error", "api error"}]

(* Whatever other processes do to the cache, crash or overlap: the token a *)
(* command ends with was issued to its bot, and after a refresh it is one  *)
(* issued since (cmd/cmd.go:146-212, config.go, CacheKey).                 *)
TokenIsRight ==
    \A p \in Procs : pc[p] = "idle" /\ result[p] = "token" =>
        tok[p].bot = cmd[p].bot /\ tok[p].n > began[p]

(* As long as no two writers overlap, none dies and no write or call fails *)
(* the cache holds what the Sets and Deletes so far have put and left in   *)
(* it, expired entries aside (token/file.go:35-76, vault.go:80-204).       *)
CacheIsExact ==
    calm /\ (\A p \in Procs : ~Changing(p)) => Live(store) = Live(ideal)
=============================================================================
