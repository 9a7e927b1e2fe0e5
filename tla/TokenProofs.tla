------------------------------ MODULE TokenProofs ------------------------------
(* Theorems about TokenCache: types, that a command ends with a token of   *)
(* its bot, and that the cache is exact while the writers keep apart.      *)
EXTENDS TokenCache, TLAPS

(* Where a command is, and what its token is worth there.                  *)
RightInv ==
    \A p \in Procs :
        /\ pc[p] # "idle" => result[p] = "none" /\ cmd[p].bot \in Bots
        /\ pc[p] = "get" => began[p] = 0
        /\ pc[p] = "fetch" => began[p] <= issued[cmd[p].bot]
        /\ pc[p] \in {"read", "write", "writing"} /\ cmd[p].kind # "clear" =>
               tok[p].bot = cmd[p].bot /\ tok[p].n > began[p]
        /\ pc[p] = "idle" /\ result[p] = "token" =>
               tok[p].bot = cmd[p].bot /\ tok[p].n > began[p]

(* Every entry is under the key of its token's bot.                        *)
Proper(S) == \A e \in S : e.key = CacheKey(e.tok.bot)

EntryInv == Proper(store) /\ \A p \in Procs : Proper(mine[p])

(* The entries, once p has set or deleted its own.                         *)
IdealAfter(p) ==
    IF cmd[p].kind = "clear" THEN Without(ideal, Key(p))
    ELSE Without(ideal, Key(p)) \cup {Entry(p)}

(* As long as all is calm there is one writer at most, and it is about to  *)
(* write what should be there.                                             *)
ExactInv ==
    /\ ~readable => store = {} /\ backend = "file"
    /\ \A p \in Procs : pc[p] = "writing" => backend = "file"
    /\ calm =>
        /\ (\A p \in Procs : ~Changing(p)) => Live(store) = Live(ideal)
        /\ \A p \in Procs : Changing(p) =>
               /\ \A q \in Procs \ {p} : ~Changing(q)
               /\ Live(mine[p]) = Live(IdealAfter(p))
               /\ pc[p] = "writing" => ~dirty[p]

IInv == TokenTypeOK /\ RightInv /\ EntryInv /\ ExactInv

-----------------------------------------------------------------------------
Place  == {"idle", "get", "fetch", "read", "write", "writing"}
Ending == {"token", "cleared", "error", "api error"}

(* A key tells the bots apart.                                             *)
LEMMA KeyTellsBot ==
    ASSUME NEW b \in Bots, NEW c \in Bots, CacheKey(b) = CacheKey(c)
    PROVE  b = c
BY TokenAssumption DEF CacheKey

LEMMA InitInv == Init => IInv
<1> SUFFICES ASSUME Init
             PROVE  IInv
  OBVIOUS
<1>1. TokenTypeOK
  BY TokenAssumption DEF Init, TokenTypeOK, NoCmd, Commands
<1>2. RightInv
  BY DEF Init, RightInv
<1>3. EntryInv
  BY DEF Init, EntryInv, Proper
<1>4. ExactInv
  BY DEF Init, ExactInv, Changing, Live
<1> QED
  BY <1>1, <1>2, <1>3, <1>4 DEF IInv

-----------------------------------------------------------------------------
(* The end of a command: it leaves the types in order,                     *)
LEMMA FinishType ==
    ASSUME TokenTypeOK, RightInv, NEW p \in Procs, pc[p] # "idle",
           NEW r \in Ending, Finish(p, r),
           tok' \in [Procs -> Tokens \cup {NoToken}],
           store' \subseteq Entries, ideal' \subseteq Entries,
           readable' \in BOOLEAN, calm' \in BOOLEAN, dirty' \in [Procs -> BOOLEAN]
    PROVE  TokenTypeOK'
<1> DEFINE again == cmd[p].again /\ r = "token"
           retry == [cmd[p] EXCEPT !.kind = "refresh", !.again = FALSE]
<1>1. /\ cmd[p] \in Commands /\ cmd[p].bot \in Bots /\ issued[cmd[p].bot] \in 0..MaxTokens
  BY DEF TokenTypeOK, RightInv
<1>2. retry \in Commands
  BY <1>1 DEF Commands
<1>3. CASE again
  <2>1. /\ pc' = [pc EXCEPT ![p] = "fetch"]
        /\ cmd' = [cmd EXCEPT ![p] = retry]
        /\ began' = [began EXCEPT ![p] = issued[cmd[p].bot]]
        /\ result' = result
        /\ mine' = [mine EXCEPT ![p] = {}]
        /\ UNCHANGED <<backend, issued, expired, count>>
    BY <1>3 DEF Finish, Goto
  <2>2. /\ pc' \in [Procs -> Place] /\ mine' \in [Procs -> SUBSET Entries]
        /\ began' \in [Procs -> 0..MaxTokens]
    BY <2>1, <1>1 DEF TokenTypeOK, Place
  <2>3. cmd' \in [Procs -> Commands]
    BY <2>1, <1>2 DEF TokenTypeOK
  <2> QED
    BY <2>1, <2>2, <2>3 DEF TokenTypeOK, Place
<1>4. CASE ~again
  <2>1. /\ pc' = [pc EXCEPT ![p] = "idle"]
        /\ result' = [result EXCEPT ![p] = r]
        /\ mine' = [mine EXCEPT ![p] = {}]
        /\ UNCHANGED <<cmd, began, backend, issued, expired, count>>
    BY <1>4 DEF Finish, Goto
  <2>2. /\ pc' \in [Procs -> Place] /\ mine' \in [Procs -> SUBSET Entries]
        /\ result' \in [Procs -> {"none", "token", "cleared", "error", "api error"}]
    BY <2>1 DEF TokenTypeOK, Place, Ending
  <2> QED
    BY <2>1, <2>2 DEF TokenTypeOK, Place
<1> QED
  BY <1>3, <1>4

(* and a token that is right, right.                                       *)
LEMMA FinishRight ==
    ASSUME TokenTypeOK, RightInv, NEW p \in Procs, pc[p] # "idle",
           NEW r \in Ending, Finish(p, r),
           \A q \in Procs \ {p} : tok'[q] = tok[q],
           r = "token" => tok'[p].bot = cmd[p].bot /\ tok'[p].n > began[p]
    PROVE  RightInv'
<1> DEFINE again == cmd[p].again /\ r = "token"
<1>1. issued' = issued /\ cmd[p] \in Commands /\ cmd[p].bot \in Bots
      /\ issued[cmd[p].bot] \in 0..MaxTokens /\ result[p] = "none"
  BY DEF Finish, TokenTypeOK, RightInv
<1>2. \A q \in Procs \ {p} :
          /\ pc'[q] = pc[q] /\ cmd'[q] = cmd[q] /\ began'[q] = began[q]
          /\ result'[q] = result[q]
  BY DEF Finish, Goto, TokenTypeOK
<1>3. CASE again
  <2>1. /\ pc'[p] = "fetch" /\ result'[p] = "none"
        /\ cmd'[p].bot = cmd[p].bot /\ began'[p] = issued[cmd[p].bot]
    <3> DEFINE retry == [cmd[p] EXCEPT !.kind = "refresh", !.again = FALSE]
    <3>1. /\ pc' = [pc EXCEPT ![p] = "fetch"]
          /\ cmd' = [cmd EXCEPT ![p] = retry]
          /\ began' = [began EXCEPT ![p] = issued[cmd[p].bot]]
          /\ result' = result
      BY <1>3 DEF Finish, Goto
    <3>2. retry.bot = cmd[p].bot
      BY <1>1 DEF Commands
    <3> QED
      BY <3>1, <3>2, <1>1 DEF TokenTypeOK
  <2>2. began'[p] <= issued'[cmd'[p].bot]
    BY <2>1, <1>1, TokenAssumption
  <2> QED
    BY <1>1, <1>2, <2>1, <2>2 DEF RightInv
<1>4. CASE ~again
  <2>1. /\ pc'[p] = "idle" /\ result'[p] = r
        /\ cmd'[p] = cmd[p] /\ began'[p] = began[p]
    BY <1>4 DEF Finish, Goto, TokenTypeOK
  <2> QED
    BY <1>1, <1>2, <2>1 DEF RightInv
<1> QED
  BY <1>3, <1>4

(* It is not about to write any more, the others are where they were.      *)
LEMMA FinishWrites ==
    ASSUME TokenTypeOK, NEW p \in Procs, NEW r \in Ending, Finish(p, r)
    PROVE  /\ mine'[p] = {} /\ ~Changing(p)' /\ pc'[p] # "writing"
           /\ UNCHANGED <<backend, expired>>
           /\ \A q \in Procs \ {p} :
                  mine'[q] = mine[q] /\ cmd'[q] = cmd[q] /\ pc'[q] = pc[q]
BY DEF Finish, Goto, TokenTypeOK, Changing

(* A step of one process that neither writes nor is about to, and leaves   *)
(* the cache alone.                                                        *)
LEMMA AsideInv ==
    ASSUME IInv, NEW p \in Procs,
           ~Changing(p), ~Changing(p)', pc'[p] # "writing",
           mine'[p] \in {{}, mine[p]},
           UNCHANGED <<backend, expired, cacheVars>>,
           \A q \in Procs \ {p} :
               /\ mine'[q] = mine[q] /\ cmd'[q] = cmd[q] /\ pc'[q] = pc[q]
               /\ tok'[q] = tok[q]
    PROVE  EntryInv' /\ ExactInv'
<1>1. UNCHANGED <<store, readable, dirty, ideal, calm>>
  BY DEF cacheVars
<1>2. EntryInv'
  BY <1>1 DEF IInv, EntryInv, Proper
<1>3. \A q \in Procs : Changing(q)' <=> Changing(q)
  BY DEF Changing
<1>4. Live(store)' = Live(store) /\ Live(ideal)' = Live(ideal)
  BY <1>1 DEF Live
<1>5. ASSUME NEW q \in Procs, Changing(q)
      PROVE  /\ Live(mine[q])' = Live(mine[q])
             /\ Live(IdealAfter(q))' = Live(IdealAfter(q))
             /\ pc'[q] = pc[q] /\ dirty'[q] = dirty[q]
  <2>1. q # p
    BY <1>5
  <2> QED
    BY <2>1, <1>1 DEF Live, IdealAfter, Key, Entry, Without
<1>6. ExactInv'
  BY <1>1, <1>3, <1>4, <1>5 DEF IInv, ExactInv
<1> QED
  BY <1>2, <1>6

(* The only writer is done, and wrote what should be there.                *)
LEMMA WrittenInv ==
    ASSUME IInv, NEW p \in Procs, pc[p] # "idle", NEW r \in Ending, Finish(p, r),
           tok' = tok,
           store' \subseteq Entries, Proper(store'),
           ~readable' => store' = {} /\ backend = "file",
           calm' => calm,
           calm' => Live(store') = Live(ideal') /\ \A q \in Procs \ {p} : ~Changing(q)
    PROVE  EntryInv' /\ ExactInv'
<1>1. /\ mine'[p] = {} /\ ~Changing(p)' /\ pc'[p] # "writing"
      /\ UNCHANGED <<backend, expired>>
      /\ \A q \in Procs \ {p} :
             mine'[q] = mine[q] /\ cmd'[q] = cmd[q] /\ pc'[q] = pc[q]
  BY FinishWrites DEF IInv
<1>2. EntryInv'
  BY <1>1 DEF IInv, EntryInv, Proper
<1>3. \A q \in Procs \ {p} : Changing(q)' <=> Changing(q)
  BY <1>1 DEF Changing
<1>4. Live(store)' = Live(store') /\ Live(ideal)' = Live(ideal')
  BY <1>1 DEF Live
<1>5. ExactInv'
  BY <1>1, <1>3, <1>4 DEF IInv, ExactInv
<1> QED
  BY <1>2, <1>5

-----------------------------------------------------------------------------
(* One lemma per action.                                                   *)

LEMMA BeginInv ==
    ASSUME IInv, NEW p \in Procs, NEW k \in {"auth", "refresh", "clear"},
           NEW b \in Bots, NEW again \in BOOLEAN, Begin(p, k, b, again)
    PROVE  IInv'
<1> DEFINE c == [kind |-> k, bot |-> b, again |-> again]
           g == IF k = "refresh" THEN issued[b] ELSE 0
<1>1. /\ pc[p] = "idle" /\ count < MaxCommands
      /\ count' = count + 1
      /\ cmd' = [cmd EXCEPT ![p] = c]
      /\ began' = [began EXCEPT ![p] = g]
      /\ tok' = [tok EXCEPT ![p] = NoToken]
      /\ result' = [result EXCEPT ![p] = "none"]
      /\ pc' = [pc EXCEPT ![p] = FirstStep(k)]
      /\ UNCHANGED <<backend, issued, expired, mine, cacheVars>>
  BY DEF Begin, Goto
<1>2. /\ FirstStep(k) \in {"get", "fetch", "read"}
      /\ FirstStep(k) = "get" => k = "auth"
      /\ FirstStep(k) = "fetch" => k = "refresh"
      /\ FirstStep(k) = "read" => k = "clear"
  BY DEF FirstStep
<1>3. issued[b] \in 0..MaxTokens /\ g \in 0..MaxTokens /\ MaxTokens \in Nat
  <2>1. issued[b] \in 0..MaxTokens /\ MaxTokens \in Nat
    BY TokenAssumption DEF IInv, TokenTypeOK
  <2>2. 0 \in 0..MaxTokens
    BY <2>1
  <2> QED
    BY <2>1, <2>2
<1>4. c \in Commands
  BY DEF Commands
<1> HIDE DEF c, g
<1>5. TokenTypeOK'
  <2>1. UNCHANGED <<store, readable, dirty, ideal, calm>>
    BY <1>1 DEF cacheVars
  <2>2. /\ pc' \in [Procs -> Place] /\ cmd' \in [Procs -> Commands]
        /\ began' \in [Procs -> 0..MaxTokens]
    BY <1>1, <1>2, <1>3, <1>4 DEF IInv, TokenTypeOK, Place
  <2>3. /\ tok' \in [Procs -> Tokens \cup {NoToken}]
        /\ result' \in [Procs -> {"none", "token", "cleared", "error", "api error"}]
    BY <1>1 DEF IInv, TokenTypeOK
  <2>4. count' \in 0..MaxCommands
    <3>1. count \in 0..MaxCommands /\ MaxCommands \in Nat
      BY TokenAssumption DEF IInv, TokenTypeOK
    <3> QED
      BY <3>1, <1>1
  <2> QED
    BY <1>1, <2>1, <2>2, <2>3, <2>4 DEF IInv, TokenTypeOK, Place
<1>6. \A q \in Procs \ {p} :
          /\ pc'[q] = pc[q] /\ cmd'[q] = cmd[q] /\ began'[q] = began[q]
          /\ result'[q] = result[q] /\ tok'[q] = tok[q]
  BY <1>1 DEF IInv, TokenTypeOK
<1>7. /\ pc'[p] = FirstStep(k) /\ cmd'[p] = c /\ began'[p] = g /\ result'[p] = "none"
  BY <1>1 DEF IInv, TokenTypeOK
<1>8. RightInv'
  <2>1. c.kind = k /\ c.bot = b
    BY DEF c
  <2>2. /\ FirstStep(k) = "get" => g = 0
        /\ FirstStep(k) = "fetch" => g <= issued[b]
    BY <1>2, <1>3 DEF g
  <2> QED
    BY <1>1, <1>2, <1>6, <1>7, <2>1, <2>2 DEF IInv, RightInv
<1>9. EntryInv' /\ ExactInv'
  <2>1. ~Changing(p) /\ ~Changing(p)' /\ pc'[p] # "writing"
    BY <1>1, <1>2, <1>7 DEF Changing
  <2> QED
    BY <1>1, <1>6, <2>1, AsideInv
<1> QED
  BY <1>5, <1>8, <1>9 DEF IInv

(* A token from the cache is one of the bot, by the key it is under.       *)
LEMMA GetHitInv ==
    ASSUME IInv, NEW p \in Procs, GetHit(p)
    PROVE  IInv'
<1>1. /\ pc[p] = "get" /\ Finish(p, "token") /\ UNCHANGED cacheVars
  BY DEF GetHit
<1>2. PICK e \in store : e.key = Key(p) /\ tok' = [tok EXCEPT ![p] = e.tok]
  BY DEF GetHit, Live
<1>3. e \in Entries /\ e.tok \in Tokens /\ e.key = CacheKey(e.tok.bot)
  BY DEF IInv, TokenTypeOK, EntryInv, Proper, Entries
<1>4. cmd[p].bot \in Bots /\ began[p] = 0
  BY <1>1 DEF IInv, RightInv
<1>5. e.tok.bot = cmd[p].bot /\ e.tok.n > 0
  <2>1. e.tok.bot \in Bots /\ e.tok.n > 0
    BY <1>3 DEF Tokens
  <2> QED
    BY <1>2, <1>3, <1>4, <2>1, KeyTellsBot DEF Key
<1>6. /\ tok' \in [Procs -> Tokens \cup {NoToken}] /\ tok'[p] = e.tok
      /\ \A q \in Procs \ {p} : tok'[q] = tok[q]
  BY <1>2, <1>3 DEF IInv, TokenTypeOK
<1>7. TokenTypeOK'
  BY <1>1, <1>6, FinishType DEF IInv, TokenTypeOK, cacheVars, Ending
<1>8. RightInv'
  BY <1>1, <1>4, <1>5, <1>6, FinishRight DEF IInv, Ending
<1>9. EntryInv' /\ ExactInv'
  <2>1. ~Changing(p)
    BY <1>1 DEF Changing
  <2> QED
    BY <1>1, <1>6, <2>1, FinishWrites, AsideInv DEF IInv, Ending
<1> QED
  BY <1>7, <1>8, <1>9 DEF IInv

LEMMA GetMissInv ==
    ASSUME IInv, NEW p \in Procs, GetMiss(p)
    PROVE  IInv'
<1>1. /\ pc[p] = "get"
      /\ pc' = [pc EXCEPT ![p] = "fetch"]
      /\ UNCHANGED <<backend, issued, expired, cmd, count, began, tok, mine, result, cacheVars>>
      /\ UNCHANGED <<store, readable, dirty, ideal, calm>>
  BY DEF GetMiss, Goto, cacheVars
<1>2. pc'[p] = "fetch" /\ \A q \in Procs \ {p} : pc'[q] = pc[q]
  BY <1>1 DEF IInv, TokenTypeOK
<1>3. TokenTypeOK'
  BY <1>1 DEF IInv, TokenTypeOK
<1>4. RightInv'
  <2>1. issued[cmd[p].bot] \in 0..MaxTokens /\ began[p] = 0 /\ MaxTokens \in Nat
    BY <1>1, TokenAssumption DEF IInv, RightInv, TokenTypeOK
  <2> QED
    BY <1>1, <1>2, <2>1 DEF IInv, RightInv
<1>5. EntryInv' /\ ExactInv'
  <2>1. ~Changing(p) /\ ~Changing(p)' /\ pc'[p] # "writing"
    BY <1>1, <1>2 DEF Changing
  <2> QED
    BY <1>1, <1>2, <2>1, AsideInv
<1> QED
  BY <1>3, <1>4, <1>5 DEF IInv

(* A token the API issues is later than any before.                        *)
LEMMA GetTokenInv ==
    ASSUME IInv, NEW p \in Procs, GetToken(p)
    PROVE  IInv'
<1> DEFINE b == cmd[p].bot
           t == [bot |-> b, n |-> issued[b] + 1]
<1>1. /\ pc[p] = "fetch" /\ issued[b] < MaxTokens
      /\ issued' = [issued EXCEPT ![b] = @ + 1]
      /\ tok' = [tok EXCEPT ![p] = t]
      /\ pc' = [pc EXCEPT ![p] = "read"]
      /\ UNCHANGED <<backend, expired, cmd, count, began, mine, result, cacheVars>>
      /\ UNCHANGED <<store, readable, dirty, ideal, calm>>
  BY DEF GetToken, Goto, cacheVars
<1>2. b \in Bots /\ result[p] = "none" /\ began[p] <= issued[b]
  BY <1>1 DEF IInv, RightInv
<1>3. /\ issued[b] \in 0..MaxTokens /\ began[p] \in 0..MaxTokens /\ MaxTokens \in Nat
      /\ issued \in [Bots -> 0..MaxTokens]
  BY <1>2, TokenAssumption DEF IInv, TokenTypeOK
<1>4. t \in Tokens
  BY <1>1, <1>2, <1>3 DEF Tokens
<1>5. /\ issued' \in [Bots -> 0..MaxTokens]
      /\ \A c \in Bots : issued[c] <= issued'[c]
  BY <1>1, <1>2, <1>3
<1>6. /\ pc'[p] = "read" /\ tok'[p] = t
      /\ \A q \in Procs \ {p} : pc'[q] = pc[q] /\ tok'[q] = tok[q]
  BY <1>1 DEF IInv, TokenTypeOK
<1>7. TokenTypeOK'
  <2>1. tok' \in [Procs -> Tokens \cup {NoToken}] /\ pc' \in [Procs -> Place]
    BY <1>1, <1>4 DEF IInv, TokenTypeOK, Place
  <2> QED
    BY <1>1, <1>5, <2>1 DEF IInv, TokenTypeOK, Place
<1>8. RightInv'
  <2>1. t.bot = b /\ t.n > began[p]
    BY <1>2, <1>3
  <2> HIDE DEF t
  <2>2. ASSUME NEW q \in Procs, q # p, pc[q] = "fetch"
        PROVE  began[q] <= issued'[cmd[q].bot]
    <3>1. /\ cmd[q].bot \in Bots /\ began[q] <= issued[cmd[q].bot]
          /\ began[q] \in 0..MaxTokens
      BY <2>2 DEF IInv, RightInv, TokenTypeOK
    <3>2. issued[cmd[q].bot] \in Nat /\ issued'[cmd[q].bot] \in Nat /\ began[q] \in Nat
      BY <3>1, <1>3, <1>5
    <3> QED
      BY <3>1, <3>2, <1>5
  <2> QED
    BY <1>1, <1>2, <1>6, <2>1, <2>2 DEF IInv, RightInv
<1>9. EntryInv' /\ ExactInv'
  <2>1. ~Changing(p) /\ ~Changing(p)' /\ pc'[p] # "writing"
    BY <1>1, <1>6 DEF Changing
  <2> QED
    BY <1>1, <1>6, <2>1, AsideInv
<1> QED
  BY <1>7, <1>8, <1>9 DEF IInv

LEMMA GetTokenFailsInv ==
    ASSUME IInv, NEW p \in Procs, GetTokenFails(p)
    PROVE  IInv'
<1>1. /\ pc[p] = "fetch" /\ Finish(p, "api error") /\ "api error" \in Ending
      /\ UNCHANGED <<tok, cacheVars>>
      /\ UNCHANGED <<store, readable, dirty, ideal, calm>>
  BY DEF GetTokenFails, cacheVars, Ending
<1>2. TokenTypeOK'
  BY <1>1, FinishType DEF IInv, TokenTypeOK
<1>3. RightInv'
  BY <1>1, FinishRight DEF IInv
<1>4. EntryInv' /\ ExactInv'
  <2>1. ~Changing(p)
    BY <1>1 DEF Changing
  <2> QED
    BY <1>1, <2>1, FinishWrites, AsideInv DEF IInv
<1> QED
  BY <1>2, <1>3, <1>4 DEF IInv

(* What a command that reached the cache ends with is right.               *)
LEMMA DoneRight ==
    ASSUME IInv, NEW p \in Procs, pc[p] \in {"read", "write", "writing"},
           NEW r \in Ending, r = "token" => cmd[p].kind # "clear",
           Finish(p, r), tok' = tok
    PROVE  RightInv'
BY FinishRight DEF IInv, RightInv

LEMMA NoCacheInv ==
    ASSUME IInv, NEW p \in Procs, NoCache(p)
    PROVE  IInv'
<1>1. /\ pc[p] = "read" /\ Finish(p, Done(p))
      /\ Done(p) \in Ending /\ (Done(p) = "token" => cmd[p].kind # "clear")
      /\ UNCHANGED <<tok, cacheVars>>
      /\ UNCHANGED <<store, readable, dirty, ideal, calm>>
  BY DEF NoCache, cacheVars, Done, Ending
<1>2. TokenTypeOK'
  BY <1>1, FinishType DEF IInv, TokenTypeOK
<1>3. RightInv'
  BY <1>1, DoneRight
<1>4. EntryInv' /\ ExactInv'
  <2>1. ~Changing(p)
    BY <1>1 DEF Changing
  <2> QED
    BY <1>1, <2>1, FinishWrites, AsideInv DEF IInv
<1> QED
  BY <1>2, <1>3, <1>4 DEF IInv

(* The entry a command is about to put is one of its bot's.                *)
LEMMA EntryProper ==
    ASSUME IInv, NEW p \in Procs, pc[p] \in {"read", "write", "writing"},
           cmd[p].kind # "clear"
    PROVE  /\ Entry(p) \in Entries /\ Entry(p).key = Key(p)
           /\ Entry(p).tok = tok[p] /\ Key(p) = CacheKey(tok[p].bot)
<1>1. cmd[p].bot \in Bots /\ tok[p].bot = cmd[p].bot /\ tok[p].n > began[p]
  BY DEF IInv, RightInv
<1>2. tok[p] \in Tokens
  <2>1. began[p] \in 0..MaxTokens /\ tok[p] \in Tokens \cup {NoToken} /\ NoToken.n = 0
        /\ MaxTokens \in Nat
    BY TokenAssumption DEF IInv, TokenTypeOK, NoToken
  <2>2. tok[p] # NoToken
    BY <1>1, <2>1
  <2> QED
    BY <2>1, <2>2
<1>3. Key(p) \in Keys
  BY <1>1 DEF Key, Keys
<1> QED
  BY <1>1, <1>2, <1>3 DEF Entry, Entries, Key

(* Over the entries there should be, a change makes those there should be. *)
LEMMA ChangedIsIdeal ==
    ASSUME IInv, NEW p \in Procs, NEW S, Live(S) = Live(ideal)
    PROVE  Live(Changed(S, p)) = Live(IdealAfter(p))
<1>1. \A e : e \in S /\ e.tok \notin expired <=> e \in ideal /\ e.tok \notin expired
  BY DEF Live
<1>2. CASE cmd[p].kind = "clear"
  BY <1>1, <1>2 DEF Changed, IdealAfter, Without, Live
<1>3. CASE cmd[p].kind # "clear"
  BY <1>1, <1>3 DEF Changed, IdealAfter, Without, Live
<1> QED
  BY <1>2, <1>3

(* A reader of the cache has nothing to do, gives up, or goes on to write. *)
LEMMA ReadAllInv ==
    ASSUME IInv, NEW p \in Procs, ReadAll(p)
    PROVE  IInv'
<1>1. /\ pc[p] = "read" /\ backend # "none" /\ ~Changing(p)
      /\ UNCHANGED <<tok, store, readable, dirty, ideal>>
  BY DEF ReadAll, Changing
<1>2. PICK ok \in IF backend = "vault" THEN BOOLEAN ELSE {readable} :
          LET S == IF ok THEN store ELSE {} IN
          /\ calm' = (calm /\ (backend = "vault" => ok)
                           /\ \A q \in Procs \ {p} : ~Changing(q))
          /\ \/ NothingToDo(p, S, ok) /\ Finish(p, "cleared")
             \/ backend = "vault" /\ ~ok /\ cmd[p].kind = "clear" /\ Finish(p, "error")
             \/ /\ ~NothingToDo(p, S, ok)
                /\ mine' = [mine EXCEPT ![p] = Changed(S, p)]
                /\ Goto(p, "write")
                /\ UNCHANGED <<backend, issued, expired, cmd, count, began, result>>
  BY DEF ReadAll
<1> DEFINE S == IF ok THEN store ELSE {}
<1>3. calm' \in BOOLEAN /\ (calm' => calm /\ \A q \in Procs \ {p} : ~Changing(q))
  BY <1>2
<1>4. S \subseteq Entries /\ Proper(S)
  BY DEF IInv, TokenTypeOK, EntryInv, Proper
<1>5. calm' => Live(S) = Live(ideal)
  <2>1. calm' => Live(store) = Live(ideal)
    BY <1>1, <1>3 DEF IInv, ExactInv
  <2>2. calm' => S = store
    <3>1. backend \in {"vault", "file"}
      BY <1>1, TokenAssumption DEF IInv, TokenTypeOK
    <3>2. ~readable => store = {}
      BY DEF IInv, ExactInv
    <3> QED
      BY <1>2, <3>1, <3>2
  <2> QED
    BY <2>1, <2>2
<1> HIDE DEF S
<1>6. CASE Finish(p, "cleared") \/ Finish(p, "error")
  <2>1. PICK r \in {"cleared", "error"} : Finish(p, r)
    BY <1>6
  <2>2. r \in Ending /\ r # "token" /\ pc[p] # "idle"
    BY <1>1 DEF Ending
  <2>3. TokenTypeOK'
    BY <1>1, <1>3, <2>1, <2>2, FinishType DEF IInv, TokenTypeOK
  <2>4. RightInv'
    BY <1>1, <2>1, <2>2, DoneRight
  <2>5. EntryInv' /\ ExactInv'
    <3>1. calm' => Live(store') = Live(ideal')
      <4>1. calm' => Live(store) = Live(ideal)
        BY <1>1, <1>3 DEF IInv, ExactInv
      <4>2. Live(store') = Live(store) /\ Live(ideal') = Live(ideal)
        BY <1>1
      <4> QED
        BY <4>1, <4>2
    <3>2. store' \subseteq Entries /\ Proper(store') /\ (~readable' => store' = {} /\ backend = "file")
      BY <1>1 DEF IInv, TokenTypeOK, EntryInv, ExactInv
    <3> QED
      BY <1>1, <1>3, <2>1, <2>2, <3>1, <3>2, WrittenInv
  <2> QED
    BY <2>3, <2>4, <2>5 DEF IInv
<1>7. CASE ~(Finish(p, "cleared") \/ Finish(p, "error"))
  <2>1. /\ mine' = [mine EXCEPT ![p] = Changed(S, p)]
        /\ pc' = [pc EXCEPT ![p] = "write"]
        /\ UNCHANGED <<backend, issued, expired, cmd, count, began, result>>
    BY <1>2, <1>7 DEF Goto, S
  <2>2. Changed(S, p) \subseteq Entries /\ Proper(Changed(S, p))
    <3>1. cmd[p].kind # "clear" => Entry(p) \in Entries /\ Proper({Entry(p)})
      BY <1>1, EntryProper DEF Proper
    <3> QED
      BY <3>1, <1>4 DEF Changed, Without, Live, Proper
  <2>3. /\ pc'[p] = "write" /\ mine'[p] = Changed(S, p)
        /\ \A q \in Procs \ {p} : pc'[q] = pc[q] /\ mine'[q] = mine[q]
    BY <2>1 DEF IInv, TokenTypeOK
  <2>4. TokenTypeOK'
    <3>1. mine' \in [Procs -> SUBSET Entries] /\ pc' \in [Procs -> Place]
      BY <2>1, <2>2 DEF IInv, TokenTypeOK, Place
    <3> QED
      BY <1>1, <1>3, <2>1, <3>1 DEF IInv, TokenTypeOK, Place
  <2>5. RightInv'
    BY <1>1, <2>1, <2>3 DEF IInv, RightInv
  <2>6. EntryInv'
    BY <1>1, <2>2, <2>3 DEF IInv, EntryInv, Proper
  <2>7. ExactInv'
    <3>1. calm' => Live(Changed(S, p)) = Live(IdealAfter(p))
      BY <1>5, ChangedIsIdeal
    <3>2. Live(mine[p])' = Live(Changed(S, p)) /\ Live(IdealAfter(p))' = Live(IdealAfter(p))
      BY <1>1, <2>1, <2>3 DEF Live, IdealAfter, Key, Entry, Without
    <3>3. Changing(p)' /\ \A q \in Procs \ {p} : Changing(q)' <=> Changing(q)
      BY <2>3 DEF Changing
    <3>4. \A q \in Procs : pc'[q] = "writing" => q # p /\ pc[q] = "writing" /\ Changing(q)
      BY <2>3 DEF Changing
    <3> QED
      BY <1>1, <1>3, <2>1, <2>3, <3>1, <3>2, <3>3, <3>4 DEF IInv, ExactInv
  <2> QED
    BY <2>4, <2>5, <2>6, <2>7 DEF IInv
<1> QED
  BY <1>6, <1>7

(* The entries there should be are entries.                                *)
LEMMA IdealType ==
    ASSUME IInv, NEW p \in Procs, pc[p] \in {"read", "write", "writing"}
    PROVE  IdealAfter(p) \subseteq Entries
BY EntryProper DEF IInv, TokenTypeOK, IdealAfter, Without

LEMMA PostSecretInv ==
    ASSUME IInv, NEW p \in Procs, PostSecret(p)
    PROVE  IInv'
<1>1. /\ pc[p] = "write" /\ Finish(p, Done(p)) /\ Changing(p)
      /\ Done(p) \in Ending /\ (Done(p) = "token" => cmd[p].kind # "clear")
      /\ store' = mine[p] /\ ideal' = IdealAfter(p)
      /\ UNCHANGED <<tok, readable, dirty, calm>>
  BY DEF PostSecret, Ideally, IdealAfter, Done, Ending, Changing
<1>2. /\ store' \subseteq Entries /\ Proper(store') /\ ideal' \subseteq Entries
  BY <1>1, IdealType DEF IInv, TokenTypeOK, EntryInv
<1>3. readable
  BY DEF PostSecret, IInv, ExactInv
<1>4. calm' => Live(store') = Live(ideal') /\ \A q \in Procs \ {p} : ~Changing(q)
  <2>1. calm => Live(mine[p]) = Live(IdealAfter(p))
                /\ \A q \in Procs \ {p} : ~Changing(q)
    BY <1>1 DEF IInv, ExactInv
  <2> QED
    BY <1>1, <2>1
<1>5. TokenTypeOK'
  BY <1>1, <1>2, FinishType DEF IInv, TokenTypeOK
<1>6. RightInv'
  BY <1>1, DoneRight
<1>7. EntryInv' /\ ExactInv'
  BY <1>1, <1>2, <1>3, <1>4, WrittenInv
<1> QED
  BY <1>5, <1>6, <1>7 DEF IInv

LEMMA PostFailsInv ==
    ASSUME IInv, NEW p \in Procs, PostFails(p)
    PROVE  IInv'
<1> DEFINE r == IF cmd[p].kind = "clear" THEN "error" ELSE "token"
<1>1. /\ pc[p] = "write" /\ Finish(p, r)
      /\ r \in Ending /\ (r = "token" => cmd[p].kind # "clear")
      /\ store' \in {store, mine[p]} /\ calm' = FALSE
      /\ UNCHANGED <<tok, readable, dirty, ideal>>
  BY DEF PostFails, Ending
<1> HIDE DEF r
<1>2. store' \subseteq Entries /\ Proper(store')
  BY <1>1 DEF IInv, TokenTypeOK, EntryInv
<1>3. readable
  BY DEF PostFails, IInv, ExactInv
<1>4. TokenTypeOK'
  BY <1>1, <1>2, FinishType DEF IInv, TokenTypeOK
<1>5. RightInv'
  BY <1>1, DoneRight
<1>6. EntryInv' /\ ExactInv'
  BY <1>1, <1>2, <1>3, WrittenInv
<1> QED
  BY <1>4, <1>5, <1>6 DEF IInv

LEMMA TruncateInv ==
    ASSUME IInv, NEW p \in Procs, Truncate(p)
    PROVE  IInv'
<1>1. /\ pc[p] = "write" /\ backend = "file" /\ Changing(p)
      /\ readable' = FALSE /\ store' = {}
      /\ dirty' = [dirty EXCEPT ![p] = FALSE]
      /\ pc' = [pc EXCEPT ![p] = "writing"]
      /\ UNCHANGED <<backend, issued, expired, cmd, count, began, tok, mine, result,
                     ideal, calm>>
  BY DEF Truncate, Goto, Changing
<1>2. /\ pc'[p] = "writing" /\ dirty'[p] = FALSE
      /\ \A q \in Procs \ {p} : pc'[q] = pc[q] /\ dirty'[q] = dirty[q]
  BY <1>1 DEF IInv, TokenTypeOK
<1>3. TokenTypeOK'
  <2>1. dirty' \in [Procs -> BOOLEAN] /\ pc' \in [Procs -> Place]
    BY <1>1 DEF IInv, TokenTypeOK, Place
  <2> QED
    BY <1>1, <2>1 DEF IInv, TokenTypeOK, Place
<1>4. RightInv'
  BY <1>1, <1>2 DEF IInv, RightInv
<1>5. EntryInv'
  BY <1>1 DEF IInv, EntryInv, Proper
<1>6. ExactInv'
  <2>1. \A q \in Procs : Changing(q)' <=> Changing(q)
    BY <1>1, <1>2 DEF Changing
  <2>2. \A q \in Procs : /\ Live(mine[q])' = Live(mine[q])
                          /\ Live(IdealAfter(q))' = Live(IdealAfter(q))
    BY <1>1 DEF Live, IdealAfter, Key, Entry, Without
  <2> QED
    BY <1>1, <1>2, <2>1, <2>2 DEF IInv, ExactInv
<1> QED
  BY <1>3, <1>4, <1>5, <1>6 DEF IInv

LEMMA WriteFileInv ==
    ASSUME IInv, NEW p \in Procs, WriteFile(p)
    PROVE  IInv'
<1>1. /\ pc[p] = "writing" /\ Finish(p, Done(p)) /\ Changing(p)
      /\ Done(p) \in Ending /\ (Done(p) = "token" => cmd[p].kind # "clear")
      /\ \/ store' = mine[p] /\ readable' = TRUE
         \/ dirty[p] /\ store' = {} /\ readable' = FALSE
      /\ ideal' = IdealAfter(p)
      /\ dirty' = [q \in Procs |-> dirty[q] \/ (q # p /\ pc[q] = "writing")]
      /\ UNCHANGED <<tok, calm>>
  BY DEF WriteFile, Ideally, IdealAfter, Done, Ending, Changing
<1>2. /\ store' \subseteq Entries /\ Proper(store') /\ ideal' \subseteq Entries
      /\ readable' \in BOOLEAN
  BY <1>1, IdealType DEF IInv, TokenTypeOK, EntryInv, Proper
<1>3. dirty' \in [Procs -> BOOLEAN]
  BY <1>1 DEF IInv, TokenTypeOK
<1>4. ~readable' => store' = {} /\ backend = "file"
  BY <1>1 DEF IInv, ExactInv
<1>5. calm' => Live(store') = Live(ideal') /\ \A q \in Procs \ {p} : ~Changing(q)
  <2>1. calm => /\ Live(mine[p]) = Live(IdealAfter(p)) /\ ~dirty[p]
                /\ \A q \in Procs \ {p} : ~Changing(q)
    BY <1>1 DEF IInv, ExactInv
  <2> QED
    BY <1>1, <2>1
<1>6. TokenTypeOK'
  BY <1>1, <1>2, <1>3, FinishType DEF IInv, TokenTypeOK
<1>7. RightInv'
  BY <1>1, DoneRight
<1>8. EntryInv' /\ ExactInv'
  BY <1>1, <1>2, <1>4, <1>5, WrittenInv
<1> QED
  BY <1>6, <1>7, <1>8 DEF IInv

LEMMA WriteFailsInv ==
    ASSUME IInv, NEW p \in Procs, WriteFails(p)
    PROVE  IInv'
<1> DEFINE r == IF cmd[p].kind = "clear" THEN "error" ELSE "token"
           D == [q \in Procs |-> dirty[q] \/ (q # p /\ pc[q] = "writing")]
<1>1. /\ pc[p] \in {"write", "writing"} /\ Finish(p, r) /\ backend = "file"
      /\ r \in Ending /\ (r = "token" => cmd[p].kind # "clear")
      /\ \/ UNCHANGED <<store, readable, dirty>>
         \/ store' = {} /\ readable' = FALSE /\ dirty' = D
      /\ calm' = FALSE
      /\ UNCHANGED <<tok, ideal>>
  BY DEF WriteFails, Changing, Ending
<1>2. D \in [Procs -> BOOLEAN]
  OBVIOUS
<1> HIDE DEF r, D
<1>3. /\ store' \subseteq Entries /\ Proper(store') /\ readable' \in BOOLEAN
      /\ dirty' \in [Procs -> BOOLEAN]
      /\ ~readable' => store' = {} /\ backend = "file"
  <2>1. /\ store \subseteq Entries /\ Proper(store) /\ readable \in BOOLEAN
        /\ dirty \in [Procs -> BOOLEAN]
        /\ ~readable => store = {}
    BY DEF IInv, TokenTypeOK, EntryInv, ExactInv
  <2>2. Proper({})
    BY DEF Proper
  <2> QED
    BY <1>1, <1>2, <2>1, <2>2
<1>4. TokenTypeOK'
  BY <1>1, <1>3, FinishType DEF IInv, TokenTypeOK
<1>5. RightInv'
  BY <1>1, DoneRight
<1>6. EntryInv' /\ ExactInv'
  BY <1>1, <1>3, WrittenInv
<1> QED
  BY <1>4, <1>5, <1>6 DEF IInv

(* A process that dies in the middle of a change ends the calm.            *)
LEMMA DieInv ==
    ASSUME IInv, NEW p \in Procs, Die(p)
    PROVE  IInv'
<1>1. /\ pc[p] # "idle"
      /\ pc' = [pc EXCEPT ![p] = "idle"]
      /\ cmd' = [cmd EXCEPT ![p] = NoCmd]
      /\ mine' = [mine EXCEPT ![p] = {}]
      /\ calm' = (calm /\ ~Changing(p))
      /\ UNCHANGED <<backend, issued, expired, count, began, tok, result, store,
                     readable, dirty, ideal>>
  BY DEF Die, Goto
<1>2. /\ pc'[p] = "idle" /\ mine'[p] = {} /\ ~Changing(p)'
      /\ \A q \in Procs \ {p} :
             pc'[q] = pc[q] /\ cmd'[q] = cmd[q] /\ mine'[q] = mine[q]
  BY <1>1 DEF IInv, TokenTypeOK, Changing
<1>3. TokenTypeOK'
  <2>1. NoCmd \in Commands
    BY DEF NoCmd, Commands
  <2>2. cmd' \in [Procs -> Commands] /\ pc' \in [Procs -> Place]
        /\ mine' \in [Procs -> SUBSET Entries]
    BY <1>1, <2>1 DEF IInv, TokenTypeOK, Place
  <2>3. calm' \in BOOLEAN
    BY <1>1
  <2> QED
    BY <1>1, <2>2, <2>3 DEF IInv, TokenTypeOK, Place
<1>4. RightInv'
  BY <1>1, <1>2 DEF IInv, RightInv
<1>5. EntryInv'
  BY <1>1, <1>2 DEF IInv, EntryInv, Proper
<1>6. ExactInv'
  <2>1. \A q \in Procs \ {p} :
            /\ Changing(q)' <=> Changing(q)
            /\ Live(mine[q])' = Live(mine[q])
            /\ Live(IdealAfter(q))' = Live(IdealAfter(q))
    BY <1>1, <1>2 DEF Changing, Live, IdealAfter, Key, Entry, Without
  <2>2. Live(store)' = Live(store) /\ Live(ideal)' = Live(ideal)
    BY <1>1 DEF Live
  <2> QED
    BY <1>1, <1>2, <2>1, <2>2 DEF IInv, ExactInv
<1> QED
  BY <1>3, <1>4, <1>5, <1>6 DEF IInv

(* What is live of two sets alike stays alike when more expires.           *)
LEMMA ExpireInv ==
    ASSUME IInv, Expire
    PROVE  IInv'
<1>1. PICK e \in store : expired' = expired \cup {e.tok}
  BY DEF Expire
<1>2. UNCHANGED <<backend, issued, pc, cmd, count, began, tok, mine, result, store,
                  readable, dirty, ideal, calm>>
  BY DEF Expire, procVars, cacheVars
<1>3. e.tok \in Tokens
  BY DEF IInv, TokenTypeOK, Entries
<1>4. TokenTypeOK'
  BY <1>1, <1>2, <1>3 DEF IInv, TokenTypeOK
<1>5. RightInv' /\ EntryInv'
  BY <1>2 DEF IInv, RightInv, EntryInv, Proper
<1>6. ExactInv'
  <2>1. /\ Live(store)' = {x \in Live(store) : x.tok # e.tok}
        /\ Live(ideal)' = {x \in Live(ideal) : x.tok # e.tok}
    BY <1>1, <1>2 DEF Live
  <2>2. \A q \in Procs :
            /\ Live(mine[q])' = {x \in Live(mine[q]) : x.tok # e.tok}
            /\ Live(IdealAfter(q))' = {x \in Live(IdealAfter(q)) : x.tok # e.tok}
    BY <1>1, <1>2 DEF Live, IdealAfter, Key, Entry, Without
  <2>3. \A q \in Procs : Changing(q)' <=> Changing(q)
    BY <1>2 DEF Changing
  <2> QED
    BY <1>2, <2>1, <2>2, <2>3 DEF IInv, ExactInv
<1> QED
  BY <1>4, <1>5, <1>6 DEF IInv

LEMMA StutterInv ==
    ASSUME IInv, UNCHANGED vars
    PROVE  IInv'
<1>1. UNCHANGED <<backend, issued, expired, pc, cmd, count, began, tok, mine, result,
                  store, readable, dirty, ideal, calm>>
  BY DEF vars, procVars, cacheVars
<1>2. TokenTypeOK' /\ RightInv' /\ EntryInv'
  BY <1>1 DEF IInv, TokenTypeOK, RightInv, EntryInv, Proper
<1>3. ExactInv'
  BY <1>1 DEF IInv, ExactInv, Changing, Live, IdealAfter, Key, Entry, Without
<1> QED
  BY <1>2, <1>3 DEF IInv

-----------------------------------------------------------------------------
LEMMA NextInv == IInv /\ [Next]_vars => IInv'
<1> SUFFICES ASSUME IInv, [Next]_vars
             PROVE  IInv'
  OBVIOUS
<1>1. ASSUME NEW p \in Procs, ProcStep(p)
      PROVE  IInv'
  <2>1. CASE \E k \in {"auth", "refresh", "clear"}, b \in Bots, again \in BOOLEAN :
                 Begin(p, k, b, again)
    BY <2>1, BeginInv
  <2> QED
    BY <1>1, <2>1, GetHitInv, GetMissInv, GetTokenInv, GetTokenFailsInv, NoCacheInv,
       ReadAllInv, PostSecretInv, PostFailsInv, TruncateInv, WriteFileInv,
       WriteFailsInv, DieInv
       DEF ProcStep
<1> QED
  BY <1>1, ExpireInv, StutterInv DEF Next

(* Every reachable state of processes and cache satisfies the invariant.   *)
THEOREM InvariantHolds == Spec => []IInv
BY InitInv, NextInv, PTL DEF Spec

(* Every reachable state has its type.                                     *)
THEOREM TypeCorrect == Spec => []TokenTypeOK
<1>1. IInv => TokenTypeOK
  BY DEF IInv
<1> QED
  BY InvariantHolds, <1>1, PTL

(* Whatever happens to the cache, a command ends with a token of its bot,  *)
(* after a refresh with a new one (cmd/cmd.go:146-212).                    *)
THEOREM RightSafe == Spec => []TokenIsRight
<1>1. IInv => TokenIsRight
  BY DEF IInv, RightInv, TokenIsRight
<1> QED
  BY InvariantHolds, <1>1, PTL

(* While its writers keep apart, the cache is what they made it            *)
(* (token/file.go:35-76, vault.go:80-204).                                 *)
THEOREM ExactSafe == Spec => []CacheIsExact
<1>1. IInv => CacheIsExact
  BY DEF IInv, ExactInv, CacheIsExact
<1> QED
  BY InvariantHolds, <1>1, PTL
=============================================================================
