------------------------------ MODULE CliProofs ------------------------------
(***************************************************************************)
(* The commands "send" and "enqueue" keep the four invariants of module    *)
(* Cli for any commands, snapshots, targets and faults.  Their argument is *)
(*   LoadInv   what is loaded is what this command loads,                  *)
(*   PlaceInv  the targets are reported and resolved in their order,       *)
(*   SendInv   a client is kept under the name of its bot,                 *)
(*   RouteInv  a message keeps the revision it was routed by, and          *)
(*   OpenInv   whoever may still be sent to has got only messages whose    *)
(*             answers were lost.                                          *)
(* And the commands of module ConfigFile keep the configuration file sound *)
(* and lose nobody's change to a wait:                                     *)
(*   ContentInv  the file and what processes are about to write are sound, *)
(*   WaitInv     what a process would undo was written after it last       *)
(*               waited.                                                   *)
(***************************************************************************)
EXTENDS Cli, ConfigFile, FiniteSetTheorems, WellFoundedInduction, TLAPS

-----------------------------------------------------------------------------
(* Lists                                                                   *)

(* A set of numbers that is not empty has a least one.                     *)
LEMMA Least ==
    ASSUME NEW S \in SUBSET Nat, S # {}
    PROVE  \E u \in S : \A v \in S : u <= v
<1> DEFINE R == {p \in Nat \X Nat : p[1] < p[2]}
<1>1. OpToRel(<, Nat) = R  BY Zenon DEF OpToRel
<1>2. IsWellFoundedOn(R, Nat)
  <2>1. IsWellFoundedOn(OpToRel(<, Nat), Nat)  BY NatLessThanWellFounded
  <2> QED  BY <1>1, <2>1, Zenon
<1>3. \A u, v \in Nat : v < u => <<v, u>> \in R  OBVIOUS
<1> HIDE DEF R
<1>4. \E u \in S : \A v \in S : ~(<<v, u>> \in R)  BY <1>2, WFMin, Zenon
<1>5. PICK u \in S : \A v \in S : ~(<<v, u>> \in R)  BY <1>4
<1>6. ASSUME NEW v \in S PROVE u <= v
  <2>1. ~(v < u)  BY <1>3, <1>5
  <2>2. u \in Nat /\ v \in Nat  OBVIOUS
  <2> QED  BY <2>1, <2>2
<1> QED  BY <1>6

(* Among n or more places one is the n-th.                                 *)
LEMMA Ranked ==
    ASSUME NEW L \in Nat, NEW S \in SUBSET (1..L), NEW n \in 1..Cardinality(S)
    PROVE  \E k \in S : Cardinality({l \in S : l <= k}) = n
<1> DEFINE C(b) == {l \in S : l <= b}
           B == {b \in Nat : Cardinality(C(b)) >= n}
<1>0. \A l \in S : l \in Nat /\ 1 <= l /\ l <= L  OBVIOUS
<1>1. \A b : IsFiniteSet(C(b)) /\ Cardinality(C(b)) \in Nat
  <2>1. IsFiniteSet(1..L)  BY FS_Interval
  <2>2. ASSUME NEW b PROVE IsFiniteSet(C(b))
    <3>1. C(b) \in SUBSET (1..L)  OBVIOUS
    <3> QED  BY <2>1, <3>1, FS_Subset
  <2> QED  BY <2>2, FS_CardinalityType
<1>2. L \in B
  <2>1. C(L) = S  BY <1>0
  <2>2. Cardinality(S) \in Nat  BY <1>1, <2>1
  <2> QED  BY <2>1, <2>2
<1> HIDE DEF C
<1>3. B \in SUBSET Nat /\ B # {}  BY <1>2
<1>4. PICK u \in B : \A v \in B : u <= v
  <2> HIDE DEF B
  <2> QED  BY <1>3, Least
<1>5. u \in Nat /\ Cardinality(C(u)) >= n  OBVIOUS
<1>5a. \A v \in Nat : Cardinality(C(v)) >= n => u <= v  BY <1>4
<1> HIDE DEF B
<1>6. u # 0
  <2>1. \A l \in S : ~(l <= 0)  BY <1>0
  <2>1a. C(0) = {}  BY <2>1 DEF C
  <2>2. Cardinality(C(0)) = 0  BY <2>1a, FS_EmptySet
  <2>3. n \in Nat \ {0}
    <3>1. C(L) = S  BY <1>0 DEF C
    <3> QED  BY <1>1, <3>1
  <2> QED  BY <1>5, <2>2, <2>3
<1>7. u - 1 \in Nat /\ ~(Cardinality(C(u - 1)) >= n)
  <2>1. u - 1 \in Nat  BY <1>5, <1>6
  <2>2. ~(u <= u - 1)  BY <1>5
  <2> QED  BY <1>5a, <2>1, <2>2
<1>8. u \in S
  <2> SUFFICES ASSUME u \notin S PROVE FALSE  OBVIOUS
  <2>1. \A l \in S : l <= u <=> l <= u - 1  BY <1>0, <1>5
  <2>1a. C(u) = C(u - 1)  BY <2>1 DEF C
  <2> QED  BY <1>5, <1>7, <2>1a
<1>9. Cardinality(C(u)) = Cardinality(C(u - 1)) + 1
  <2>0. \A l \in S : l <= u <=> l <= u - 1 \/ l = u  BY <1>0, <1>5
  <2>0a. ~(u <= u - 1)  BY <1>5
  <2>1. C(u) = C(u - 1) \cup {u} /\ u \notin C(u - 1)  BY <2>0, <2>0a, <1>8 DEF C
  <2>2. IsFiniteSet(C(u - 1))  BY <1>1
  <2> QED  BY <2>1, <2>2, FS_AddElement
<1>10. Cardinality(C(u)) = n
  <2>1. Cardinality(C(u)) \in Nat /\ Cardinality(C(u - 1)) \in Nat  BY <1>1
  <2>2. n \in Int  OBVIOUS
  <2> QED  BY <1>5, <1>7, <1>9, <2>1, <2>2
<1> QED  BY <1>8, <1>10 DEF C

(* At keeps the entries at the places asked for and no other, and keeps    *)
(* apart what is apart.                                                    *)
Kept(s, S, a) ==
    /\ DOMAIN a = 1..Cardinality(S) /\ Cardinality(S) \in Nat
    /\ \A T : (\A k \in S : s[k] \in T) => a \in Seq(T)
    /\ \A n \in DOMAIN a : \E k \in S : a[n] = s[k]
    /\ (\A k, l \in S : k # l => s[k] # s[l])
          => \A m, n \in DOMAIN a : m # n => a[m] # a[n]

LEMMA AtEntries ==
    ASSUME NEW s, NEW L \in Nat, NEW S \in SUBSET (1..L)
    PROVE  Kept(s, S, At(s, S))
<1> DEFINE N == Cardinality(S)
           place(n) == CHOOSE k \in S : Cardinality({l \in S : l <= k}) = n
           f == [n \in 1..N |-> s[place(n)]]
<1>1. At(s, S) = f  BY DEF At
<1>2. N \in Nat
  <2>1. IsFiniteSet(1..L)  BY FS_Interval
  <2>2. IsFiniteSet(S)  BY <2>1, FS_Subset
  <2> QED  BY <2>2, FS_CardinalityType
<1>3. ASSUME NEW n \in 1..N
      PROVE  place(n) \in S /\ Cardinality({l \in S : l <= place(n)}) = n
  <2>1. \E k \in S : Cardinality({l \in S : l <= k}) = n  BY Ranked
  <2> QED  BY <2>1, Zenon
<1> HIDE DEF place, N
<1>4. \A n \in 1..N : f[n] = s[place(n)]  OBVIOUS
<1>5. DOMAIN f = 1..N  OBVIOUS
<1>6. ASSUME NEW T, \A k \in S : s[k] \in T PROVE f \in Seq(T)
  <2>1. f \in [1..N -> T]  BY <1>3, <1>6
  <2> QED  BY <1>2, <2>1
<1>7. \A n \in 1..N : \E k \in S : f[n] = s[k]  BY <1>3, <1>4
<1>8. ASSUME \A k, l \in S : k # l => s[k] # s[l],
             NEW m \in 1..N, NEW n \in 1..N, m # n
      PROVE  f[m] # f[n]
  <2>1. place(m) # place(n)  BY <1>3, <1>8
  <2> QED  BY <1>3, <1>4, <1>8, <2>1
<1> HIDE DEF f
<1> QED  BY <1>1, <1>2, <1>5, <1>6, <1>7, <1>8 DEF N, Kept

-----------------------------------------------------------------------------
(* Loading                                                                 *)

(* What the layers leave of a bot that has one kind of credentials or none *)
(* is one kind of credentials or none, though the flags have both; and if  *)
(* it is still of the bot's name it is that bot.                           *)
Layered(b, env, flags, l) ==
    LET last == IF Gives(flags) THEN flags ELSE env IN
    /\ ~Both(l)
    /\ l.host = Or(Or(flags.host, env.host), b.host)
    /\ l.id = Or(Or(flags.id, env.id), b.id)
    /\ Gives(last) =>
           /\ l.token = last.token
           /\ last.token = None => l.secret = last.secret
    /\ b.secret # None /\ b.secret = l.secret => l.token = b.token
    /\ b.token # None /\ b.token = l.token => l.secret = b.secret

LEMMA LayersKeepOne ==
    ASSUME NEW b, NEW env, NEW flags, ~Both(b), ~Both(env)
    PROVE  Layered(b, env, flags, Layer(ApplyEnv(b, env, FALSE), flags))
  BY DEF Layered, Both, Gives, Layer, ApplyEnv, Or

LEMMA LayeredHasLastWord ==
    ASSUME NEW b, NEW env, NEW flags, NEW n, NEW l, Layered(b, env, flags, l)
    PROVE  LastWord(env, flags, Loaded(n, l)) /\ ~Both(Loaded(n, l).bot)
  BY DEF Layered, LastWord, Loaded, Both, Or

(* Sound(c, env, flags, l): l is loaded from c as it should be.            *)
Sound(c, env, flags, l) ==
    /\ ~Both(l.bot)
    /\ LastWord(env, flags, l)
    /\ l.ok /\ l.name # None =>
           LET named == c.bots[l.name] IN
           /\ l.bot.host = named.host /\ l.bot.id = named.id
           /\ named.secret # None \/ named.token # None =>
                  l.bot.secret = named.secret /\ l.bot.token = named.token

LEMMA SoundIsCoherent ==
    ASSUME NEW c, NEW env, NEW flags, NEW l, Sound(c, env, flags, l),
           l.ok /\ ~l.multi => HasCredentials(l.bot)
    PROVE  Coherent(c, l) /\ LastWord(env, flags, l)
  BY DEF Sound, Coherent

LEMMA FailedIsSound ==
    ASSUME NEW c, NEW env, NEW flags
    PROVE  Sound(c, env, flags, Failed) /\ ~Failed.ok
  BY DEF Sound, Failed, LastWord, Both, NoBot

LEMMA ResolvedIsSound ==
    ASSUME NEW c, NEW env, NEW flags
    PROVE  LET r == Resolved(c, env, flags) IN
           /\ Sound(c, env, flags, r)
           /\ ~r.multi /\ ~r.byChat
           /\ r.ok => ValidFile(c) /\ ~Both(env)
           /\ r.ok => r = [ok |-> TRUE, multi |-> FALSE, byChat |-> FALSE,
                           name |-> r.name, bot |-> r.bot]
<1> DEFINE n == BotName(c, flags)
           base == IF n = None THEN NoBot ELSE c.bots[n]
           b == Layer(ApplyEnv(base, env, FALSE), flags)
           r == Resolved(c, env, flags)
<1>1. CASE ~ValidFile(c) \/ Both(env)
  BY <1>1, FailedIsSound DEF Resolved, Failed
<1>2. CASE ValidFile(c) /\ ~Both(env) /\ n = None
  <2>1. r = Loaded(None, b)  BY <1>2 DEF Resolved
  <2>2. ~Both(base)  BY <1>2 DEF Both, NoBot
  <2> HIDE DEF b, base, n, r
  <2>3. LastWord(env, flags, Loaded(None, b)) /\ ~Both(Loaded(None, b).bot)
    BY <1>2, <2>2, LayersKeepOne, LayeredHasLastWord, Zenon DEF b
  <2> QED  BY <1>2, <2>1, <2>3 DEF Sound, Loaded, r
<1>3. CASE ValidFile(c) /\ ~Both(env) /\ n # None /\ n \notin DOMAIN c.bots
  BY <1>3, FailedIsSound DEF Resolved, Failed
<1>4. CASE ValidFile(c) /\ ~Both(env) /\ n # None /\ n \in DOMAIN c.bots
  <2>1. r = Loaded(IF StillNamed(c, n, b) THEN n ELSE None, b)  BY <1>4 DEF Resolved
  <2>2. base = c.bots[n] /\ ~Both(base)  BY <1>4 DEF ValidFile, Both
  <2> HIDE DEF b, base, n, r
  <2> DEFINE l == Loaded(IF StillNamed(c, n, b) THEN n ELSE None, b)
  <2>3. LastWord(env, flags, l) /\ ~Both(l.bot)
    BY <1>4, <2>2, LayersKeepOne, LayeredHasLastWord, Zenon DEF b
  <2>4. ASSUME l.name # None
        PROVE  LET named == c.bots[l.name] IN
               /\ l.bot.host = named.host /\ l.bot.id = named.id
               /\ named.secret # None \/ named.token # None =>
                      l.bot.secret = named.secret /\ l.bot.token = named.token
    <3>1. l.name = n /\ StillNamed(c, n, b) /\ l.bot = b  BY <2>4 DEF Loaded
    <3>2. /\ base.secret # None /\ base.secret = b.secret => b.token = base.token
          /\ base.token # None /\ base.token = b.token => b.secret = base.secret
      <4>1. Layered(base, env, flags, b)  BY <1>4, <2>2, LayersKeepOne, Zenon DEF b
      <4> QED  BY <4>1, Zenon DEF Layered
    <3> QED  BY <2>2, <3>1, <3>2 DEF StillNamed
  <2> QED  BY <1>4, <2>1, <2>3, <2>4 DEF Sound, Loaded, r
<1> QED  BY <1>1, <1>2, <1>3, <1>4

LEMMA CompleteIsSound ==
    ASSUME NEW c, NEW env, NEW flags, NEW l, Sound(c, env, flags, l)
    PROVE  /\ Sound(c, env, flags, Complete(l))
           /\ Complete(l).ok => HasCredentials(Complete(l).bot)
           /\ Complete(l).ok => Complete(l) = l /\ l.ok
  BY FailedIsSound DEF Complete

LEMMA ServedIsSound ==
    ASSUME NEW c, NEW env, NEW flags
    PROVE  LET l == LoadForServe(c, env, flags) IN
           /\ Sound(c, env, flags, l)
           /\ l.ok /\ ~l.multi => HasCredentials(l.bot)
           /\ l.ok => (l.multi <=> Several(c, flags) /\ ~HasCredentials(l.bot))
<1> DEFINE r == Resolved(c, env, flags)
           l == LoadForServe(c, env, flags)
<1>1. /\ Sound(c, env, flags, r) /\ ~r.multi
      /\ r.ok => r = [ok |-> TRUE, multi |-> FALSE, byChat |-> FALSE,
                      name |-> r.name, bot |-> r.bot]
  BY ResolvedIsSound, Zenon
<1> HIDE DEF r
<1>2. CASE r.ok /\ Several(c, flags) /\ ~HasCredentials(r.bot)
  <2>1. l = [r EXCEPT !.multi = TRUE]  BY <1>2 DEF LoadForServe, r
  <2>2. /\ l.ok = r.ok /\ l.name = r.name /\ l.bot = r.bot /\ l.byChat = r.byChat
        /\ l.multi
    BY <1>1, <1>2, <2>1
  <2> HIDE DEF l
  <2>3. Sound(c, env, flags, l)
    <3>1. LastWord(env, flags, r) => LastWord(env, flags, l)  BY <2>2 DEF LastWord
    <3> QED  BY <1>1, <2>2, <3>1 DEF Sound
  <2> QED  BY <1>2, <2>2, <2>3 DEF l
<1>3. CASE ~(r.ok /\ Several(c, flags) /\ ~HasCredentials(r.bot))
  <2>1. l = Complete(r)  BY <1>3 DEF LoadForServe, r
  <2>2. /\ Sound(c, env, flags, Complete(r))
        /\ Complete(r).ok => HasCredentials(Complete(r).bot)
        /\ Complete(r).ok => Complete(r) = r
    BY <1>1, CompleteIsSound, Zenon
  <2> HIDE DEF l
  <2>3. l.ok => ~l.multi  BY <1>1, <2>1, <2>2
  <2> QED  BY <2>1, <2>2, <2>3 DEF l
<1> QED  BY <1>2, <1>3

LEMMA BoundIsSound ==
    ASSUME NEW c, NEW env, NEW flags
    PROVE  LET l == Load(c, env, flags) IN
           Sound(c, env, flags, l) /\ (l.ok => HasCredentials(l.bot))
<1> DEFINE r == Resolved(c, env, flags)
           n == ChatBot(c, flags)
           l == Load(c, env, flags)
           own == [Loaded(n, Sole(BotsNamed(c, n))) EXCEPT !.byChat = TRUE]
<1>1. Sound(c, env, flags, r) /\ (r.ok => ValidFile(c))  BY ResolvedIsSound, Zenon
<1> HIDE DEF r
<1>2. CASE r.ok /\ Several(c, flags) /\ ~HasCredentials(r.bot) /\ BotsNamed(c, n) # {}
  <2>1. l = Complete(own)  BY <1>2 DEF Load, r
  <2>2. n \in DOMAIN c.bots /\ BotsNamed(c, n) = {c.bots[n]}  BY <1>2 DEF BotsNamed
  <2>3. Sole(BotsNamed(c, n)) = c.bots[n]  BY <2>2 DEF Sole
  <2> HIDE DEF n
  <2>4. own.ok /\ own.byChat /\ own.name = n /\ own.bot = c.bots[n]
    BY <2>3 DEF Loaded
  <2> HIDE DEF own, l
  <2>5. ~Both(c.bots[n])  BY <1>1, <1>2, <2>2 DEF ValidFile, Both
  <2>6. Sound(c, env, flags, own)  BY <2>4, <2>5 DEF Sound, LastWord
  <2>7. /\ Sound(c, env, flags, Complete(own))
        /\ Complete(own).ok => HasCredentials(Complete(own).bot)
    BY <2>6, CompleteIsSound, Zenon
  <2> QED  BY <2>1, <2>7 DEF l
<1>3. CASE r.ok /\ Several(c, flags) /\ ~HasCredentials(r.bot) /\ BotsNamed(c, n) = {}
  <2>1. l = Failed  BY <1>3 DEF Load, r
  <2> QED  BY <2>1, FailedIsSound
<1>4. CASE ~(r.ok /\ Several(c, flags) /\ ~HasCredentials(r.bot))
  <2>1. l = Complete(r)  BY <1>4 DEF Load, r
  <2>2. /\ Sound(c, env, flags, Complete(r))
        /\ Complete(r).ok => HasCredentials(Complete(r).bot)
    BY <1>1, CompleteIsSound, Zenon
  <2> HIDE DEF l
  <2> QED  BY <2>1, <2>2 DEF l
<1> QED  BY <1>2, <1>3, <1>4

LEMMA BaseHasLastWord ==
    ASSUME NEW c, NEW env, NEW flags
    PROVE  LET l == LoadBase(c, env, flags) IN
           LastWord(env, flags, l) /\ (l.ok => l.bot.id = Or(flags.id, env.id))
<1> DEFINE b == Layer(ApplyEnv(NoBot, env, FALSE), flags)
<1>1. CASE ~ValidFile(c) \/ Both(env)
  <2>1. LoadBase(c, env, flags) = Failed  BY <1>1 DEF LoadBase
  <2> QED  BY <2>1, FailedIsSound DEF Sound
<1>2. CASE ValidFile(c) /\ ~Both(env)
  <2>1. LoadBase(c, env, flags) = Loaded(None, b)  BY <1>2 DEF LoadBase
  <2>2. ~Both(NoBot)  BY DEF Both, NoBot
  <2> HIDE DEF b
  <2>3. Layered(NoBot, env, flags, b)  BY <1>2, <2>2, LayersKeepOne, Zenon DEF b
  <2>4. LastWord(env, flags, Loaded(None, b))
    BY <2>3, LayeredHasLastWord, Zenon
  <2>5. Loaded(None, b).bot.id = Or(flags.id, env.id)
    BY <2>3 DEF Layered, Loaded, NoBot, Or
  <2> QED  BY <2>1, <2>4, <2>5
<1> QED  BY <1>1, <1>2

(* What every kind of command loads, but the one with a header of the      *)
(* user's own.                                                             *)
LEMMA CommandIsCoherent ==
    ASSUME NEW c, IsCommand(c), c.kind # "manual"
    PROVE  /\ c.kind \notin {"enqueue", "producer", "worker"} =>
                  Coherent(c.config, LoadCommand(c))
           /\ LastWord(c.env, c.flags, LoadCommand(c))
<1>0. CASE c.kind \in RefusesBoth /\ Both(c.flags)
  <2>1. LoadCommand(c) = Failed  BY <1>0 DEF LoadCommand
  <2> QED  BY <2>1, FailedIsSound, SoundIsCoherent, Zenon
<1> SUFFICES ASSUME ~(c.kind \in RefusesBoth /\ Both(c.flags))
             PROVE  /\ c.kind \notin {"enqueue", "producer", "worker"} =>
                           Coherent(c.config, LoadCommand(c))
                    /\ LastWord(c.env, c.flags, LoadCommand(c))
  BY <1>0
<1>1. CASE c.kind \in {"send", "serve"}
  <2>1. LoadCommand(c) = LoadForServe(c.config, c.env, c.flags)
    BY <1>1 DEF LoadCommand
  <2> QED  BY <2>1, ServedIsSound, SoundIsCoherent, Zenon
<1>2. CASE c.kind = "user"
  <2>1. LoadCommand(c) = Load(c.config, c.env, c.flags)  BY <1>2 DEF LoadCommand
  <2> QED  BY <2>1, BoundIsSound, SoundIsCoherent, Zenon
<1>3. CASE c.kind = "api"
  <2>1. LoadCommand(c) = Complete(Resolved(c.config, c.env, c.flags))
    BY <1>3 DEF LoadCommand, LoadForAPI
  <2>2. Sound(c.config, c.env, c.flags, Resolved(c.config, c.env, c.flags))
    BY ResolvedIsSound, Zenon
  <2> DEFINE r == Resolved(c.config, c.env, c.flags)
  <2>3. /\ Sound(c.config, c.env, c.flags, Complete(r))
        /\ Complete(r).ok => HasCredentials(Complete(r).bot)
    BY <2>2, CompleteIsSound, Zenon
  <2>4. Coherent(c.config, Complete(r)) /\ LastWord(c.env, c.flags, Complete(r))
    BY <2>3, SoundIsCoherent, Zenon
  <2> QED  BY <2>1, <2>4, Zenon
<1>4. CASE c.kind \in {"enqueue", "producer"}
  <2>1. LoadCommand(c) = LoadBase(c.config, c.env, c.flags)
    BY <1>4 DEF LoadCommand, LoadForEnqueue
  <2>2. LastWord(c.env, c.flags, LoadBase(c.config, c.env, c.flags))
    BY BaseHasLastWord, Zenon
  <2> QED  BY <1>4, <2>1, <2>2
<1>5. CASE c.kind = "worker"
  <2>1. \/ LoadCommand(c) = LoadBase(c.config, c.env, c.flags)
        \/ LoadCommand(c) = Failed
    BY <1>5 DEF LoadCommand, LoadForWorker
  <2>2. LastWord(c.env, c.flags, Failed)  BY FailedIsSound DEF Sound
  <2>3. LastWord(c.env, c.flags, LoadBase(c.config, c.env, c.flags))
    BY BaseHasLastWord, Zenon
  <2> QED  BY <1>5, <2>1, <2>2, <2>3
<1>6. c.kind \in {"send", "serve", "enqueue", "producer", "user", "api", "worker"}
  BY DEF IsCommand
<1> QED  BY <1>1, <1>2, <1>3, <1>4, <1>5, <1>6, Zenon

(* The targets have no part in what "send" and "enqueue" load.             *)
SameButTargets(c, d) ==
    /\ c.kind \in {"send", "enqueue"}
    /\ d.kind = c.kind /\ d.config = c.config /\ d.env = c.env
    /\ \A k \in {"host", "id", "secret", "token", "bot"} : d.flags[k] = c.flags[k]

LEMMA LoadsTheSame ==
    ASSUME NEW c, NEW d, SameButTargets(c, d)
    PROVE  LoadCommand(d) = LoadCommand(c)
<1> USE DEF SameButTargets
<1>1. /\ d.flags.host = c.flags.host /\ d.flags.id = c.flags.id
      /\ d.flags.secret = c.flags.secret /\ d.flags.token = c.flags.token
      /\ d.flags.bot = c.flags.bot
  OBVIOUS
<1>2. \A b : Layer(b, d.flags) = Layer(b, c.flags)  BY <1>1 DEF Layer
<1>3. Both(d.flags) <=> Both(c.flags)  BY <1>1 DEF Both
<1>4. BotName(c.config, d.flags) = BotName(c.config, c.flags)  BY <1>1 DEF BotName
<1>5. Several(c.config, d.flags) <=> Several(c.config, c.flags)  BY <1>1 DEF Several
<1>6. Resolved(c.config, c.env, d.flags) = Resolved(c.config, c.env, c.flags)
  BY <1>2, <1>3, <1>4, Zenon DEF Resolved
<1>7. LoadBase(c.config, c.env, d.flags) = LoadBase(c.config, c.env, c.flags)
  BY <1>2, <1>3, Zenon DEF LoadBase
<1>8. LoadForServe(c.config, c.env, d.flags) = LoadForServe(c.config, c.env, c.flags)
  BY <1>5, <1>6, Zenon DEF LoadForServe
<1>9. CASE c.kind = "send"
  <2>0. CASE Both(c.flags)
    <3>1. LoadCommand(d) = Failed /\ LoadCommand(c) = Failed
      BY <1>3, <1>9, <2>0 DEF LoadCommand, RefusesBoth
    <3> QED  BY <3>1
  <2> SUFFICES ASSUME ~Both(c.flags)  PROVE LoadCommand(d) = LoadCommand(c)
    BY <2>0
  <2>1. /\ LoadCommand(d) = LoadForServe(c.config, c.env, d.flags)
        /\ LoadCommand(c) = LoadForServe(c.config, c.env, c.flags)
    BY <1>3, <1>9 DEF LoadCommand
  <2> QED  BY <1>8, <2>1
<1>10. CASE c.kind = "enqueue"
  <2>1. /\ LoadCommand(d) = LoadBase(c.config, c.env, d.flags)
        /\ LoadCommand(c) = LoadBase(c.config, c.env, c.flags)
    BY <1>10 DEF LoadCommand, LoadForEnqueue, RefusesBoth
  <2> QED  BY <1>7, <2>1
<1> QED  BY <1>9, <1>10

-----------------------------------------------------------------------------
(* The targets of a run                                                    *)

(* A list in which nothing is twice.                                       *)
NoneTwice(s) ==
    /\ s \in Seq(Range(s))
    /\ \A k, l \in DOMAIN s : k # l => s[k] # s[l]

LEMMA ListPlaces ==
    ASSUME NEW s, s \in Seq(Range(s))
    PROVE  /\ Len(s) \in Nat /\ DOMAIN s = 1..Len(s)
           /\ \A k \in DOMAIN s : s[k] \in Range(s)
           /\ \A x : x \in Range(s) <=> \E k \in DOMAIN s : s[k] = x
  BY DEF Range

LEMMA AtList ==
    ASSUME NEW s, s \in Seq(Range(s)), NEW S \in SUBSET DOMAIN s,
           \A k, l \in S : k # l => s[k] # s[l]
    PROVE  /\ NoneTwice(At(s, S))
           /\ \A x \in Range(At(s, S)) : \E k \in S : s[k] = x
<1> DEFINE a == At(s, S)
<1>1. Len(s) \in Nat /\ S \in SUBSET (1..Len(s))  BY ListPlaces
<1>2. /\ DOMAIN a = 1..Cardinality(S) /\ Cardinality(S) \in Nat
      /\ \A T : (\A k \in S : s[k] \in T) => a \in Seq(T)
      /\ \A n \in DOMAIN a : \E k \in S : a[n] = s[k]
      /\ \A m, n \in DOMAIN a : m # n => a[m] # a[n]
  <2>1. Kept(s, S, a)  BY <1>1, AtEntries, Zenon
  <2> QED  BY <2>1 DEF Kept
<1> HIDE DEF a
<1>3. a \in Seq(Range(a))
  <2>1. a \in Seq(Range(s))  BY <1>2, ListPlaces
  <2>2. a \in [1..Cardinality(S) -> Range(a)]  BY <1>2, <2>1 DEF Range
  <2> QED  BY <1>2, <2>2
<1>4. \A x \in Range(a) : \E k \in S : s[k] = x  BY <1>2 DEF Range
<1> QED  BY <1>2, <1>3, <1>4 DEF NoneTwice, a

LEMMA DistinctList ==
    ASSUME NEW s, s \in Seq(Range(s))
    PROVE  NoneTwice(Distinct(s)) /\ Range(Distinct(s)) \subseteq Range(s)
<1> DEFINE S == {k \in DOMAIN s : \A l \in 1..(k-1) : s[l] # s[k]}
<1>1. S \in SUBSET DOMAIN s  OBVIOUS
<1>2. ASSUME NEW k \in S, NEW l \in S, k # l PROVE s[k] # s[l]
  <2>1. k \in Nat /\ l \in Nat /\ 1 <= k /\ 1 <= l  BY ListPlaces
  <2>2. CASE k < l
    <3>1. k \in 1..(l-1)  BY <2>1, <2>2
    <3> QED  BY <3>1
  <2>3. CASE l < k
    <3>1. l \in 1..(k-1)  BY <2>1, <2>3
    <3> QED  BY <3>1
  <2> QED  BY <1>2, <2>1, <2>2, <2>3
<1>3. Distinct(s) = At(s, S)  BY DEF Distinct
<1> HIDE DEF S
<1>4. /\ NoneTwice(At(s, S))
      /\ \A x \in Range(At(s, S)) : \E k \in S : s[k] = x
  BY <1>1, <1>2, AtList, Zenon
<1> QED  BY <1>1, <1>3, <1>4, ListPlaces

LEMMA TargetsList ==
    ASSUME NEW c, IsCommand(c)
    PROVE  /\ NoneTwice(TargetsOf(c))
           /\ c.flags.chats # <<>> => Range(TargetsOf(c)) \subseteq Range(c.flags.chats)
<1>1. c.flags.chats \in Seq(Range(c.flags.chats))  BY DEF IsCommand
<1>2. CASE c.flags.chats # <<>>
  <2>1. TargetsOf(c) = Distinct(c.flags.chats)  BY <1>2 DEF TargetsOf
  <2> QED  BY <1>1, <2>1, DistinctList
<1>3. CASE c.flags.chats = <<>>
  <2>1. \A x : NoneTwice(<<x>>)  BY DEF NoneTwice, Range
  <2>2. NoneTwice(<<>>)  BY DEF NoneTwice, Range
  <2>3. TargetsOf(c) = <<>> \/ \E x : TargetsOf(c) = <<x>>
    BY <1>3, Zenon DEF TargetsOf, DefaultTargets
  <2> QED  BY <1>3, <2>1, <2>2, <2>3
<1> QED  BY <1>2, <1>3

(* Not reported, or reported as failed.                                    *)
Open(t) == t \in Range(targets) /\ (t \notin DOMAIN outcome \/ outcome[t] = "error")

LEMMA RepeatedAreOpen ==
    ASSUME NoneTwice(targets)
    PROVE  NoneTwice(ToRepeat) /\ \A t \in Range(ToRepeat) : Open(t)
<1>1. CASE outcome = <<>>
  BY <1>1 DEF ToRepeat, Open
<1>2. CASE outcome # <<>>
  <2> DEFINE S == {k \in DOMAIN targets : outcome[targets[k]] = "error"}
  <2>1. ToRepeat = At(targets, S)  BY <1>2 DEF ToRepeat
  <2>2. S \in SUBSET DOMAIN targets  OBVIOUS
  <2>3. \A t : (\E k \in S : targets[k] = t) => Open(t)
    BY ListPlaces DEF NoneTwice, Open
  <2>4. \A k, l \in S : k # l => targets[k] # targets[l]  BY DEF NoneTwice
  <2> HIDE DEF S
  <2>5. /\ NoneTwice(At(targets, S))
        /\ \A x \in Range(At(targets, S)) : \E k \in S : targets[k] = x
    BY <2>2, <2>4, AtList, Zenon DEF NoneTwice
  <2> QED  BY <2>1, <2>3, <2>5, Zenon
<1> QED  BY <1>1, <1>2

-----------------------------------------------------------------------------
(* The configuration through the runs                                      *)

Sends    == pc \in {"send", "again"}
Enqueues == pc \in {"enqueue", "publish"}

(* What is loaded is what the command loads, in this run and, for the      *)
(* commands that are run again, in the one before; and each command goes   *)
(* through its own steps.                                                  *)
LoadInv ==
    /\ IsCommand(cmd)
    /\ pc = "load" \/ pc = "exit" \/ Sends \/ Enqueues
    /\ pc # "load" => cfg = LoadCommand(cmd) /\ targets = TargetsOf(cmd)
    /\ cmd.kind \in {"send", "enqueue"} => cfg = LoadCommand(cmd) \/ delivered = <<>>
    /\ Sends => cmd.kind = "send" /\ cfg.ok
    /\ Enqueues => cmd.kind = "enqueue" /\ cfg.ok

(* Every step but the first and the last of a run.                         *)
Work ==
    \/ Unresolved \/ Authenticate \/ AuthenticateFails
    \/ SendOK \/ Refresh \/ SendFails \/ SendUnanswered
    \/ Resolve \/ Abandon
    \/ PublishOK \/ PublishFails \/ PublishUnanswered \/ PublishDropped
    \/ ReplaceFile

LEMMA NextCases == Next <=> Start \/ RunAgain \/ Work
  BY DEF Next, Work

LEMMA WorkFrame ==
    ASSUME Work
    PROVE  /\ cmd' = cmd /\ cfg' = cfg /\ targets' = targets
           /\ pc # "load" /\ pc # "exit"
           /\ \/ Sends /\ (Sends \/ pc = "exit")'
              \/ Enqueues /\ (Enqueues \/ pc = "exit")'
<1> USE DEF Sends, Enqueues
<1>1. CASE Unresolved  BY <1>1 DEF Unresolved, Reported
<1>2. CASE Authenticate  BY <1>2 DEF Authenticate, Sending
<1>3. CASE AuthenticateFails  BY <1>3 DEF AuthenticateFails, Sending, Reported
<1>4. CASE SendOK  BY <1>4 DEF SendOK, Sending, Reported
<1>5. CASE Refresh  BY <1>5 DEF Refresh, Sending
<1>6. CASE SendFails  BY <1>6 DEF SendFails, Sending, Reported
<1>7. CASE SendUnanswered  BY <1>7 DEF SendUnanswered, Sending, Reported
<1>8. CASE Resolve  BY <1>8 DEF Resolve
<1>9. CASE Abandon  BY <1>9 DEF Abandon
<1>10. CASE PublishOK  BY <1>10 DEF PublishOK, Publishing, Reported
<1>11. CASE PublishFails  BY <1>11 DEF PublishFails, Publishing, Reported
<1>12. CASE PublishUnanswered  BY <1>12 DEF PublishUnanswered, Publishing, Reported
<1>13. CASE PublishDropped  BY <1>13 DEF PublishDropped, Publishing, Reported
<1>14. CASE ReplaceFile  BY <1>14 DEF ReplaceFile
<1> QED
  BY <1>1, <1>2, <1>3, <1>4, <1>5, <1>6, <1>7, <1>8, <1>9, <1>10, <1>11, <1>12,
     <1>13, <1>14 DEF Work

(* Running a command again changes its targets and nothing else of it.     *)
LEMMA AgainFrame ==
    ASSUME LoadInv, RunAgain
    PROVE  /\ IsCommand(cmd')
           /\ SameButTargets(cmd, cmd')
           /\ cmd'.flags.chats = ToRepeat /\ ToRepeat # <<>>
           /\ LoadCommand(cmd') = LoadCommand(cmd)
           /\ cmd.kind \in {"send", "enqueue"}
<1>1. IsCommand(cmd) /\ targets = TargetsOf(cmd)  BY DEF LoadInv, RunAgain
<1>2. ToRepeat \in Seq(Range(ToRepeat))
  <2>1. NoneTwice(targets)  BY <1>1, TargetsList
  <2> QED  BY <2>1, RepeatedAreOpen DEF NoneTwice
<1>3. cmd' = [cmd EXCEPT !.flags.chats = ToRepeat] /\ ToRepeat # <<>>
      /\ cmd.kind \in {"send", "enqueue"}
  BY DEF RunAgain
<1>4. /\ cmd'.kind = cmd.kind /\ cmd'.mode = cmd.mode /\ cmd'.config = cmd.config
      /\ cmd'.env = cmd.env /\ cmd'.flags = [cmd.flags EXCEPT !.chats = ToRepeat]
      /\ cmd' = [kind |-> cmd.kind, mode |-> cmd.mode, config |-> cmd.config,
                 env |-> cmd.env, flags |-> cmd'.flags]
  BY <1>1, <1>3 DEF IsCommand
<1>5. LET f == cmd'.flags IN
      /\ f.host = cmd.flags.host /\ f.id = cmd.flags.id /\ f.secret = cmd.flags.secret
      /\ f.token = cmd.flags.token /\ f.bot = cmd.flags.bot /\ f.chats = ToRepeat
      /\ f = [host |-> f.host, id |-> f.id, secret |-> f.secret,
              token |-> f.token, bot |-> f.bot, chats |-> f.chats]
  BY <1>1, <1>4 DEF IsCommand
<1>6. IsCommand(cmd')
  <2>1. cmd'.kind \in {"send", "serve", "enqueue", "user", "api", "manual", "worker"}
    BY <1>3, <1>4
  <2> QED  BY <1>2, <1>4, <1>5, <2>1 DEF IsCommand
<1>7. SameButTargets(cmd, cmd')  BY <1>3, <1>4, <1>5 DEF SameButTargets
<1>8. LoadCommand(cmd') = LoadCommand(cmd)  BY <1>7, LoadsTheSame
<1> QED  BY <1>3, <1>4, <1>5, <1>6, <1>7, <1>8

LEMMA LoadInit == Init => LoadInv
  BY CliAssumption DEF Init, LoadInv, Sends, Enqueues

LEMMA LoadNext == LoadInv /\ [Next]_vars => LoadInv'
<1> SUFFICES ASSUME LoadInv, [Next]_vars PROVE LoadInv'  OBVIOUS
<1>1. CASE Start
  <2>1. /\ cmd' = cmd /\ cfg' = LoadCommand(cmd) /\ targets' = TargetsOf(cmd)
        /\ pc' = "exit" \/ (cfg'.ok /\ pc' = cmd.kind /\ cmd.kind \in {"send", "enqueue"})
    BY <1>1 DEF Start
  <2> HIDE DEF LoadCommand, TargetsOf
  <2> QED  BY <2>1 DEF LoadInv, Sends, Enqueues
<1>2. CASE RunAgain
  <2>1. pc' = "load" /\ cfg' = cfg /\ cfg = LoadCommand(cmd)
    BY <1>2 DEF RunAgain, LoadInv
  <2>2. IsCommand(cmd') /\ LoadCommand(cmd') = LoadCommand(cmd)  BY <1>2, AgainFrame
  <2> QED  BY <2>1, <2>2 DEF LoadInv, Sends, Enqueues
<1>3. CASE Work
  <2>1. /\ cmd' = cmd /\ cfg' = cfg /\ targets' = targets
        /\ pc # "load" /\ pc # "exit"
        /\ \/ Sends /\ (Sends \/ pc = "exit")'
           \/ Enqueues /\ (Enqueues \/ pc = "exit")'
    BY <1>3, WorkFrame
  <2>2. cfg = LoadCommand(cmd) /\ targets = TargetsOf(cmd)  BY <2>1 DEF LoadInv
  <2> QED  BY <2>1, <2>2 DEF LoadInv, Sends, Enqueues
<1>4. CASE UNCHANGED vars
  BY <1>4 DEF LoadInv, vars, Sends, Enqueues
<1> QED  BY <1>1, <1>2, <1>3, <1>4, NextCases

LEMMA Loads == Spec => []LoadInv
  BY LoadInit, LoadNext, PTL DEF Spec

(* Whatever the file, the environment and the flags say, a command that    *)
(* goes on has the bot they say (config.go, resolveBot, applyEnv,          *)
(* applyFlags, clearStaleBotName and the loaders).                         *)
THEOREM LoadedCoherently == Spec => []LoadedIsCoherent
<1>1. LoadInv => LoadedIsCoherent
  BY CommandIsCoherent DEF LoadInv, LoadedIsCoherent
<1> QED  BY <1>1, Loads, PTL

-----------------------------------------------------------------------------
(* The targets one by one                                                  *)

(* A target of "send" or of the second phase of "enqueue" is reported, and *)
(* its message is delivered, delivered without an answer, or neither.      *)
Put ==
    \/ Sending /\ HasExec /\ Post
    \/ Publishing /\ Store

Answered(r) ==
    /\ Sends \/ pc = "publish"
    /\ Reported(r)
    /\ UNCHANGED <<cmd, cfg, targets, file, execs, pending>>
    /\ \/ UNCHANGED <<delivered, lost>>
       \/ r = "ok" /\ Put /\ lost' = lost
       \/ r = "error" /\ Put /\ lost' = Append(lost, Target)

LEMMA WorkCases ==
    ASSUME Work
    PROVE  \/ \E r \in {"ok", "error"} : Answered(r)
           \/ Authenticate \/ Refresh \/ Resolve \/ Abandon \/ ReplaceFile
<1> SUFFICES ASSUME ~(Authenticate \/ Refresh \/ Resolve \/ Abandon \/ ReplaceFile)
             PROVE  Answered("ok") \/ Answered("error")
  OBVIOUS
<1> USE DEF Answered, Put, Sends
<1>1. CASE Unresolved  BY <1>1 DEF Unresolved
<1>2. CASE AuthenticateFails  BY <1>2 DEF AuthenticateFails, Sending
<1>3. CASE SendOK  BY <1>3 DEF SendOK, Sending
<1>4. CASE SendFails  BY <1>4 DEF SendFails, Sending
<1>5. CASE SendUnanswered  BY <1>5 DEF SendUnanswered, Sending
<1>6. CASE PublishOK  BY <1>6 DEF PublishOK, Publishing
<1>7. CASE PublishFails  BY <1>7 DEF PublishFails, Publishing
<1>8. CASE PublishUnanswered  BY <1>8 DEF PublishUnanswered, Publishing
<1>9. CASE PublishDropped  BY <1>9 DEF PublishDropped, Publishing
<1> QED  BY <1>1, <1>2, <1>3, <1>4, <1>5, <1>6, <1>7, <1>8, <1>9 DEF Work

(* As many targets are reported as the loop has passed, and those.         *)
Counted ==
    /\ IsFiniteSet(DOMAIN outcome)
    /\ Cardinality(DOMAIN outcome) \in Nat
    /\ Cardinality(DOMAIN outcome) < Len(targets)
    /\ \A t : t \in DOMAIN outcome
                  <=> \E k \in 1..Cardinality(DOMAIN outcome) : targets[k] = t

IsList(s) == s \in Seq(Range(s))

(* The messages resolved are those of the first targets, in order, and all *)
(* are when the first is published.                                        *)
PlaceInv ==
    /\ IsList(delivered) /\ IsList(lost) /\ IsList(pending)
    /\ pc = "load" => outcome = <<>> /\ pending = <<>> /\ execs = <<>>
    /\ pc = "enqueue" => outcome = <<>> /\ Len(pending) < Len(targets)
    /\ pc = "publish" => Len(pending) = Len(targets)
    /\ Enqueues => \A k \in DOMAIN pending : pending[k].target = targets[k]
    /\ Sends \/ pc = "publish" => Counted

LEMMA AppendList ==
    ASSUME NEW s, IsList(s), NEW x
    PROVE  /\ IsList(Append(s, x))
           /\ Range(Append(s, x)) = Range(s) \cup {x}
           /\ Len(s) \in Nat /\ DOMAIN s = 1..Len(s)
           /\ Len(Append(s, x)) = Len(s) + 1
           /\ DOMAIN Append(s, x) = DOMAIN s \cup {Len(s) + 1}
           /\ \A k \in DOMAIN s : Append(s, x)[k] = s[k]
           /\ Append(s, x)[Len(s) + 1] = x
           /\ Len(s) + 1 \notin DOMAIN s
<1> DEFINE T == Range(s) \cup {x}
           a == Append(s, x)
<1>1. s \in Seq(T)  BY DEF IsList, Range
<1>2. /\ a \in Seq(T) /\ Len(s) \in Nat /\ DOMAIN s = 1..Len(s)
      /\ Len(a) = Len(s) + 1 /\ DOMAIN a = 1..Len(a)
      /\ \A k \in 1..Len(s) : a[k] = s[k]
      /\ a[Len(s) + 1] = x
  BY <1>1
<1> HIDE DEF a
<1>3. DOMAIN a = DOMAIN s \cup {Len(s) + 1} /\ Len(s) + 1 \notin DOMAIN s  BY <1>2
<1>4. Range(a) = T  BY <1>2, <1>3 DEF Range
<1>5. IsList(a)  BY <1>2, <1>4 DEF IsList
<1> QED  BY <1>2, <1>3, <1>4, <1>5 DEF a

LEMMA EmptyList == IsList(<<>>) /\ Range(<<>>) = {} /\ DOMAIN <<>> = {} /\ Len(<<>>) = 0
  BY DEF IsList, Range

(* A report is of the next target, and of no other.                        *)
Recorded(t, r) ==
    /\ t \in Range(targets) /\ t \notin DOMAIN outcome
    /\ DOMAIN outcome' = DOMAIN outcome \cup {t}
    /\ \A u \in DOMAIN outcome : outcome'[u] = outcome[u]
    /\ outcome'[t] = r

LEMMA ReportedNext ==
    ASSUME NoneTwice(targets), Counted, NEW r, Reported(r), targets' = targets
    PROVE  Recorded(Target, r) /\ (pc' # "exit" => Counted')
<1> DEFINE n == Cardinality(DOMAIN outcome)
<1>1. n \in Nat /\ n < Len(targets) /\ IsFiniteSet(DOMAIN outcome)  BY DEF Counted
<1>2. /\ Len(targets) \in Nat /\ DOMAIN targets = 1..Len(targets)
      /\ \A k \in DOMAIN targets : targets[k] \in Range(targets)
  BY ListPlaces DEF NoneTwice
<1>3. n + 1 \in DOMAIN targets /\ Target = targets[n + 1]  BY <1>1, <1>2 DEF Target
<1>4. Target \in Range(targets)  BY <1>2, <1>3
<1>5. Target \notin DOMAIN outcome
  <2> SUFFICES ASSUME Target \in DOMAIN outcome PROVE FALSE  OBVIOUS
  <2>1. PICK k \in 1..n : targets[k] = Target  BY DEF Counted
  <2>2. k \in DOMAIN targets /\ k # n + 1  BY <1>1, <1>2
  <2> QED  BY <1>3, <2>1, <2>2 DEF NoneTwice
<1>6. outcome' = [t \in DOMAIN outcome \cup {Target} |->
                     IF t = Target THEN r ELSE outcome[t]]
  BY DEF Reported
<1> HIDE DEF n
<1>7. /\ DOMAIN outcome' = DOMAIN outcome \cup {Target}
      /\ \A t \in DOMAIN outcome : outcome'[t] = outcome[t]
      /\ outcome'[Target] = r
  BY <1>5, <1>6
<1>8. ASSUME pc' # "exit" PROVE Counted'
  <2>1. IsFiniteSet(DOMAIN outcome') /\ Cardinality(DOMAIN outcome') = n + 1
    BY <1>1, <1>5, <1>7, FS_AddElement DEF n
  <2>2. Cardinality(DOMAIN outcome') # Len(targets)  BY <1>8 DEF Reported
  <2>3. n + 1 \in Nat /\ n + 1 < Len(targets)  BY <1>1, <1>2, <2>1, <2>2
  <2>4. ASSUME NEW t
        PROVE  t \in DOMAIN outcome' <=> \E k \in 1..(n + 1) : targets[k] = t
    <3>1. t \in DOMAIN outcome <=> \E k \in 1..n : targets[k] = t  BY DEF Counted, n
    <3>2. \A k : k \in 1..(n + 1) <=> k \in 1..n \/ k = n + 1  BY <1>1
    <3> QED  BY <1>3, <1>7, <3>1, <3>2
  <2> QED  BY <2>1, <2>3, <2>4 DEF Counted
<1> QED  BY <1>4, <1>5, <1>7, <1>8 DEF Recorded

LEMMA FirstCounted ==
    ASSUME NEW s, NEW o, IsList(s), s # <<>>, o = <<>>
    PROVE  /\ IsFiniteSet(DOMAIN o) /\ Cardinality(DOMAIN o) = 0
           /\ 0 < Len(s)
           /\ \A t : t \in DOMAIN o <=> \E k \in 1..0 : s[k] = t
<1>1. DOMAIN o = {}  BY EmptyList
<1>2. IsFiniteSet(DOMAIN o) /\ Cardinality(DOMAIN o) = 0  BY <1>1, FS_EmptySet
<1>3. 0 < Len(s)  BY DEF IsList
<1> QED  BY <1>1, <1>2, <1>3

LEMMA MessageOfTarget ==
    ASSUME NEW t, NEW m \in Message(t)
    PROVE  m.target = t
<1>1. CASE ~NeedsCatalog(t)  BY <1>1 DEF Message
<1>2. CASE NeedsCatalog(t)
  <2> DEFINE b == BotAsked(t, file)
             id == IF ById THEN b ELSE file.bots[b].id
             chat == IF t \in ChatIds THEN t ELSE file.chats[t].id
  <2>1. \E h : m = [target |-> t, chat |-> chat, bot |-> id, host |-> h,
                    rev |-> file.rev]
    BY <1>2, Zenon DEF Message
  <2> HIDE DEF id, chat
  <2> QED  BY <2>1
<1> QED  BY <1>1, <1>2

LEMMA PlaceInit == Init => PlaceInv
  BY EmptyList DEF Init, PlaceInv, Sends, Enqueues

LEMMA TargetsOfRun ==
    ASSUME LoadInv, pc # "load"
    PROVE  NoneTwice(targets)
  BY TargetsList DEF LoadInv

LEMMA StoredIsResolved ==
    ASSUME LoadInv, PlaceInv, pc = "publish"
    PROVE  LET k == Cardinality(DOMAIN outcome) + 1 IN
           /\ k \in DOMAIN pending
           /\ pending[k] \in Range(pending)
           /\ pending[k].target = Target
<1> DEFINE k == Cardinality(DOMAIN outcome) + 1
<1>1. /\ Counted /\ Len(pending) = Len(targets) /\ IsList(pending)
      /\ \A l \in DOMAIN pending : pending[l].target = targets[l]
  BY DEF PlaceInv, Enqueues
<1>2. NoneTwice(targets)  BY TargetsOfRun
<1>3. k \in Nat /\ 1 <= k /\ k <= Len(targets)  BY <1>1, <1>2 DEF Counted, NoneTwice
<1>4. k \in DOMAIN pending  BY <1>1, <1>3 DEF IsList
<1> QED  BY <1>1, <1>4 DEF Target, Range

LEMMA PlaceNext == LoadInv /\ PlaceInv /\ [Next]_vars => PlaceInv'
<1> SUFFICES ASSUME LoadInv, PlaceInv, [Next]_vars PROVE PlaceInv'  OBVIOUS
<1>1. CASE Start
  <2>1. /\ pc = "load" /\ outcome' = outcome /\ pending' = pending
        /\ execs' = execs /\ delivered' = delivered /\ lost' = lost
        /\ targets' = TargetsOf(cmd)
        /\ pc' # "load" /\ pc' # "publish"
        /\ pc' # "exit" => targets' # <<>>
    <3>1. pc' \in {"exit", "send", "enqueue"}  BY <1>1 DEF Start
    <3> QED  BY <1>1, <3>1 DEF Start
  <2>2. outcome = <<>> /\ pending = <<>>  BY <2>1 DEF PlaceInv
  <2>3. IsList(targets')  BY <2>1, TargetsList DEF LoadInv, NoneTwice, IsList
  <2>4. ASSUME pc' # "exit" PROVE Counted' /\ Len(targets') \in Nat /\ 0 < Len(targets')
    <3>1. \A s, o : IsList(s) /\ s # <<>> /\ o = <<>> =>
                       /\ IsFiniteSet(DOMAIN o) /\ Cardinality(DOMAIN o) = 0
                       /\ 0 < Len(s)
                       /\ \A t : t \in DOMAIN o <=> \E k \in 1..0 : s[k] = t
      BY FirstCounted
    <3>2. targets' # <<>>  BY <2>1, <2>4
    <3>3. /\ IsFiniteSet(DOMAIN outcome') /\ Cardinality(DOMAIN outcome') = 0
          /\ 0 < Len(targets')
          /\ \A t : t \in DOMAIN outcome' <=> \E k \in 1..0 : targets'[k] = t
      BY <2>1, <2>2, <2>3, <3>1, <3>2
    <3> QED  BY <2>3, <3>3 DEF Counted, IsList
  <2>5. IsList(delivered') /\ IsList(lost') /\ IsList(pending')
    BY <2>1 DEF PlaceInv
  <2>6. Len(pending') = 0 /\ DOMAIN pending' = {}  BY <2>1, <2>2, EmptyList
  <2>7. Enqueues' => \A k \in DOMAIN pending' : (pending[k].target = targets[k])'
    BY <2>6
  <2> QED  BY <2>1, <2>2, <2>4, <2>5, <2>6, <2>7 DEF PlaceInv, Sends, Enqueues
<1>2. CASE RunAgain
  <2>1. /\ pc' = "load" /\ execs' = <<>> /\ pending' = <<>> /\ outcome' = <<>>
        /\ delivered' = delivered /\ lost' = lost
    BY <1>2 DEF RunAgain
  <2> QED  BY <2>1, EmptyList DEF PlaceInv, Sends, Enqueues
<1>3. ASSUME NEW r \in {"ok", "error"}, Answered(r), Work PROVE PlaceInv'
  <2>1. /\ pending' = pending /\ targets' = targets /\ Reported(r)
        /\ Sends \/ pc = "publish"
        /\ \/ delivered' = delivered
           \/ \E m : delivered' = Append(delivered, m)
        /\ lost' = lost \/ lost' = Append(lost, Target)
    BY <1>3 DEF Answered, Put, Post, Store
  <2>2. Counted /\ pc # "load"  BY <2>1 DEF PlaceInv, Sends
  <2>3. pc' # "exit" => Counted'  BY <2>1, <2>2, TargetsOfRun, ReportedNext
  <2>4. IsList(delivered') /\ IsList(lost')
    <3>1. \A s, x : IsList(s) => IsList(Append(s, x))  BY AppendList
    <3>2. IsList(delivered) /\ IsList(lost)  BY DEF PlaceInv
    <3> QED  BY <2>1, <3>1, <3>2
  <2>5. \/ pc' = "exit"
        \/ pc \in {"send", "again"} /\ pc' = "send"
        \/ pc = "publish" /\ pc' = "publish"
    BY <2>1 DEF Reported, Sends
  <2>6. pc = "publish" => /\ Len(pending) = Len(targets)
                          /\ \A k \in DOMAIN pending : pending[k].target = targets[k]
    BY DEF PlaceInv, Enqueues
  <2>7. Enqueues' => \A k \in DOMAIN pending' : (pending[k].target = targets[k])'
    BY <2>1, <2>5, <2>6 DEF Enqueues
  <2>8. pc' = "publish" => Len(pending') = Len(targets')  BY <2>1, <2>5, <2>6
  <2>9. IsList(pending')  BY <2>1 DEF PlaceInv
  <2> QED  BY <2>3, <2>4, <2>5, <2>7, <2>8, <2>9 DEF PlaceInv, Sends
<1>4. CASE Authenticate
  <2>1. /\ Sends /\ UNCHANGED <<targets, pc, pending, outcome, delivered, lost>>
    BY <1>4 DEF Authenticate, Sending, Sends
  <2>2. pc # "load"  BY <2>1 DEF Sends
  <2> QED  BY <2>1, <2>2 DEF PlaceInv, Sends, Enqueues, Counted
<1>5. CASE Refresh
  <2>1. /\ Sends /\ UNCHANGED <<targets, pending, outcome, delivered, lost>>
        /\ pc' = "again"
    BY <1>5 DEF Refresh, Sending, Sends
  <2> QED  BY <2>1 DEF PlaceInv, Sends, Enqueues, Counted
<1>6. CASE Resolve
  <2>1. /\ pc = "enqueue" /\ UNCHANGED <<targets, outcome, delivered, lost>>
        /\ Routable(ToResolve)
        /\ pc' = IF Len(pending') = Len(targets) THEN "publish" ELSE pc
    BY <1>6 DEF Resolve
  <2>2. PICK m \in Message(ToResolve) : pending' = Append(pending, m)
    BY <1>6 DEF Resolve
  <2>3. m.target = targets[Len(pending) + 1]  BY <2>2, MessageOfTarget DEF ToResolve
  <2>4. /\ IsList(pending) /\ Len(pending) < Len(targets) /\ outcome = <<>>
        /\ \A k \in DOMAIN pending : pending[k].target = targets[k]
    BY <2>1 DEF PlaceInv, Enqueues
  <2>5. /\ IsList(pending') /\ Len(pending) \in Nat /\ Len(pending') = Len(pending) + 1
        /\ DOMAIN pending' = DOMAIN pending \cup {Len(pending) + 1}
        /\ \A k \in DOMAIN pending : pending'[k] = pending[k]
        /\ pending'[Len(pending) + 1] = m
    BY <2>2, <2>4, AppendList
  <2>6. \A k \in DOMAIN pending' : (pending[k].target = targets[k])'
    BY <2>1, <2>3, <2>4, <2>5
  <2>7. Len(targets) \in Nat /\ NoneTwice(targets)
    BY <2>1, TargetsOfRun DEF NoneTwice
  <2>8. IsList(targets) /\ targets # <<>>
    BY <2>4, <2>5, <2>7, EmptyList DEF NoneTwice, IsList
  <2>9. Counted'
    <3>1. /\ IsFiniteSet(DOMAIN outcome) /\ Cardinality(DOMAIN outcome) = 0
          /\ 0 < Len(targets)
          /\ \A t : t \in DOMAIN outcome <=> \E k \in 1..0 : targets[k] = t
      BY <2>4, <2>8, FirstCounted
    <3> QED  BY <2>1, <3>1 DEF Counted
  <2>10. IsList(delivered') /\ IsList(lost')  BY <2>1 DEF PlaceInv
  <2> QED
    BY <2>1, <2>4, <2>5, <2>6, <2>7, <2>9, <2>10 DEF PlaceInv, Sends, Enqueues
<1>7. CASE Abandon
  <2>1. pc' = "exit" /\ UNCHANGED <<pending, delivered, lost>>  BY <1>7 DEF Abandon
  <2> QED  BY <2>1 DEF PlaceInv, Sends, Enqueues
<1>8. CASE ReplaceFile
  <2>1. pc = "enqueue" /\ UNCHANGED <<targets, pc, pending, outcome, delivered, lost>>
    BY <1>8 DEF ReplaceFile
  <2> QED  BY <2>1 DEF PlaceInv, Sends, Enqueues
<1>9. CASE UNCHANGED vars
  BY <1>9 DEF PlaceInv, Sends, Enqueues, Counted, vars
<1> QED  BY <1>1, <1>2, <1>3, <1>4, <1>5, <1>6, <1>7, <1>8, <1>9, NextCases, WorkCases

LEMMA Places == Spec => []PlaceInv
<1>1. LoadInv /\ LoadInv' /\ PlaceInv /\ [Next]_vars => PlaceInv'  BY PlaceNext
<1> QED  BY <1>1, Loads, PlaceInit, PTL DEF Spec

-----------------------------------------------------------------------------
(* No target twice                                                         *)

SentTo(d, t) == Cardinality({k \in DOMAIN d : d[k].target = t})
LostFor(l, t) == Cardinality({k \in DOMAIN l : l[k] = t})

LEMMA CountsAreFinite ==
    ASSUME NEW s, IsList(s), NEW S \in SUBSET DOMAIN s
    PROVE  IsFiniteSet(S) /\ Cardinality(S) \in Nat
<1>1. Len(s) \in Nat /\ DOMAIN s = 1..Len(s)  BY DEF IsList
<1>2. IsFiniteSet(1..Len(s))  BY <1>1, FS_Interval
<1>3. IsFiniteSet(S)  BY <1>1, <1>2, FS_Subset
<1> QED  BY <1>3, FS_CardinalityType

LEMMA SentCount ==
    ASSUME NEW d, IsList(d), NEW m, NEW t
    PROVE  /\ SentTo(d, t) \in Nat
           /\ SentTo(Append(d, m), t)
                  = IF m.target = t THEN SentTo(d, t) + 1 ELSE SentTo(d, t)
<1> DEFINE n == Len(d) + 1
           S == {k \in DOMAIN d : d[k].target = t}
           e == Append(d, m)
<1>1. /\ n \notin DOMAIN d /\ DOMAIN e = DOMAIN d \cup {n} /\ e[n] = m
      /\ \A k \in DOMAIN d : e[k] = d[k]
  BY AppendList
<1>2. IsFiniteSet(S) /\ Cardinality(S) \in Nat  BY CountsAreFinite
<1> HIDE DEF n, e
<1>3. CASE m.target = t
  <2>1. {k \in DOMAIN e : e[k].target = t} = S \cup {n}  BY <1>1, <1>3
  <2>2. n \notin S  BY <1>1
  <2> QED  BY <1>2, <1>3, <2>1, <2>2, FS_AddElement DEF SentTo, e
<1>4. CASE m.target # t
  <2>1. {k \in DOMAIN e : e[k].target = t} = S  BY <1>1, <1>4
  <2> QED  BY <1>2, <1>4, <2>1 DEF SentTo, e
<1> QED  BY <1>3, <1>4

LEMMA LostCount ==
    ASSUME NEW l, IsList(l), NEW u, NEW t
    PROVE  /\ LostFor(l, t) \in Nat
           /\ LostFor(Append(l, u), t)
                  = IF u = t THEN LostFor(l, t) + 1 ELSE LostFor(l, t)
<1> DEFINE n == Len(l) + 1
           S == {k \in DOMAIN l : l[k] = t}
           e == Append(l, u)
<1>1. /\ n \notin DOMAIN l /\ DOMAIN e = DOMAIN l \cup {n} /\ e[n] = u
      /\ \A k \in DOMAIN l : e[k] = l[k]
  BY AppendList
<1>2. IsFiniteSet(S) /\ Cardinality(S) \in Nat  BY CountsAreFinite
<1> HIDE DEF n, e
<1>3. CASE u = t
  <2>1. {k \in DOMAIN e : e[k] = t} = S \cup {n}  BY <1>1, <1>3
  <2>2. n \notin S  BY <1>1
  <2> QED  BY <1>2, <1>3, <2>1, <2>2, FS_AddElement DEF LostFor, e
<1>4. CASE u # t
  <2>1. {k \in DOMAIN e : e[k] = t} = S  BY <1>1, <1>4
  <2> QED  BY <1>2, <1>4, <2>1 DEF LostFor, e
<1> QED  BY <1>3, <1>4

(* A target that this run may still send to.                               *)
Waiting(t) == IF pc = "load" THEN t \in Range(TargetsOf(cmd)) ELSE Open(t)

(* A target that may still be sent to has got nothing but messages whose   *)
(* answers were lost.                                                      *)
OpenInv ==
    \A t : /\ SentTo(delivered, t) <= 1 + LostFor(lost, t)
           /\ Waiting(t) => SentTo(delivered, t) <= LostFor(lost, t)

LEMMA OpenInit == Init => OpenInv
<1> SUFFICES ASSUME Init PROVE OpenInv  OBVIOUS
<1>1. delivered = <<>> /\ lost = <<>>  BY DEF Init
<1>2. \A t : SentTo(<<>>, t) = 0 /\ LostFor(<<>>, t) = 0
  <2>1. DOMAIN <<>> = {} /\ Cardinality({}) = 0  BY EmptyList, FS_EmptySet
  <2>2. \A t : {k \in DOMAIN <<>> : <<>>[k].target = t} = {}  BY <2>1, Zenon
  <2>3. \A t : {k \in DOMAIN <<>> : <<>>[k] = t} = {}  BY <2>1, Zenon
  <2> QED  BY <2>1, <2>2, <2>3, Zenon DEF SentTo, LostFor
<1> QED  BY <1>1, <1>2 DEF OpenInv

LEMMA PutTarget ==
    ASSUME LoadInv, PlaceInv, Put
    PROVE  \E m : delivered' = Append(delivered, m) /\ m.target = Target
<1>1. CASE Post  BY <1>1 DEF Post
<1>2. CASE Publishing /\ Store
  BY <1>2, StoredIsResolved DEF Publishing, Store
<1> QED  BY <1>1, <1>2 DEF Put

LEMMA OpenNext == LoadInv /\ LoadInv' /\ PlaceInv /\ OpenInv /\ [Next]_vars => OpenInv'
<1> SUFFICES ASSUME LoadInv, LoadInv', PlaceInv, OpenInv, [Next]_vars, NEW t
             PROVE  (/\ SentTo(delivered, t) <= 1 + LostFor(lost, t)
                     /\ Waiting(t) => SentTo(delivered, t) <= LostFor(lost, t))'
  BY DEF OpenInv
<1>0. /\ SentTo(delivered, t) \in Nat /\ LostFor(lost, t) \in Nat
      /\ SentTo(delivered, t) <= 1 + LostFor(lost, t)
      /\ Waiting(t) => SentTo(delivered, t) <= LostFor(lost, t)
  BY SentCount, LostCount DEF PlaceInv, OpenInv
<1>1. CASE Start
  <2>1. /\ pc = "load" /\ pc' # "load" /\ targets' = TargetsOf(cmd)
        /\ delivered' = delivered /\ lost' = lost
    <3>1. pc' \in {"exit", "send", "enqueue"}  BY <1>1 DEF Start
    <3> QED  BY <1>1, <3>1 DEF Start
  <2>2. Waiting(t)' => Waiting(t)  BY <2>1 DEF Waiting, Open
  <2> QED  BY <1>0, <2>1, <2>2
<1>2. CASE RunAgain
  <2>1. /\ pc = "exit" /\ pc' = "load" /\ delivered' = delivered /\ lost' = lost
    BY <1>2 DEF RunAgain
  <2>2. IsCommand(cmd') /\ cmd'.flags.chats = ToRepeat /\ ToRepeat # <<>>
    BY <1>2, AgainFrame
  <2>3. Range(TargetsOf(cmd')) \subseteq Range(cmd'.flags.chats)
    BY <2>2, TargetsList
  <2>4. \A u \in Range(ToRepeat) : Open(u)  BY <2>1, TargetsOfRun, RepeatedAreOpen
  <2>5. Waiting(t)' => Waiting(t)  BY <2>1, <2>2, <2>3, <2>4 DEF Waiting
  <2> QED  BY <1>0, <2>1, <2>5
<1>3. ASSUME NEW r \in {"ok", "error"}, Answered(r) PROVE
        (/\ SentTo(delivered, t) <= 1 + LostFor(lost, t)
         /\ Waiting(t) => SentTo(delivered, t) <= LostFor(lost, t))'
  <2>1. /\ targets' = targets /\ Reported(r) /\ (Sends \/ pc = "publish")
        /\ pc # "load" /\ pc' # "load"
    BY <1>3 DEF Answered, Reported, Sends
  <2>2. Recorded(Target, r)
    <3>1. Counted /\ NoneTwice(targets)  BY <2>1, TargetsOfRun DEF PlaceInv
    <3> QED  BY <2>1, <3>1, ReportedNext
  <2>3. Waiting(Target)  BY <2>1, <2>2 DEF Waiting, Open, Recorded
  <2>4. Waiting(t)' => Waiting(t)  BY <2>1, <2>2 DEF Waiting, Open, Recorded
  <2>5. r = "ok" /\ t = Target => ~Waiting(t)'
    BY <2>1, <2>2 DEF Waiting, Open, Recorded
  <2>6. CASE UNCHANGED <<delivered, lost>>  BY <1>0, <2>4, <2>6
  <2>7. CASE r = "ok" /\ Put /\ lost' = lost
    <3>1. PICK m : delivered' = Append(delivered, m) /\ m.target = Target
      BY <2>7, PutTarget
    <3>2. SentTo(delivered', t) = IF m.target = t THEN SentTo(delivered, t) + 1
                                  ELSE SentTo(delivered, t)
      BY <3>1, SentCount DEF PlaceInv
    <3> QED  BY <1>0, <2>3, <2>4, <2>5, <2>7, <3>1, <3>2
  <2>8. CASE r = "error" /\ Put /\ lost' = Append(lost, Target)
    <3>1. PICK m : delivered' = Append(delivered, m) /\ m.target = Target
      BY <2>8, PutTarget
    <3>2. SentTo(delivered', t) = IF m.target = t THEN SentTo(delivered, t) + 1
                                  ELSE SentTo(delivered, t)
      BY <3>1, SentCount DEF PlaceInv
    <3>3. LostFor(lost', t) = IF Target = t THEN LostFor(lost, t) + 1
                              ELSE LostFor(lost, t)
      BY <2>8, LostCount DEF PlaceInv
    <3> QED  BY <1>0, <2>3, <2>4, <3>1, <3>2, <3>3
  <2> QED  BY <1>3, <2>6, <2>7, <2>8 DEF Answered
<1>4. CASE Authenticate \/ Refresh \/ Resolve \/ Abandon \/ ReplaceFile
  <2>1. /\ UNCHANGED <<cmd, targets, outcome, delivered, lost>>
        /\ pc # "load" /\ pc' # "load"
    BY <1>4 DEF Authenticate, Refresh, Resolve, Abandon, ReplaceFile, Sending
  <2>2. Waiting(t)' => Waiting(t)  BY <2>1 DEF Waiting, Open
  <2> QED  BY <1>0, <2>1, <2>2
<1>5. CASE UNCHANGED vars
  <2>1. UNCHANGED <<cmd, targets, outcome, delivered, lost, pc>>  BY <1>5 DEF vars
  <2>2. Waiting(t)' => Waiting(t)  BY <2>1 DEF Waiting, Open
  <2> QED  BY <1>0, <2>1, <2>2
<1> QED  BY <1>1, <1>2, <1>3, <1>4, <1>5, NextCases, WorkCases

(* However often the command is repeated for what it reported as failed,   *)
(* no target gets a second message unless an answer to its first was lost  *)
(* (send.go, sendCmdResult; enqueue.go, the two phases of runEnqueue).     *)
THEOREM SentOnce == Spec => []OnceUnlessLost
<1>1. OpenInv => OnceUnlessLost
  BY DEF OpenInv, OnceUnlessLost, SentTo, LostFor
<1>2. LoadInv /\ LoadInv' /\ PlaceInv /\ PlaceInv' /\ OpenInv /\ [Next]_vars => OpenInv'
  BY OpenNext
<1> QED  BY <1>1, <1>2, Loads, Places, OpenInit, PTL DEF Spec

-----------------------------------------------------------------------------
(* The bot a message is sent by                                            *)

(* What SentByOwnBot says of one message.                                  *)
OwnBot(m) ==
    /\ m.chat = ChatId(cmd.config, m.target)
    /\ IF Several(cmd.config, cmd.flags) /\ ~HasCredentials(cfg.bot)
       THEN /\ m.target \in DOMAIN cmd.config.chats
            /\ BotsNamed(cmd.config, cmd.config.chats[m.target].bot) = {m.bot}
       ELSE m.bot = cfg.bot

(* A client is kept under the name of its bot.                             *)
SendInv ==
    /\ \A n \in DOMAIN execs : execs[n] \in ExecBots(n)
    /\ cmd.kind = "send" => \A m \in Range(delivered) : OwnBot(m)

LEMMA PostedByOwnBot ==
    ASSUME LoadInv, SendInv, Sending, HasExec
    PROVE  OwnBot([target |-> Target, chat |-> ChatId(cmd.config, Target), bot |-> Exec])
<1> DEFINE key == ExecKey(Target)
           m == [target |-> Target, chat |-> ChatId(cmd.config, Target), bot |-> Exec]
<1>1. cmd.kind = "send" /\ cfg.ok /\ cfg = LoadCommand(cmd)
  BY DEF Sending, LoadInv, Sends
<1>2. cfg.multi <=> Several(cmd.config, cmd.flags) /\ ~HasCredentials(cfg.bot)
  <2>1. LoadCommand(cmd) = LoadForServe(cmd.config, cmd.env, cmd.flags)
    BY <1>1 DEF LoadCommand, Failed
  <2> DEFINE l == LoadForServe(cmd.config, cmd.env, cmd.flags)
  <2>2. l.ok => (l.multi <=> Several(cmd.config, cmd.flags) /\ ~HasCredentials(l.bot))
    BY ServedIsSound, Zenon
  <2> HIDE DEF l
  <2>3. cfg = l  BY <1>1, <2>1 DEF l
  <2> QED  BY <1>1, <2>2, <2>3
<1>3. Exec \in ExecBots(key)  BY DEF SendInv, HasExec, Exec
<1>4. CASE cfg.multi
  <2>1. key # None /\ Exec \in BotsNamed(cmd.config, key)  BY <1>3, <1>4 DEF ExecBots
  <2>2. Target \notin ChatIds /\ key = cmd.config.chats[Target].bot
    BY <2>1, <1>4 DEF ExecKey, BotFor
  <2>3. Target \in DOMAIN cmd.config.chats  BY <2>2 DEF Sending, ChatResolves
  <2>4. BotsNamed(cmd.config, key) = {Exec}  BY <2>1 DEF BotsNamed
  <2> HIDE DEF key
  <2> QED  BY <1>2, <1>4, <2>2, <2>3, <2>4 DEF OwnBot
<1>5. CASE ~cfg.multi
  <2>1. Exec = cfg.bot  BY <1>3, <1>5 DEF ExecBots
  <2> QED  BY <1>2, <1>5, <2>1 DEF OwnBot
<1> QED  BY <1>4, <1>5

LEMMA SendInit == Init => SendInv
  BY EmptyList DEF Init, SendInv

LEMMA SendNext ==
    LoadInv /\ LoadInv' /\ PlaceInv /\ PlaceInv' /\ SendInv /\ [Next]_vars => SendInv'
<1> SUFFICES ASSUME LoadInv, LoadInv', PlaceInv, PlaceInv', SendInv, [Next]_vars
             PROVE  SendInv'
  OBVIOUS
<1>1. CASE Start
  <2>1. /\ pc = "load" /\ cmd' = cmd /\ cfg' = LoadCommand(cmd)
        /\ execs' = execs /\ delivered' = delivered
    BY <1>1 DEF Start
  <2>2. DOMAIN execs' = {}  BY <2>1, EmptyList DEF PlaceInv
  <2>3. ASSUME cmd.kind = "send" PROVE \A m \in Range(delivered) : OwnBot(m)'
    <3>1. CASE delivered = <<>>  BY <3>1, EmptyList
    <3>2. CASE cfg' = cfg  BY <2>1, <2>3, <3>2 DEF SendInv, OwnBot
    <3>3. cfg' = cfg \/ delivered = <<>>  BY <2>1, <2>3 DEF LoadInv
    <3> QED  BY <3>1, <3>2, <3>3
  <2> QED  BY <2>1, <2>2, <2>3 DEF SendInv
<1>2. CASE RunAgain
  <2>1. cfg' = cfg /\ execs' = <<>> /\ delivered' = delivered  BY <1>2 DEF RunAgain
  <2>2. /\ cmd'.kind = cmd.kind /\ cmd'.config = cmd.config
        /\ cmd'.flags.bot = cmd.flags.bot
    BY <1>2, AgainFrame DEF SameButTargets
  <2>3. Several(cmd'.config, cmd'.flags) <=> Several(cmd.config, cmd.flags)
    BY <2>2 DEF Several
  <2>4. DOMAIN execs' = {}  BY <2>1, EmptyList
  <2>5. \A m : OwnBot(m) => OwnBot(m)'  BY <2>1, <2>2, <2>3 DEF OwnBot
  <2> QED  BY <2>1, <2>2, <2>4, <2>5 DEF SendInv
<1>3. ASSUME NEW r \in {"ok", "error"}, Answered(r) PROVE SendInv'
  <2>1. UNCHANGED <<cmd, cfg, execs>>  BY <1>3 DEF Answered
  <2>2. \A m : OwnBot(m) => OwnBot(m)'  BY <2>1 DEF OwnBot
  <2>3. \A n \in DOMAIN execs' : (execs[n] \in ExecBots(n))'
    BY <2>1 DEF SendInv, ExecBots
  <2>4. CASE delivered' = delivered  BY <2>1, <2>2, <2>3, <2>4 DEF SendInv
  <2>5. CASE Sending /\ HasExec /\ Post
    <3> DEFINE m == [target |-> Target, chat |-> ChatId(cmd.config, Target), bot |-> Exec]
    <3>1. OwnBot(m)  BY <2>5, PostedByOwnBot
    <3>2. delivered' = Append(delivered, m)  BY <2>5 DEF Post
    <3> HIDE DEF m
    <3>3. Range(delivered') = Range(delivered) \cup {m}
      BY <3>2, AppendList DEF PlaceInv
    <3> QED  BY <2>1, <2>2, <2>3, <3>1, <3>3 DEF SendInv
  <2>6. CASE Publishing
    <3>1. cmd.kind # "send"  BY <2>6 DEF Publishing, LoadInv, Enqueues
    <3> QED  BY <2>1, <2>3, <3>1 DEF SendInv
  <2> QED  BY <1>3, <2>4, <2>5, <2>6 DEF Answered, Put
<1>4. CASE Authenticate
  <2>1. UNCHANGED <<cmd, cfg, delivered>>  BY <1>4 DEF Authenticate
  <2>2. PICK b \in ExecBots(ExecKey(Target)) :
            execs' = [n \in DOMAIN execs \cup {ExecKey(Target)} |->
                         IF n = ExecKey(Target) THEN b ELSE execs[n]]
    BY <1>4 DEF Authenticate
  <2>3. \A n \in DOMAIN execs' : (execs[n] \in ExecBots(n))'
    BY <2>1, <2>2 DEF SendInv, ExecBots
  <2> QED  BY <2>1, <2>3 DEF SendInv, OwnBot
<1>5. CASE Refresh \/ Resolve \/ Abandon \/ ReplaceFile \/ UNCHANGED vars
  <2>1. UNCHANGED <<cmd, cfg, execs, delivered>>
    BY <1>5 DEF Refresh, Resolve, Abandon, ReplaceFile, vars
  <2> QED  BY <2>1 DEF SendInv, OwnBot, ExecBots
<1> QED  BY <1>1, <1>2, <1>3, <1>4, <1>5, NextCases, WorkCases

(* Every message goes to the chat its target names, from the bot the       *)
(* command names, else from the one the chat is bound to, though clients   *)
(* are kept from one chat to the next (send.go, getExec).                  *)
THEOREM SentFromOwnBot == Spec => []SentByOwnBot
<1>1. SendInv => SentByOwnBot  BY DEF SendInv, SentByOwnBot, OwnBot
<1>2. LoadInv /\ LoadInv' /\ PlaceInv /\ PlaceInv' /\ SendInv /\ [Next]_vars => SendInv'
  BY SendNext
<1> QED  BY <1>1, <1>2, Loads, Places, SendInit, PTL DEF Spec

-----------------------------------------------------------------------------
(* The revision a message is routed by                                     *)

(* The first of three that is given.                                       *)
LEMMA FirstGiven ==
    ASSUME NEW u, NEW v, NEW w, Or(Or(u, v), w) # None
    PROVE  LET asked == <<u, v, w>> IN
           asked[CHOOSE k \in 1..3 : asked[k] # None /\ \A l \in 1..(k-1) : asked[l] = None]
              = Or(Or(u, v), w)
<1> DEFINE asked == <<u, v, w>>
           Given(k) == asked[k] # None /\ \A l \in 1..(k-1) : asked[l] = None
           n == IF u # None THEN 1 ELSE IF v # None THEN 2 ELSE 3
<1>1. n \in 1..3 /\ asked[n] = Or(Or(u, v), w)  BY DEF Or
<1>2. \A k \in 1..3 : k = 1 \/ k = 2 \/ k = 3  OBVIOUS
<1>3. 1..(1-1) = {} /\ 1..(2-1) = {1} /\ 1..(3-1) = {1, 2}  OBVIOUS
<1>4. asked[1] = u /\ asked[2] = v /\ asked[3] = w  OBVIOUS
<1> HIDE DEF asked
<1>5. Given(1) <=> u # None  BY <1>3, <1>4
<1>6. Given(2) <=> v # None /\ u = None  BY <1>3, <1>4
<1>7. Given(3) <=> w # None /\ u = None /\ v = None  BY <1>3, <1>4
<1>8. Given(n)  BY <1>5, <1>6, <1>7 DEF Or
<1>9. \A k \in 1..3 : Given(k) => k = n  BY <1>2, <1>5, <1>6, <1>7
<1> HIDE DEF Given, n
<1>10. (CHOOSE k \in 1..3 : Given(k)) = n  BY <1>1, <1>8, <1>9
<1> QED  BY <1>1, <1>10 DEF Given, asked

(* What RoutedByItsRevision says of one message and the snapshot.          *)
RoutedAs(m, s, id, named) ==
    LET chat == IF m.target \in ChatIds THEN [id |-> m.target, bot |-> None]
                ELSE s.chats[m.target]
        asked == <<id, named, chat.bot>>
        first == asked[CHOOSE k \in 1..3 :
                     asked[k] # None /\ \A l \in 1..(k-1) : asked[l] = None]
    IN  /\ s.rev = m.rev
        /\ m.chat = chat.id
        /\ m.bot = IF id \in BotIds THEN id ELSE s.bots[first].id
        /\ m.host # None => m.host \in HostsOf(s, m.bot)

RoutedBy(m, s) == RoutedAs(m, s, Or(cmd.flags.id, cmd.env.id), cmd.flags.bot)

Routed(m) == m.rev # None => \E s \in Snapshots : RoutedBy(m, s)

(* A message keeps the revision it was routed by until it is published.    *)
RouteInv ==
    /\ file \in Snapshots \cup {None}
    /\ cmd.kind = "enqueue" =>
           (\A m \in Range(pending) : Routed(m)) /\ (\A m \in Range(delivered) : Routed(m))

LEMMA MessageIsRouted ==
    ASSUME LoadInv, pc = "enqueue", file \in Snapshots \cup {None},
           NEW t, Routable(t), NEW m \in Message(t)
    PROVE  Routed(m)
<1> DEFINE id == Or(cmd.flags.id, cmd.env.id)
           b == BotAsked(t, file)
           chat == IF t \in ChatIds THEN [id |-> t, bot |-> None] ELSE file.chats[t]
           bot == IF ById THEN b ELSE file.bots[b].id
<1>1. CASE ~NeedsCatalog(t)
  <2>1. m.rev = None  BY <1>1 DEF Message
  <2> QED  BY <2>1 DEF Routed
<1>2. CASE NeedsCatalog(t)
  <2>1. /\ file \in Snapshots
        /\ t \notin ChatIds => t \in DOMAIN file.chats
        /\ ~ById => b \in DOMAIN file.bots /\ b # None
    BY <1>2 DEF Routable
  <2>2. BotID = id
    <3>1. cmd.kind = "enqueue" /\ cfg.ok /\ cfg = LoadCommand(cmd)
      BY DEF LoadInv, Enqueues
    <3> DEFINE l == LoadBase(cmd.config, cmd.env, cmd.flags)
    <3>2. cfg = l  BY <3>1 DEF LoadCommand, LoadForEnqueue, RefusesBoth
    <3>3. l.ok => l.bot.id = id  BY BaseHasLastWord
    <3> HIDE DEF l, id
    <3> QED  BY <3>1, <3>2, <3>3 DEF BotID
  <2>3. b = Or(Or(id, cmd.flags.bot), chat.bot)
    BY <2>1, <2>2 DEF BotAsked
  <2>4. b # None /\ (ById => b = id)
    <3>1. ById => id # None  BY <2>2, CliAssumption DEF ById
    <3>2. ById => b = id  BY <2>3, <3>1 DEF Or
    <3> QED  BY <2>1, <3>1, <3>2
  <2>5. \E h : /\ m = [target |-> t, chat |-> IF t \in ChatIds THEN t ELSE file.chats[t].id,
                       bot |-> bot, host |-> h, rev |-> file.rev]
               /\ h \in IF ~ById THEN {file.bots[b].host}
                        ELSE IF HostsOf(file, bot) = {} THEN {None} ELSE HostsOf(file, bot)
    BY <1>2, Zenon DEF Message
  <2> HIDE DEF b, id, bot
  <2>6. /\ m.target = t /\ m.chat = chat.id /\ m.bot = bot /\ m.rev = file.rev
        /\ m.host \in IF ~ById THEN {file.bots[b].host}
                      ELSE IF HostsOf(file, bot) = {} THEN {None} ELSE HostsOf(file, bot)
    BY <2>5
  <2>7. m.host # None => m.host \in HostsOf(file, m.bot)
    <3>1. CASE ById  BY <2>6, <3>1
    <3>2. CASE ~ById
      <4>1. bot = file.bots[b].id /\ m.host = file.bots[b].host  BY <2>6, <3>2 DEF bot
      <4> QED  BY <2>1, <2>6, <3>2, <4>1 DEF HostsOf
    <3> QED  BY <3>1, <3>2
  <2> DEFINE asked == <<id, cmd.flags.bot, chat.bot>>
             first == asked[CHOOSE k \in 1..3 :
                          asked[k] # None /\ \A l \in 1..(k-1) : asked[l] = None]
  <2>8. first = b  BY <2>3, <2>4, FirstGiven
  <2>9. id \in BotIds <=> ById  BY <2>2 DEF ById
  <2>10. m.bot = IF id \in BotIds THEN id ELSE file.bots[first].id
    BY <2>4, <2>6, <2>8, <2>9 DEF bot
  <2>11. chat = IF m.target \in ChatIds THEN [id |-> m.target, bot |-> None]
                ELSE file.chats[m.target]
    BY <2>6
  <2> HIDE DEF chat
  <2>12. RoutedBy(m, file)  BY <2>6, <2>7, <2>10, <2>11, Zenon DEF RoutedBy, RoutedAs, id
  <2> QED  BY <2>1, <2>12 DEF Routed
<1> QED  BY <1>1, <1>2

LEMMA RouteInit == Init => RouteInv
  BY EmptyList DEF Init, RouteInv

LEMMA RoutedStays ==
    ASSUME cmd'.env = cmd.env, cmd'.flags.id = cmd.flags.id, cmd'.flags.bot = cmd.flags.bot,
           NEW m, Routed(m)
    PROVE  Routed(m)'
  BY DEF Routed, RoutedBy

LEMMA RouteNext ==
    LoadInv /\ PlaceInv /\ PlaceInv' /\ RouteInv /\ [Next]_vars => RouteInv'
<1> SUFFICES ASSUME LoadInv, PlaceInv, PlaceInv', RouteInv, [Next]_vars
             PROVE  RouteInv'
  OBVIOUS
<1>1. CASE Start
  <2>1. UNCHANGED <<cmd, file, pending, delivered>>  BY <1>1 DEF Start
  <2> QED  BY <2>1, RoutedStays DEF RouteInv
<1>2. CASE RunAgain
  <2>1. file' = file /\ pending' = <<>> /\ delivered' = delivered  BY <1>2 DEF RunAgain
  <2>2. /\ cmd'.kind = cmd.kind /\ cmd'.env = cmd.env
        /\ cmd'.flags.id = cmd.flags.id /\ cmd'.flags.bot = cmd.flags.bot
    BY <1>2, AgainFrame DEF SameButTargets
  <2>3. \A m : Routed(m) => Routed(m)'  BY <2>2, RoutedStays
  <2>4. Range(pending') = {}  BY <2>1, EmptyList
  <2> QED  BY <2>1, <2>2, <2>3, <2>4 DEF RouteInv
<1>3. ASSUME NEW r \in {"ok", "error"}, Answered(r) PROVE RouteInv'
  <2>1. UNCHANGED <<cmd, file, pending>>  BY <1>3 DEF Answered
  <2>2. \A m : Routed(m) => Routed(m)'  BY <2>1, RoutedStays
  <2>3. CASE delivered' = delivered  BY <2>1, <2>2, <2>3 DEF RouteInv
  <2>4. CASE Sending
    <3>1. cmd.kind # "enqueue"  BY <2>4 DEF Sending, LoadInv, Sends
    <3> QED  BY <2>1, <3>1 DEF RouteInv
  <2>5. CASE Publishing /\ Store
    <3> DEFINE m == pending[Cardinality(DOMAIN outcome) + 1]
    <3>1. m \in Range(pending)  BY <2>5, StoredIsResolved DEF Publishing
    <3>2. delivered' = Append(delivered, m)  BY <2>5 DEF Store
    <3> HIDE DEF m
    <3>3. Range(delivered') = Range(delivered) \cup {m}
      BY <3>2, AppendList DEF PlaceInv
    <3> QED  BY <2>1, <2>2, <3>1, <3>3 DEF RouteInv
  <2> QED  BY <1>3, <2>3, <2>4, <2>5 DEF Answered, Put
<1>4. CASE Resolve
  <2>1. UNCHANGED <<cmd, file, delivered>> /\ pc = "enqueue" /\ Routable(ToResolve)
    BY <1>4 DEF Resolve
  <2>2. PICK m \in Message(ToResolve) : pending' = Append(pending, m)
    BY <1>4 DEF Resolve
  <2>3. Routed(m)  BY <2>1, MessageIsRouted DEF RouteInv
  <2>4. Range(pending') = Range(pending) \cup {m}  BY <2>2, AppendList DEF PlaceInv
  <2>5. \A u : Routed(u) => Routed(u)'  BY <2>1, RoutedStays
  <2> QED  BY <2>1, <2>3, <2>4, <2>5 DEF RouteInv
<1>5. CASE Authenticate \/ Refresh \/ Abandon \/ ReplaceFile \/ UNCHANGED vars
  <2>1. UNCHANGED <<cmd, pending, delivered>>
    BY <1>5 DEF Authenticate, Refresh, Abandon, ReplaceFile, vars
  <2>2. file' \in Snapshots \cup {None}
    BY <1>5 DEF Authenticate, Refresh, Abandon, ReplaceFile, vars, RouteInv
  <2>3. \A m : Routed(m) => Routed(m)'  BY <2>1, RoutedStays
  <2> QED  BY <2>1, <2>2, <2>3 DEF RouteInv
<1> QED  BY <1>1, <1>2, <1>3, <1>4, <1>5, NextCases, WorkCases

(* A message routed through the catalog is routed by the snapshot whose    *)
(* revision it carries, and by what was asked for its own target, though   *)
(* the cache file is read again for every target (enqueue.go,              *)
(* resolveViaCatalog).                                                     *)
THEOREM RoutedBySnapshot == Spec => []RoutedByItsRevision
<1>1. RouteInv => RoutedByItsRevision
  BY Zenon DEF RouteInv, RoutedByItsRevision, Routed, RoutedBy, RoutedAs
<1>2. LoadInv /\ PlaceInv /\ PlaceInv' /\ RouteInv /\ [Next]_vars => RouteInv'
  BY RouteNext
<1> QED  BY <1>1, <1>2, Loads, Places, RouteInit, PTL DEF Spec

-----------------------------------------------------------------------------
(* What a command makes of a content                                       *)

(* A content may have a bot twice once somebody edited it.                 *)
ByHand(c) == \E p \in c.has : task[p].kind = "edit"

SoundContent(c) ==
    /\ IsContent(c)
    /\ OneDefault(c.chats)
    /\ NoBotTwice(c.bots) \/ ByHand(c)

(* A chat that is put into the file with its default mark: no other one    *)
(* has a mark then (checkDefaultConflict), or it had it before.            *)
LEMMA PutKeepsOneDefault ==
    ASSUME NEW chats, NEW k, NEW v, OneDefault(chats),
           v.default => (\A a \in DOMAIN chats \ {k} : ~chats[a].default)
    PROVE  OneDefault(With(chats, k, v))
BY DEF OneDefault, With

LEMMA SetChatIsSound ==
    ASSUME NEW c, NEW m, NEW bot, OneDefault(c.chats), IsContent(c),
           NEW d \in SetChat(c, m, bot)
    PROVE  /\ IsContent(d) /\ OneDefault(d.chats)
           /\ d.bots = c.bots /\ d.has = c.has
<1> DEFINE v == [id |-> m.id, bot |-> bot, default |-> IsDefault(c, m)]
           w == With(c.chats, m.alias, v)
<1>1. d = [c EXCEPT !.chats = w] /\ ~(m.default = "set" /\ ~DefaultFree(c, m.alias))
  BY DEF SetChat
<1>2. v.default => (\A a \in DOMAIN c.chats \ {m.alias} : ~c.chats[a].default)
  BY <1>1 DEF IsDefault, DefaultFree, OneDefault
<1> HIDE DEF v
<1>3. OneDefault(w)
  BY <1>2, PutKeepsOneDefault
<1> HIDE DEF w
<1> QED
  BY <1>1, <1>3 DEF IsContent

LEMMA ImportOneKeepsOneDefault ==
    ASSUME NEW s, NEW ch, NEW m, OneDefault(s.chats),
           s = [chats |-> s.chats, ids |-> s.ids, taken |-> s.taken, ok |-> s.ok]
    PROVE  /\ OneDefault(ImportOne(s, ch, m).chats)
           /\ ImportOne(s, ch, m) =
                [chats |-> ImportOne(s, ch, m).chats, ids |-> ImportOne(s, ch, m).ids,
                 taken |-> ImportOne(s, ch, m).taken, ok |-> ImportOne(s, ch, m).ok]
<1> DEFINE a == NewAlias(ch.name, s.taken)
           new == [id |-> ch.id, bot |-> OrElse(ch.bot, m.bot), default |-> FALSE]
           old == [id |-> ch.id, bot |-> OrElse(OrElse(ch.bot, m.bot), s.chats[a].bot),
                   default |-> s.chats[a].default]
           Entered(v, ids) == [chats |-> With(s.chats, a, v), ids |-> ids \cup {ch.id},
                           taken |-> s.taken \cup {a}, ok |-> TRUE]
<1>1. \/ ImportOne(s, ch, m) = s
      \/ a \notin DOMAIN s.chats /\ ImportOne(s, ch, m) = Entered(new, s.ids)
      \/ a \in DOMAIN s.chats /\ ImportOne(s, ch, m) = Entered(old, s.ids \ {s.chats[a].id})
      \/ ImportOne(s, ch, m) = [s EXCEPT !.ok = m.kind = "import all"]
  BY DEF ImportOne
<1>2. OneDefault(With(s.chats, a, new))
  BY PutKeepsOneDefault
<1>3. a \in DOMAIN s.chats => OneDefault(With(s.chats, a, old))
  <2> SUFFICES ASSUME a \in DOMAIN s.chats PROVE OneDefault(With(s.chats, a, old))  OBVIOUS
  <2>1. old.default => (\A b \in DOMAIN s.chats \ {a} : ~s.chats[b].default)
    BY DEF OneDefault
  <2> QED  BY <2>1, PutKeepsOneDefault
<1> HIDE DEF a, new, old
<1> DEFINE r == ImportOne(s, ch, m)
<1> HIDE DEF r
<1> SUFFICES /\ OneDefault(r.chats)
             /\ r = [chats |-> r.chats, ids |-> r.ids, taken |-> r.taken, ok |-> r.ok]
  BY DEF r
<1>4. CASE r = s
  BY <1>4
<1>5. CASE r = Entered(new, s.ids)
  BY <1>2, <1>5
<1>6. CASE a \in DOMAIN s.chats /\ r = Entered(old, s.ids \ {s.chats[a].id})
  BY <1>3, <1>6
<1>7. CASE r = [s EXCEPT !.ok = m.kind = "import all"]
  <2> DEFINE b == m.kind = "import all"
  <2>1. r = [chats |-> s.chats, ids |-> s.ids, taken |-> s.taken, ok |-> b]
    BY <1>7
  <2> QED  BY <2>1
<1> QED
  BY <1>1, <1>4, <1>5, <1>6, <1>7 DEF r

(* A list is imported chat by chat, so there is a state after each of them. *)
LEMMA ImportGoesOn ==
    ASSUME NEW c, NEW m, Len(m.listed) \in Nat
    PROVE  \E s : s = [k \in 0..Len(m.listed) |->
                IF k = 0 THEN BeforeImport(c) ELSE ImportOne(s[k - 1], m.listed[k], m)]
<1> DEFINE L == Len(m.listed)
           B == BeforeImport(c)
           O(x, k) == ImportOne(x, m.listed[k], m)
           Upto(n, g) == g = [k \in 0..n |-> IF k = 0 THEN B ELSE O(g[k - 1], k)]
           Bad == {n \in 0..L : ~(\E g : Upto(n, g))}
<1> HIDE DEF B, O
<1>1. ASSUME Bad # {} PROVE FALSE
  <2>1. PICK n \in Bad : \A j \in Bad : n <= j
    <3>1. Bad \in SUBSET Nat  OBVIOUS
    <3> QED  BY <1>1, <3>1, Least
  <2>2. n \in 0..L /\ ~(\E g : Upto(n, g))
    OBVIOUS
  <2>3. n # 0
    <3>1. Upto(0, [k \in 0..0 |-> B])  OBVIOUS
    <3> QED  BY <2>2, <3>1
  <2>4. n - 1 \in 0..L /\ n - 1 \notin Bad
    <3>1. n - 1 \in 0..L  BY <2>2, <2>3
    <3>2. n - 1 \in Bad => n <= n - 1  BY <2>1
    <3> HIDE DEF Bad
    <3> QED  BY <2>2, <3>1, <3>2
  <2>5. PICK g : Upto(n - 1, g)
    BY <2>4
  <2> DEFINE h == [k \in 0..n |-> IF k = n THEN O(g[n - 1], n) ELSE g[k]]
  <2>6. \A k \in 0..n : h[k] = IF k = 0 THEN B ELSE O(h[k - 1], k)
    BY <2>2, <2>3, <2>5
  <2>7. Upto(n, h)
    BY <2>6
  <2> QED
    BY <2>2, <2>7
<1>2. \E g : Upto(L, g)
  BY <1>1
<1> QED
  BY <1>2 DEF B, O

LEMMA ImportedIsSound ==
    ASSUME NEW c, NEW m, Len(m.listed) \in Nat, OneDefault(c.chats)
    PROVE  OneDefault(Imported(c, m).chats)
<1> DEFINE L == Len(m.listed)
           F(s) == [k \in 0..L |->
                       IF k = 0 THEN BeforeImport(c) ELSE ImportOne(s[k - 1], m.listed[k], m)]
           t == CHOOSE s : s = F(s)
<1>1. t = F(t)
  <2>1. \E s : s = F(s)  BY ImportGoesOn
  <2> HIDE DEF F
  <2> QED  BY <2>1
<1>2. Imported(c, m) = t[L]
  BY DEF Imported
<1> HIDE DEF t
<1>3. t[0] = BeforeImport(c)
      /\ \A k \in 1..L : t[k] = ImportOne(t[k - 1], m.listed[k], m)
  <2>1. \A k \in 0..L : t[k] = IF k = 0 THEN BeforeImport(c)
                               ELSE ImportOne(t[k - 1], m.listed[k], m)
    BY <1>1
  <2> QED  BY <2>1
<1> DEFINE Good(x) ==
             /\ OneDefault(x.chats)
             /\ x = [chats |-> x.chats, ids |-> x.ids, taken |-> x.taken, ok |-> x.ok]
           Bad == {n \in 0..L : ~Good(t[n])}
<1>4. ASSUME Bad # {} PROVE FALSE
  <2>1. PICK n \in Bad : \A j \in Bad : n <= j
    <3>1. Bad \in SUBSET Nat  OBVIOUS
    <3> QED  BY <1>4, <3>1, Least
  <2>2. n # 0
    <3>1. Good(t[0])
      BY <1>3 DEF BeforeImport
    <3> QED  BY <3>1
  <2>3. n \in 1..L /\ n - 1 \in 0..L /\ Good(t[n - 1])
    BY <2>1, <2>2
  <2>4. Good(ImportOne(t[n - 1], m.listed[n], m))
    BY <2>3, ImportOneKeepsOneDefault
  <2> QED
    BY <1>3, <2>3, <2>4
<1>5. Good(t[L])
  BY <1>4
<1> QED
  BY <1>2, <1>5

LEMMA ImportIsSound ==
    ASSUME NEW c, NEW m, Len(m.listed) \in Nat, OneDefault(c.chats), IsContent(c),
           NEW d \in Import(c, m)
    PROVE  /\ IsContent(d) /\ OneDefault(d.chats)
           /\ d.bots = c.bots /\ d.has = c.has
<1> DEFINE w == Imported(c, m).chats
<1>1. OneDefault(w)
  BY ImportedIsSound
<1>2. d = [c EXCEPT !.chats = w]
  BY DEF Import
<1> HIDE DEF w
<1> QED
  BY <1>1, <1>2 DEF IsContent

LEMMA ChatsAreSound ==
    ASSUME NEW c, NEW m, OneDefault(c.chats), IsContent(c), Len(m.listed) \in Nat,
           m.kind \in {"chat set", "chat add", "chat find", "chat rm", "import", "import all"},
           NEW d \in Results(c, m)
    PROVE  /\ IsContent(d) /\ OneDefault(d.chats)
           /\ d.bots = c.bots /\ d.has = c.has
<1>1. CASE m.kind = "chat set"
  <2>1. d \in SetChat(c, m, Bound(c, m))  BY <1>1 DEF Results
  <2> QED  BY <2>1, SetChatIsSound
<1>2. CASE m.kind = "chat add"
  <2>1. d \in SetChat(c, m, m.bot)  BY <1>2 DEF Results
  <2> QED  BY <2>1, SetChatIsSound
<1>3. CASE m.kind = "chat find"
  <2>1. d \in FindChat(c, m)  BY <1>3 DEF Results
  <2>2. \E n, b : d \in SetChat(c, n, b)
    BY <2>1 DEF FindChat
  <2> QED  BY <2>2, SetChatIsSound
<1>4. CASE m.kind = "chat rm"
  <2> DEFINE w == Without(c.chats, m.alias)
  <2>1. d = [c EXCEPT !.chats = w]  BY <1>4 DEF Results, RemoveChat
  <2>2. OneDefault(w)  BY DEF OneDefault, Without
  <2> HIDE DEF w
  <2> QED  BY <2>1, <2>2 DEF IsContent
<1>5. CASE m.kind \in {"import", "import all"}
  <2>1. d \in Import(c, m)  BY <1>5 DEF Results
  <2> QED  BY <2>1, ImportIsSound
<1> QED
  BY <1>1, <1>2, <1>3, <1>4, <1>5

(* "bot add" looks for the bot under every other name.                     *)
LEMMA BotsAreSound ==
    ASSUME NEW c, NEW m, NoBotTwice(c.bots) \/ ByHand(c), IsContent(c),
           m.kind \in {"bot add", "bot rm", "key add", "key rm"},
           NEW d \in Results(c, m)
    PROVE  /\ IsContent(d) /\ (NoBotTwice(d.bots) \/ ByHand(d))
           /\ d.chats = c.chats /\ d.has = c.has
<1>1. CASE m.kind = "bot add"
  <2>1. d \in AddBot(c, m)  BY <1>1 DEF Results
  <2>2. \A n \in DOMAIN c.bots : c.bots[n] = m.at => m.name # Nothing /\ n = m.name
    BY <2>1 DEF AddBot
  <2>3. PICK k : /\ d = [c EXCEPT !.bots = With(c.bots, k, m.at)]
                 /\ m.name # Nothing => k = m.name
    BY <2>1 DEF AddBot
  <2> DEFINE w == With(c.bots, k, m.at)
  <2>4. NoBotTwice(c.bots) => NoBotTwice(w)
    BY <2>2, <2>3 DEF NoBotTwice, With
  <2>5. d = [c EXCEPT !.bots = w]
    BY <2>3
  <2> HIDE DEF w
  <2> QED  BY <2>4, <2>5 DEF IsContent, ByHand
<1>2. CASE m.kind = "bot rm"
  <2> DEFINE w == Without(c.bots, m.name)
  <2>1. d = [c EXCEPT !.bots = w]  BY <1>2 DEF Results, RemoveBot
  <2>2. NoBotTwice(c.bots) => NoBotTwice(w)  BY DEF NoBotTwice, Without
  <2> HIDE DEF w
  <2> QED  BY <2>1, <2>2 DEF IsContent, ByHand
<1>3. CASE m.kind = "key add"
  <2> QED  BY <1>3 DEF Results, AddKey, IsContent, ByHand
<1>4. CASE m.kind = "key rm"
  <2> QED  BY <1>4 DEF Results, RemoveKey, IsContent, ByHand
<1> QED
  BY <1>1, <1>2, <1>3, <1>4

LEMMA ResultsAreSound ==
    ASSUME NEW c, NEW m, SoundContent(c), Len(m.listed) \in Nat, m.kind \in Kinds \ {"edit"},
           NEW d \in Results(c, m)
    PROVE  SoundContent(d) /\ d.has = c.has
<1>1. CASE m.kind \in {"chat set", "chat add", "chat find", "chat rm", "import", "import all"}
  BY <1>1, ChatsAreSound DEF SoundContent, ByHand
<1>2. CASE m.kind \in {"bot add", "bot rm", "key add", "key rm"}
  BY <1>2, BotsAreSound DEF SoundContent
<1> QED
  BY <1>1, <1>2 DEF Kinds

-----------------------------------------------------------------------------
(* What is on the disk and in the processes' hands is sound.  A text that  *)
(* is being edited need not be, unless it has been validated.              *)
Stages ==
    {"new", "listed", "loaded", "editing", "check", "replace", "writing", "done", "failed"}

FileTypeOK ==
    /\ DOMAIN task = Procs /\ \A p \in Procs : task[p] \in Tasks[p]
    /\ stage \in [Procs -> Stages]
    /\ DOMAIN look = Procs /\ DOMAIN draft = Procs
    /\ late \in [Procs -> SUBSET Procs]
    /\ cut \in BOOLEAN /\ blurred \in [Procs -> BOOLEAN]

ContentInv ==
    /\ FileTypeOK
    /\ content # Garbled => SoundContent(content)
    /\ \A p \in Procs :
           /\ stage[p] = "loaded" => SoundContent(look[p]) /\ task[p].kind # "edit"
           /\ stage[p] = "editing" => task[p].kind = "edit"
           /\ stage[p] \in {"check", "replace", "writing"} => SoundContent(draft[p])

LEMMA OriginalIsSound == FileInit => SoundContent(Original)
BY FileAssumption DEF FileInit, SoundContent

LEMMA EmptyIsSound == SoundContent(Empty)
BY DEF SoundContent, Empty, IsContent, OneDefault, NoBotTwice

LEMMA TaskIsKnown ==
    ASSUME FileTypeOK, NEW p \in Procs
    PROVE  task[p].kind \in Kinds /\ Len(task[p].listed) \in Nat
<1>1. task[p] \in Tasks[p]  BY DEF FileTypeOK
<1>2. task[p].kind \in Kinds /\ task[p].listed \in Seq(Range(task[p].listed))
  BY <1>1, FileAssumption
<1> QED
  BY <1>2

LEMMA FileTypeInit == FileInit => FileTypeOK
BY DEF FileInit, FileTypeOK, Stages

LEMMA FileTypeNext == FileTypeOK /\ [FileNext]_fileVars => FileTypeOK'
<1> SUFFICES ASSUME FileTypeOK, [FileNext]_fileVars PROVE FileTypeOK'  OBVIOUS
<1> USE DEF FileTypeOK, Goto, Stages
<1>1. ASSUME NEW p \in Procs, List(p) PROVE FileTypeOK'
  BY <1>1 DEF List
<1>2. ASSUME NEW p \in Procs, LoadMinimal(p) PROVE FileTypeOK'
  <2>1. /\ late' = late \/ late' = [late EXCEPT ![p] = {}]
        /\ stage' = [stage EXCEPT ![p] = "failed"] \/ stage' = [stage EXCEPT ![p] = "loaded"]
        /\ UNCHANGED look \/ look' = [look EXCEPT ![p] = content]
        /\ blurred' = [blurred EXCEPT ![p] = cut]
        /\ UNCHANGED <<task, cut, draft>>
    BY <1>2 DEF LoadMinimal
  <2> QED  BY <2>1
<1>3. ASSUME NEW p \in Procs, SaveConfig(p) PROVE FileTypeOK'
  BY <1>3 DEF SaveConfig
<1>4. ASSUME NEW p \in Procs, Write(p) PROVE FileTypeOK'
  <2>1. late' \in [Procs -> SUBSET Procs]
    BY <1>4 DEF Write
  <2>2. cut' \in BOOLEAN /\ UNCHANGED <<task, look, draft, blurred>>
    BY <1>4 DEF Write
  <2>3. stage' \in [Procs -> Stages]
    BY <1>4 DEF Write
  <2> QED  BY <2>1, <2>2, <2>3
<1>5. ASSUME NEW p \in Procs, Die(p) PROVE FileTypeOK'
  BY <1>5 DEF Die
<1>6. ASSUME NEW p \in Procs, OpenEditor(p) PROVE FileTypeOK'
  BY <1>6 DEF OpenEditor
<1>7. ASSUME NEW p \in Procs, Edited(p) PROVE FileTypeOK'
  BY <1>7 DEF Edited
<1>8. ASSUME NEW p \in Procs, Check(p) PROVE FileTypeOK'
  BY <1>8 DEF Check
<1>9. ASSUME NEW p \in Procs, Replace(p) PROVE FileTypeOK'
  <2>1. late' \in [Procs -> SUBSET Procs]
    BY <1>9 DEF Replace
  <2>2. cut' \in BOOLEAN /\ UNCHANGED <<task, look, draft, blurred>>
    BY <1>9 DEF Replace
  <2>3. stage' \in [Procs -> Stages]
    BY <1>9 DEF Replace
  <2> QED  BY <2>1, <2>2, <2>3
<1>10. CASE UNCHANGED fileVars
  BY <1>10 DEF fileVars
<1> QED
  BY <1>1, <1>2, <1>3, <1>4, <1>5, <1>6, <1>7, <1>8, <1>9, <1>10 DEF FileNext, Step

LEMMA ContentInit == FileInit => ContentInv
<1> SUFFICES ASSUME FileInit PROVE ContentInv  OBVIOUS
<1>1. FileTypeOK /\ SoundContent(Original)
  BY FileTypeInit, OriginalIsSound
<1> QED
  BY <1>1 DEF ContentInv, FileInit

(* A process changes nobody's place, look or draft but its own.            *)
OnlyOwn(p) ==
    /\ UNCHANGED task
    /\ \A q \in Procs \ {p} :
           stage'[q] = stage[q] /\ look'[q] = look[q] /\ draft'[q] = draft[q]

LEMMA StepIsOwn ==
    ASSUME FileTypeOK, NEW p \in Procs, Step(p)
    PROVE  OnlyOwn(p)
<1> USE DEF OnlyOwn, Goto, FileTypeOK
<1>1. CASE List(p)  BY <1>1 DEF List
<1>2. CASE LoadMinimal(p)
  BY <1>2 DEF LoadMinimal
<1>3. CASE SaveConfig(p)  BY <1>3 DEF SaveConfig
<1>4. CASE Write(p)  BY <1>4 DEF Write
<1>5. CASE Die(p)  BY <1>5 DEF Die
<1>6. CASE OpenEditor(p)  BY <1>6 DEF OpenEditor
<1>7. CASE Edited(p)  BY <1>7 DEF Edited
<1>8. CASE Check(p)  BY <1>8 DEF Check
<1>9. CASE Replace(p)  BY <1>9 DEF Replace
<1> QED
  BY <1>1, <1>2, <1>3, <1>4, <1>5, <1>6, <1>7, <1>8, <1>9 DEF Step

(* What ContentInv says of one process and of the file.                    *)
InHand(p) ==
    /\ stage[p] = "loaded" => SoundContent(look[p]) /\ task[p].kind # "edit"
    /\ stage[p] = "editing" => task[p].kind = "edit"
    /\ stage[p] \in {"check", "replace", "writing"} => SoundContent(draft[p])

OnDisk == content # Garbled => SoundContent(content)

LEMMA StepIsSound ==
    ASSUME ContentInv, FileTypeOK', NEW p \in Procs, Step(p)
    PROVE  ContentInv'
<1>1. FileTypeOK /\ OnDisk /\ InHand(p)
  BY DEF ContentInv, OnDisk, InHand
<1>2. OnlyOwn(p)
  BY <1>1, StepIsOwn
<1>3. \A c : SoundContent(c)' <=> SoundContent(c)
  BY <1>2 DEF OnlyOwn, SoundContent, ByHand
<1>4. ASSUME NEW q \in Procs \ {p} PROVE InHand(q)'
  BY <1>2, <1>3, <1>4 DEF OnlyOwn, InHand, ContentInv
<1> SUFFICES OnDisk' /\ InHand(p)'
  BY <1>4 DEF ContentInv, OnDisk, InHand
<1> USE DEF Goto
<1>5. CASE List(p)
  BY <1>1, <1>3, <1>5 DEF List, OnDisk, InHand, FileTypeOK
<1>6. CASE LoadMinimal(p)
  <2>1. \/ stage'[p] = "failed"
        \/ stage'[p] = "loaded" /\ content # Garbled /\ look'[p] = content
    BY <1>1, <1>6 DEF LoadMinimal, FileTypeOK
  <2>2. content' = content /\ task[p].kind # "edit" /\ task' = task
    BY <1>6 DEF LoadMinimal
  <2> QED  BY <1>1, <1>3, <2>1, <2>2 DEF OnDisk, InHand
<1>7. CASE SaveConfig(p)
  <2>1. CASE Results(look[p], task[p]) = {}
    BY <1>1, <1>3, <1>7, <2>1 DEF SaveConfig, OnDisk, InHand, FileTypeOK
  <2>2. CASE Results(look[p], task[p]) # {}
    <3>1. PICK c \in Results(look[p], task[p]) :
              draft'[p] = [c EXCEPT !.has = @ \cup {p}]
      BY <1>1, <1>7, <2>2 DEF SaveConfig, FileTypeOK
    <3>2. stage'[p] = "writing" /\ content' = Empty /\ UNCHANGED look
      BY <1>1, <1>7, <2>2 DEF SaveConfig, FileTypeOK
    <3>3. SoundContent(look[p]) /\ task[p].kind # "edit"
      BY <1>1, <1>7 DEF SaveConfig, InHand
    <3>4. SoundContent(c)
      BY <1>1, <3>3, TaskIsKnown, ResultsAreSound
    <3>5. SoundContent(draft'[p])
      BY <3>1, <3>4 DEF SoundContent, IsContent, ByHand
    <3> QED
      BY <1>3, <3>2, <3>5, EmptyIsSound DEF OnDisk, InHand
  <2> QED  BY <2>1, <2>2
<1>8. CASE Write(p)
  <2>1. stage'[p] = "done" /\ (content' = content \/ content' \in {draft[p], Garbled})
    BY <1>1, <1>8 DEF Write, FileTypeOK
  <2>2. SoundContent(draft[p])
    BY <1>1, <1>8 DEF Write, InHand
  <2> QED  BY <1>1, <1>3, <2>1, <2>2 DEF OnDisk, InHand
<1>9. CASE Die(p)
  BY <1>1, <1>3, <1>9 DEF Die, OnDisk, InHand, FileTypeOK
<1>10. CASE OpenEditor(p)
  BY <1>1, <1>3, <1>10 DEF OpenEditor, OnDisk, InHand, FileTypeOK
<1>11. CASE Edited(p)
  <2>1. content' = content /\ task' = task /\ task[p].kind = "edit"
    BY <1>1, <1>11 DEF Edited, InHand
  <2>2. CASE stage'[p] = "failed"
    BY <1>1, <1>3, <2>1, <2>2 DEF OnDisk, InHand
  <2>3. CASE stage'[p] # "failed"
    <3>1. PICK c \in Edits(look[p]) \ {look[p]} :
             /\ draft'[p] = [chats |-> c.chats, bots |-> c.bots, keys |-> c.keys,
                             has |-> Changes(look[p]) \cup {p}]
             /\ stage'[p] = IF ValidText(c) THEN "check" ELSE "editing"
      BY <1>1, <1>11, <2>3 DEF Edited, FileTypeOK
    <3>2. stage'[p] = "check" => SoundContent(draft'[p])
      BY <2>1, <3>1 DEF SoundContent, IsContent, ByHand, ValidText
    <3> QED
      BY <1>1, <1>3, <2>1, <3>1, <3>2 DEF OnDisk, InHand
  <2> QED  BY <2>2, <2>3
<1>12. CASE Check(p)
  BY <1>1, <1>3, <1>12 DEF Check, OnDisk, InHand, FileTypeOK
<1>13. CASE Replace(p)
  <2>1. /\ stage'[p] \in {"done", "writing", "failed"} /\ UNCHANGED draft
        /\ content' \in {draft[p], Empty, content}
    BY <1>1, <1>13 DEF Replace, FileTypeOK
  <2>2. SoundContent(draft[p])
    BY <1>1, <1>13 DEF Replace, InHand
  <2> QED  BY <1>1, <1>3, <2>1, <2>2, EmptyIsSound DEF OnDisk, InHand
<1> QED
  BY <1>5, <1>6, <1>7, <1>8, <1>9, <1>10, <1>11, <1>12, <1>13 DEF Step

LEMMA ContentNext == ContentInv /\ [FileNext]_fileVars => ContentInv'
<1> SUFFICES ASSUME ContentInv, [FileNext]_fileVars PROVE ContentInv'  OBVIOUS
<1>1. FileTypeOK'
  BY FileTypeNext DEF ContentInv
<1>2. CASE UNCHANGED fileVars
  BY <1>1, <1>2 DEF ContentInv, fileVars, SoundContent, ByHand
<1> QED
  BY <1>1, <1>2, StepIsSound DEF FileNext

LEMMA Contents == FileSpec => []ContentInv
<1> QED
  BY ContentInit, ContentNext, PTL DEF FileSpec

(* The commands that edit the configuration file (SaveConfig, "config      *)
(* edit") keep it sound, for any number of commands side by side: at most  *)
(* one default chat, and no bot twice unless somebody's text had it.       *)
THEOREM FileStaysSound == FileSpec => []FileIsSound
<1>1. ContentInv => FileIsSound
  BY DEF ContentInv, FileIsSound, SoundContent, ByHand
<1> QED
  BY <1>1, Contents, PTL

-----------------------------------------------------------------------------
(* Waiting                                                                 *)

(* What is known of the file to a process that may save what it has: it    *)
(* looked at it, or checked it, when it was whole.                         *)
Diligent(p) == ~WaitsAfterLook(task[p]) /\ ~blurred[p]

Contained(p) == IF stage[p] = "loaded" THEN look[p].has ELSE draft[p].has

LateChanges(p) == UNION {draft[q].has : q \in late[p]}

(* A file that is not cut is the one last written, or garbled; who wrote   *)
(* late is done; and what a diligent process would undo was written late.  *)
WaitInv ==
    /\ FileTypeOK
    /\ ~cut => content \in {whole, Garbled}
    /\ \A p \in Procs : \A q \in late[p] : stage[q] = "done"
    /\ \A p \in Procs : stage[p] \in {"editing", "check"} => task[p].kind = "edit"
    /\ \A p \in Procs : stage[p] = "check" => draft[p].has = Changes(look[p]) \cup {p}
    /\ \A p \in Procs :
           stage[p] \in {"loaded", "replace", "writing"} /\ Diligent(p) =>
               whole.has \ Contained(p) \subseteq LateChanges(p)

LEMMA WaitInit == FileInit => WaitInv
<1> SUFFICES ASSUME FileInit PROVE WaitInv  OBVIOUS
<1>1. FileTypeOK
  BY FileTypeInit
<1> QED
  BY <1>1 DEF WaitInv, FileInit

(* What WaitInv says of one process.                                       *)
Waited(p) ==
    /\ \A q \in late[p] : stage[q] = "done"
    /\ stage[p] \in {"editing", "check"} => task[p].kind = "edit"
    /\ stage[p] = "check" => draft[p].has = Changes(look[p]) \cup {p}
    /\ stage[p] \in {"loaded", "replace", "writing"} /\ Diligent(p) =>
           whole.has \ Contained(p) \subseteq LateChanges(p)

WholeOnDisk == ~cut => content \in {whole, Garbled}

LEMMA WaitParts == WaitInv <=> FileTypeOK /\ WholeOnDisk /\ \A p \in Procs : Waited(p)
BY DEF WaitInv, Waited, WholeOnDisk

(* A step of a process that does not complete a write changes nothing for  *)
(* another process.                                                        *)
LEMMA OthersWait ==
    ASSUME WaitInv, NEW p \in Procs, OnlyOwn(p), whole' = whole,
           stage[p] # "done", NEW q \in Procs \ {p},
           late'[q] = late[q], blurred'[q] = blurred[q]
    PROVE  Waited(q)'
<1>1. Waited(q) /\ FileTypeOK
  BY WaitParts
<1>2. late[q] \subseteq Procs \ {p}
  BY <1>1 DEF Waited, FileTypeOK
<1>3. \A r \in late[q] : draft'[r] = draft[r] /\ stage'[r] = stage[r]
  BY <1>2 DEF OnlyOwn
<1>4. LateChanges(q)' = LateChanges(q)
  BY <1>3 DEF LateChanges
<1>5. Contained(q)' = Contained(q) /\ (Diligent(q)' <=> Diligent(q))
  BY DEF OnlyOwn, Contained, Diligent
<1>6. UNCHANGED task /\ stage'[q] = stage[q] /\ look'[q] = look[q] /\ draft'[q] = draft[q]
  BY DEF OnlyOwn
<1> QED
  BY <1>1, <1>3, <1>4, <1>5, <1>6 DEF Waited, Changes

(* A completed write adds the writer to everybody's late ones.             *)
LEMMA OthersAreLate ==
    ASSUME WaitInv, NEW p \in Procs, OnlyOwn(p), whole' = draft[p], UNCHANGED <<draft, blurred>>,
           stage'[p] = "done", NEW q \in Procs \ {p}, late'[q] = late[q] \cup {p}
    PROVE  Waited(q)'
<1>1. Waited(q) /\ FileTypeOK
  BY WaitParts
<1>2. \A r \in late'[q] : stage'[r] = "done"
  BY <1>1 DEF Waited, FileTypeOK, OnlyOwn
<1>3. draft[p].has \subseteq LateChanges(q)'
  BY DEF LateChanges
<1>4. UNCHANGED task /\ stage'[q] = stage[q] /\ look'[q] = look[q] /\ draft'[q] = draft[q]
  BY DEF OnlyOwn
<1> QED
  BY <1>1, <1>2, <1>3, <1>4 DEF Waited, Changes

LEMMA StepWaits ==
    ASSUME ContentInv, WaitInv, FileTypeOK', NEW p \in Procs, Step(p)
    PROVE  WaitInv'
<1>1. FileTypeOK /\ WholeOnDisk /\ Waited(p)
  BY WaitParts
<1>2. OnlyOwn(p)
  BY <1>1, StepIsOwn
<1>3. task' = task
  BY <1>2 DEF OnlyOwn
<1>4. SUFFICES WholeOnDisk' /\ (\A q \in Procs \ {p} : Waited(q)') /\ Waited(p)'
  BY DEF WaitInv, Waited, WholeOnDisk
<1> DEFINE Quiet == /\ whole' = whole /\ stage[p] # "done"
                    /\ \A q \in Procs \ {p} : late'[q] = late[q] /\ blurred'[q] = blurred[q]
<1>5. Quiet => \A q \in Procs \ {p} : Waited(q)'
  BY <1>2, OthersWait
<1> USE DEF Goto
<1>Late. stage[p] # "done" => \A q \in late[p] : stage'[q] = "done"
  BY <1>1, <1>2 DEF Waited, OnlyOwn, FileTypeOK
<1>6. CASE List(p)
  <2>1. Quiet /\ UNCHANGED <<content, cut>>
    BY <1>1, <1>6 DEF List, FileTypeOK
  <2>2. stage'[p] \in {"listed", "failed"} /\ late'[p] = {}
    BY <1>1, <1>6 DEF List, FileTypeOK
  <2> QED  BY <1>1, <1>5, <2>1, <2>2 DEF WholeOnDisk, Waited
<1>7. CASE LoadMinimal(p)
  <2>1. Quiet /\ UNCHANGED <<content, cut>>
    BY <1>1, <1>7 DEF LoadMinimal, FileTypeOK
  <2>2. \/ stage'[p] = "failed"
        \/ stage'[p] = "loaded" /\ content # Garbled /\ look'[p] = content
    BY <1>1, <1>7 DEF LoadMinimal, FileTypeOK
  <2>3. blurred'[p] = cut /\ late'[p] \in {late[p], {}} /\ late'[p] \subseteq Procs
    BY <1>1, <1>7 DEF LoadMinimal, FileTypeOK
  <2>5. \A q \in late'[p] : stage'[q] = "done"
    BY <1>Late, <2>1, <2>3
  <2>6. stage'[p] = "loaded" /\ Diligent(p)' => whole' = look'[p]
    BY <1>1, <2>1, <2>2, <2>3 DEF Diligent, WholeOnDisk
  <2>7. stage'[p] = "loaded" /\ Diligent(p)' => whole'.has \ Contained(p)' = {}
    BY <2>6 DEF Contained
  <2> QED  BY <1>1, <1>5, <2>1, <2>2, <2>5, <2>7 DEF WholeOnDisk, Waited
<1>8. CASE SaveConfig(p)
  <2>1. Quiet /\ UNCHANGED <<look, late, blurred>> /\ stage[p] = "loaded"
    BY <1>1, <1>8 DEF SaveConfig, FileTypeOK
  <2>2. CASE stage'[p] = "failed"
    <3>1. UNCHANGED <<content, cut>>
      BY <1>1, <1>8, <2>2 DEF SaveConfig, FileTypeOK
    <3> QED
      BY <1>1, <1>5, <1>Late, <2>1, <2>2, <3>1 DEF WholeOnDisk, Waited
  <2>3. CASE stage'[p] # "failed"
    <3>1. PICK c \in Results(look[p], task[p]) :
              draft'[p] = [c EXCEPT !.has = @ \cup {p}]
      BY <1>1, <1>8, <2>3 DEF SaveConfig, FileTypeOK
    <3>2. stage'[p] = "writing" /\ cut'
      BY <1>1, <1>8, <2>3 DEF SaveConfig, FileTypeOK
    <3>3. SoundContent(look[p]) /\ task[p].kind # "edit"
      BY <2>1 DEF ContentInv
    <3>4. SoundContent(c) /\ c.has = look[p].has
      BY <1>1, <3>3, TaskIsKnown, ResultsAreSound
    <3>5. look[p].has \subseteq draft'[p].has
      BY <3>1, <3>4 DEF SoundContent, IsContent
    <3>6. \A q \in late[p] : draft'[q] = draft[q]
      BY <1>1, <1>2, <2>1 DEF Waited, OnlyOwn, FileTypeOK
    <3>7. LateChanges(p)' = LateChanges(p)
      BY <2>1, <3>6 DEF LateChanges
    <3>8. Diligent(p)' => whole'.has \ Contained(p)' \subseteq LateChanges(p)'
      BY <1>1, <1>3, <2>1, <3>2, <3>5, <3>7 DEF Waited, Contained, Diligent
    <3> QED
      BY <1>5, <1>Late, <2>1, <3>2, <3>8 DEF WholeOnDisk, Waited
  <2> QED  BY <2>2, <2>3
<1>9. CASE Write(p)
  <2>1. /\ UNCHANGED <<draft, blurred>> /\ stage[p] = "writing" /\ stage'[p] = "done"
    BY <1>1, <1>9 DEF Write, FileTypeOK
  <2>2. CASE p \in orphan
    <3>1. UNCHANGED <<content, cut, whole, late>>
      BY <1>9, <2>2 DEF Write
    <3> QED
      BY <1>1, <1>5, <1>Late, <2>1, <3>1 DEF WholeOnDisk, Waited
  <2>3. CASE p \notin orphan
    <3>1. /\ whole' = draft[p] /\ late'[p] = late[p]
          /\ \A q \in Procs \ {p} : late'[q] = late[q] \cup {p}
          /\ content' \in {whole', Garbled}
      BY <1>9, <2>3 DEF Write
    <3>2. \A q \in Procs \ {p} : Waited(q)'
      BY <1>2, <2>1, <3>1, OthersAreLate
    <3> QED
      BY <1>Late, <2>1, <3>1, <3>2 DEF WholeOnDisk, Waited
  <2> QED  BY <2>2, <2>3
<1>10. CASE Die(p)
  <2>1. Quiet /\ UNCHANGED <<content, cut, late>> /\ stage'[p] = "failed"
    BY <1>1, <1>10 DEF Die, FileTypeOK
  <2> QED  BY <1>1, <1>5, <1>Late, <2>1 DEF WholeOnDisk, Waited
<1>11. CASE OpenEditor(p)
  <2>1. Quiet /\ UNCHANGED <<content, cut>> /\ stage'[p] = "editing" /\ late'[p] = {}
    BY <1>1, <1>11 DEF OpenEditor, FileTypeOK
  <2>2. task'[p].kind = "edit"
    BY <1>11, <1>3 DEF OpenEditor
  <2> QED  BY <1>1, <1>5, <2>1, <2>2 DEF WholeOnDisk, Waited
<1>12. CASE Edited(p)
  <2>1. Quiet /\ UNCHANGED <<content, cut, look>> /\ late'[p] = {}
    BY <1>1, <1>12 DEF Edited, FileTypeOK
  <2>2. stage'[p] \in {"failed", "editing", "check"}
    BY <1>1, <1>12 DEF Edited, FileTypeOK
  <2>3. task'[p].kind = "edit"
    BY <1>1, <1>3, <1>12 DEF Edited, Waited
  <2>4. stage'[p] = "check" => draft'[p].has = Changes(look[p]) \cup {p}
    BY <1>1, <1>12 DEF Edited, FileTypeOK
  <2> QED  BY <1>1, <1>5, <2>1, <2>2, <2>3, <2>4 DEF WholeOnDisk, Waited, Changes
<1>13. CASE Check(p)
  <2>1. Quiet /\ UNCHANGED <<content, cut, look, draft, late>> /\ stage[p] = "check"
    BY <1>1, <1>13 DEF Check, FileTypeOK
  <2>2. blurred'[p] = (cut \/ content = Garbled)
    BY <1>1, <1>13 DEF Check, FileTypeOK
  <2>3. stage'[p] \in {"failed", "replace"} /\ (stage'[p] = "replace" => content = look[p])
    BY <1>1, <1>13 DEF Check, Unchanged, FileTypeOK
  <2>4. stage'[p] = "replace" /\ Diligent(p)' => look[p] = whole /\ look[p] # Garbled
    BY <1>1, <2>2, <2>3 DEF Diligent, WholeOnDisk
  <2>5. draft[p].has = Changes(look[p]) \cup {p}
    BY <1>1, <2>1 DEF Waited
  <2>6. stage'[p] = "replace" /\ Diligent(p)' => whole'.has \ Contained(p)' = {}
    BY <2>1, <2>4, <2>5 DEF Contained, Changes
  <2> QED  BY <1>1, <1>5, <1>Late, <2>1, <2>3, <2>6 DEF WholeOnDisk, Waited
<1>14. CASE Replace(p)
  <2>1. /\ UNCHANGED <<look, draft, blurred>> /\ stage[p] = "replace"
        /\ stage'[p] \in {"done", "writing", "failed"}
    BY <1>1, <1>14 DEF Replace, FileTypeOK
  <2>2. CASE stage'[p] = "done"
    <3>1. /\ whole' = draft[p] /\ late'[p] = late[p]
          /\ \A q \in Procs \ {p} : late'[q] = late[q] \cup {p}
          /\ content' = whole'
      BY <1>1, <1>14, <2>2 DEF Replace, FileTypeOK
    <3>2. \A q \in Procs \ {p} : Waited(q)'
      BY <1>2, <2>1, <2>2, <3>1, OthersAreLate
    <3> QED
      BY <1>Late, <2>1, <2>2, <3>1, <3>2 DEF WholeOnDisk, Waited
  <2>3. CASE stage'[p] # "done"
    <3>1. UNCHANGED <<whole, late>> /\ (cut' \/ UNCHANGED <<content, cut>>)
      BY <1>1, <1>14, <2>3 DEF Replace, FileTypeOK
    <3>2. Contained(p)' = Contained(p) /\ LateChanges(p)' = LateChanges(p)
          /\ (Diligent(p)' <=> Diligent(p))
      BY <1>3, <2>1, <2>3, <3>1 DEF Contained, LateChanges, Diligent
    <3> QED
      BY <1>1, <1>5, <1>Late, <2>1, <2>3, <3>1, <3>2 DEF WholeOnDisk, Waited
  <2> QED  BY <2>2, <2>3
<1> QED
  BY <1>6, <1>7, <1>8, <1>9, <1>10, <1>11, <1>12, <1>13, <1>14 DEF Step

LEMMA WaitNext == ContentInv /\ WaitInv /\ [FileNext]_fileVars => WaitInv'
<1> SUFFICES ASSUME ContentInv, WaitInv, [FileNext]_fileVars PROVE WaitInv'  OBVIOUS
<1>1. FileTypeOK'
  BY FileTypeNext DEF ContentInv
<1>2. CASE UNCHANGED fileVars
  BY <1>1, <1>2 DEF WaitInv, fileVars, Diligent, Contained, LateChanges, Changes
<1> QED
  BY <1>1, <1>2, StepWaits DEF FileNext

LEMMA UndoesOnlyLate ==
    ASSUME WaitInv, [FileNext]_fileVars, NEW p \in Procs,
           whole' # whole, stage[p] # "done", stage'[p] = "done"
    PROVE  \/ WaitsAfterLook(task[p]) \/ blurred[p]
           \/ whole.has \ whole'.has \subseteq UNION {draft[q].has : q \in late[p]}
<1>1. FileTypeOK /\ Waited(p)
  BY WaitParts
<1>2. Step(p)
  <2>1. PICK q \in Procs : Step(q)
    BY DEF FileNext, fileVars
  <2>2. OnlyOwn(q)
    BY <1>1, <2>1, StepIsOwn
  <2> QED  BY <2>1, <2>2 DEF OnlyOwn
<1>3. stage[p] \in {"writing", "replace"} /\ whole' = draft[p]
  <2>1. CASE List(p)  BY <1>1, <2>1 DEF List
  <2>2. CASE LoadMinimal(p)  BY <1>1, <2>2 DEF LoadMinimal
  <2>3. CASE SaveConfig(p)  BY <1>1, <2>3 DEF SaveConfig
  <2>4. CASE Write(p)  BY <1>1, <2>4 DEF Write
  <2>5. CASE Die(p)  BY <1>1, <2>5 DEF Die
  <2>6. CASE OpenEditor(p)  BY <1>1, <2>6 DEF OpenEditor
  <2>7. CASE Edited(p)  BY <1>1, <2>7 DEF Edited
  <2>8. CASE Check(p)  BY <1>1, <2>8 DEF Check
  <2>9. CASE Replace(p)  BY <1>1, <2>9 DEF Replace
  <2> QED
    BY <1>2, <2>1, <2>2, <2>3, <2>4, <2>5, <2>6, <2>7, <2>8, <2>9 DEF Step
<1> QED
  BY <1>1, <1>3 DEF Waited, Diligent, Contained, LateChanges

(* Whoever waits for BotX or for a user before it reads the file, or looks *)
(* again before it replaces it ("chat add" by name, "import", "config      *)
(* edit"), undoes no change written while it waited.                       *)
THEOREM WaitsLoseNothing == FileSpec => WaitLosesNothing
<1>1. ContentInv /\ WaitInv /\ [FileNext]_fileVars =>
        \A p \in Procs : whole' # whole /\ stage[p] # "done" /\ stage'[p] = "done" =>
           \/ WaitsAfterLook(task[p]) \/ blurred[p]
           \/ whole.has \ whole'.has \subseteq UNION {draft[q].has : q \in late[p]}
  BY UndoesOnlyLate
<1> QED
  BY <1>1, WaitInit, WaitNext, Contents, PTL DEF FileSpec, WaitLosesNothing
=============================================================================
