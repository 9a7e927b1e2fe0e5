------------------------------ MODULE ConfigFile ------------------------------
(***************************************************************************)
(* The commands that change the configuration file: "config chat set, rm,  *)
(* add, import", "config bot add, rm", "config apikey add, rm" and "config *)
(* edit" (internal/cmd/chats.go, bot.go, server_apikey.go, config.go), run *)
(* at the same time by several people or scripts.  All but edit read the   *)
(* whole file, change it and write it back in place; edit renames.  Some   *)
(* wait for the BotX API or for the user before, between or after.         *)
(*                                                                         *)
(* A content is [chats : aliases -> [id, bot, default], bots : names ->    *)
(* host and id, keys : names, has : the commands whose change it contains].*)
(* An alias is a pair of a name and a number, as import generates them.    *)
(***************************************************************************)
EXTENDS Naturals, SequencesExt

CONSTANTS
    Procs,
    Tasks,      \* [Procs -> sets of commands], one of which each runs
    Original,   \* the content in the beginning
    BotNames,   \* the names generated for bots, in order
    Edits(_),   \* what a user may make of a content in the editor
    Nothing,    \* an option that is not given, an empty field
    Garbled,    \* a file that does not parse
    MaxDeaths   \* bound: commands killed while they write

VARIABLES
    task,     \* the command of each process; it never changes
    content,  \* the content a reader finds, or Garbled
    cut,      \* whether the file is truncated and not yet written
    stage,    \* the place of each process
    look,     \* what the process read
    draft,    \* what it writes
    orphan,   \* writers whose file has been replaced by a rename
    whole,    \* the last content written completely
    late,     \* commands that completed a write since this one last waited
              \* for the network or the user, or began
    blurred,  \* whether it started from a truncated or garbled file
    deaths

fileVars == <<task, content, cut, stage, look, draft, orphan, whole, late, blurred, deaths>>

(* The file in the beginning, and what commands can be called with.        *)
IsContent(c) ==
    c = [chats |-> c.chats, bots |-> c.bots, keys |-> c.keys, has |-> c.has]

OneDefault(chats) ==
    \A a, b \in DOMAIN chats : chats[a].default /\ chats[b].default => a = b

NoBotTwice(bots) == \A m, n \in DOMAIN bots : bots[m] = bots[n] => m = n

Kinds ==
    {"chat set", "chat add", "chat find", "chat rm", "import", "import all",
     "bot add", "bot rm", "key add", "key rm", "edit"}

ASSUME FileAssumption ==
    /\ IsContent(Original) /\ Original.has = {}
    /\ OneDefault(Original.chats) /\ NoBotTwice(Original.bots)
    /\ \A p \in Procs : \A m \in Tasks[p] :
           m.kind \in Kinds /\ m.listed \in Seq(Range(m.listed))

Empty == [chats |-> <<>>, bots |-> <<>>, keys |-> {}, has |-> {}]

FileInit ==
    /\ task \in {f \in [Procs -> UNION {Tasks[p] : p \in Procs}] :
                    \A p \in Procs : f[p] \in Tasks[p]}
    /\ content = Original /\ whole = Original
    /\ cut = FALSE
    /\ stage = [p \in Procs |-> "new"]
    /\ look = [p \in Procs |-> Empty]
    /\ draft = [p \in Procs |-> Empty]
    /\ orphan = {}
    /\ late = [p \in Procs |-> {}]
    /\ blurred = [p \in Procs |-> FALSE]
    /\ deaths = 0

-----------------------------------------------------------------------------
(* What a command makes of a content: the set of its result, {} if it      *)
(* fails or has nothing to save.                                           *)

OrElse(x, y) == IF x # Nothing THEN x ELSE y
With(f, k, v) == [x \in DOMAIN f \cup {k} |-> IF x = k THEN v ELSE f[x]]
Without(f, k) == [x \in DOMAIN f \ {k} |-> f[x]]

\* MUTANT: another default chat is not looked for.
AlwaysFree(c, alias) == TRUE

(* checkDefaultConflict                                                    *)
DefaultFree(c, alias) == \A a \in DOMAIN c.chats \ {alias} : ~c.chats[a].default

(* Given neither --default nor --no-default a chat keeps what it was.      *)
IsDefault(c, m) ==
    \/ m.default = "set"
    \/ m.default = "keep" /\ m.alias \in DOMAIN c.chats /\ c.chats[m.alias].default

Bound(c, m) == IF m.alias \in DOMAIN c.chats THEN OrElse(m.bot, c.chats[m.alias].bot) ELSE m.bot

SetChat(c, m, bot) ==
    IF m.default = "set" /\ ~DefaultFree(c, m.alias) THEN {}
    ELSE {[c EXCEPT !.chats = With(@, m.alias,
              [id |-> m.id, bot |-> bot, default |-> IsDefault(c, m)])]}

(* Without --alias the chat found keeps the alias it has.                  *)
AliasFound(c, m) ==
    LET known == {a \in DOMAIN c.chats : c.chats[a].id = m.id} IN
    IF m.alias # Nothing THEN {m.alias} ELSE IF known # {} THEN known ELSE {<<m.name, 1>>}

FindChat(c, m) ==
    UNION {LET n == [m EXCEPT !.alias = a] IN SetChat(c, n, Bound(c, n)) : a \in AliasFound(c, m)}

RemoveChat(c, m) ==
    IF m.alias \in DOMAIN c.chats THEN {[c EXCEPT !.chats = Without(@, m.alias)]} ELSE {}

(* generateChatAlias: numbered past the aliases generated in this run.     *)
NewAlias(name, taken) ==
    <<name, CHOOSE n \in 1..Cardinality(taken) + 1 :
                /\ <<name, n>> \notin taken
                /\ \A k \in 1..n - 1 : <<name, k>> \in taken>>

(* One listed chat: s is [chats, ids, taken, ok], ids those with an alias. *)
ImportOne(s, ch, m) ==
    LET a   == NewAlias(ch.name, s.taken)
        bot == OrElse(ch.bot, m.bot)
        put(c, ids) == [chats |-> With(s.chats, a, c), ids |-> ids \cup {ch.id},
                        taken |-> s.taken \cup {a}, ok |-> TRUE]
    IN  IF ~s.ok \/ ch.id \in s.ids THEN s
        ELSE IF a \notin DOMAIN s.chats
        THEN put([id |-> ch.id, bot |-> bot, default |-> FALSE], s.ids)
        ELSE IF s.chats[a].id = ch.id \/ m.conflict = "skip" THEN s
        ELSE IF m.conflict = "overwrite"
        THEN put([id |-> ch.id, bot |-> OrElse(bot, s.chats[a].bot),
                  default |-> s.chats[a].default], s.ids \ {s.chats[a].id})
        ELSE [s EXCEPT !.ok = m.kind = "import all"]

BeforeImport(c) ==
    [chats |-> c.chats, ids |-> {c.chats[a].id : a \in DOMAIN c.chats},
     taken |-> {}, ok |-> TRUE]

(* The whole list, one after the other.                                    *)
Imported(c, m) ==
    LET s[k \in 0..Len(m.listed)] ==
            IF k = 0 THEN BeforeImport(c) ELSE ImportOne(s[k - 1], m.listed[k], m)
    IN  s[Len(m.listed)]

Import(c, m) ==
    LET s == Imported(c, m)
    IN  IF s.ok /\ s.chats # c.chats THEN {[c EXCEPT !.chats = s.chats]} ELSE {}

AddBot(c, m) ==
    LET free == SelectSeq(BotNames, LAMBDA n : n \notin DOMAIN c.bots) IN
    IF \E n \in DOMAIN c.bots : c.bots[n] = m.at /\ (m.name = Nothing \/ n # m.name) THEN {}
    ELSE {[c EXCEPT !.bots = With(@, IF m.name # Nothing THEN m.name ELSE Head(free), m.at)]}

RemoveBot(c, m) ==
    IF m.name \in DOMAIN c.bots THEN {[c EXCEPT !.bots = Without(@, m.name)]} ELSE {}

(* A key is for any chat, or for the chat of an alias.                      *)
AddKey(c, m) ==
    IF m.name \in c.keys \/ m.alias \notin DOMAIN c.chats \cup {Nothing} THEN {}
    ELSE {[c EXCEPT !.keys = @ \cup {m.name}]}

RemoveKey(c, m) == IF m.name \in c.keys THEN {[c EXCEPT !.keys = @ \ {m.name}]} ELSE {}

Results(c, m) ==
    CASE m.kind = "chat set" -> SetChat(c, m, Bound(c, m))
      [] m.kind = "chat add" -> SetChat(c, m, m.bot)
      [] m.kind = "chat find" -> FindChat(c, m)
      [] m.kind = "chat rm" -> RemoveChat(c, m)
      [] m.kind \in {"import", "import all"} -> Import(c, m)
      [] m.kind = "bot add" -> AddBot(c, m)
      [] m.kind = "bot rm" -> RemoveBot(c, m)
      [] m.kind = "key add" -> AddKey(c, m)
      [] m.kind = "key rm" -> RemoveKey(c, m)

-----------------------------------------------------------------------------
(* Reading and writing in place                                            *)

Goto(p, a) == stage' = [stage EXCEPT ![p] = a]

Lists(p) == task[p].kind \in {"chat find", "import"}

(* The chats are listed before the file is read to be changed.             *)
List(p) ==
    /\ stage[p] = "new" /\ Lists(p)
    /\ Goto(p, "listed") \/ Goto(p, "failed")
    /\ late' = [late EXCEPT ![p] = {}]
    /\ UNCHANGED <<task, content, cut, look, draft, orphan, whole, blurred, deaths>>

(* LoadMinimal; an empty file is an empty configuration.                   *)
LoadMinimal(p) ==
    /\ stage[p] = IF Lists(p) THEN "listed" ELSE "new"
    /\ task[p].kind # "edit"
    /\ IF content = Garbled
       THEN Goto(p, "failed") /\ UNCHANGED look
       ELSE Goto(p, "loaded") /\ look' = [look EXCEPT ![p] = content]
    /\ late' = IF Lists(p) THEN late ELSE [late EXCEPT ![p] = {}]
    /\ blurred' = [blurred EXCEPT ![p] = cut]
    /\ UNCHANGED <<task, content, cut, draft, orphan, whole, deaths>>

(* SaveConfig truncates the file ...                                       *)
SaveConfig(p) ==
    /\ stage[p] = "loaded"
    /\ IF Results(look[p], task[p]) = {}
       THEN Goto(p, "failed") /\ UNCHANGED <<content, cut, draft>>
       ELSE /\ \E c \in Results(look[p], task[p]) :
                   draft' = [draft EXCEPT ![p] = [c EXCEPT !.has = @ \cup {p}]]
            /\ Goto(p, "writing")
            /\ content' = Empty /\ cut' = TRUE
    /\ UNCHANGED <<task, look, orphan, whole, late, blurred, deaths>>

(* ... and writes it.  Over what another process wrote meanwhile it may    *)
(* leave the end of that.                                                  *)
Write(p) ==
    /\ stage[p] = "writing"
    /\ Goto(p, "done")
    /\ IF p \in orphan THEN UNCHANGED <<content, cut, whole, late>>
       ELSE /\ content' \in IF cut THEN {draft[p]} ELSE {draft[p], Garbled}
            /\ cut' = FALSE
            /\ whole' = draft[p]
            /\ late' = [q \in Procs |-> IF q = p THEN late[q] ELSE late[q] \cup {p}]
    /\ UNCHANGED <<task, look, draft, orphan, blurred, deaths>>

Die(p) ==
    /\ stage[p] = "writing" /\ deaths < MaxDeaths
    /\ Goto(p, "failed")
    /\ deaths' = deaths + 1
    /\ UNCHANGED <<task, content, cut, look, draft, orphan, whole, late, blurred>>

-----------------------------------------------------------------------------
(* edit                                                                    *)

OpenEditor(p) ==
    /\ stage[p] = "new" /\ task[p].kind = "edit"
    /\ look' = [look EXCEPT ![p] = content]
    /\ late' = [late EXCEPT ![p] = {}]
    /\ Goto(p, "editing")
    /\ UNCHANGED <<task, content, cut, draft, orphan, whole, blurred, deaths>>

(* ValidateConfig; an invalid text is edited again or discarded.           *)
ValidText(c) ==
    /\ OneDefault(c.chats)
    /\ \A a \in DOMAIN c.chats : c.chats[a].bot \in DOMAIN c.bots \cup {Nothing}

Changes(c) == IF c = Garbled THEN {} ELSE c.has

Edited(p) ==
    /\ stage[p] = "editing"
    /\ \/ Goto(p, "failed") /\ UNCHANGED draft    \* no change, or discarded
       \/ \E c \in Edits(look[p]) \ {look[p]} :
              /\ draft' = [draft EXCEPT ![p] =
                     [chats |-> c.chats, bots |-> c.bots, keys |-> c.keys,
                      has |-> Changes(look[p]) \cup {p}]]
              /\ Goto(p, IF ValidText(c) THEN "check" ELSE "editing")
    /\ late' = [late EXCEPT ![p] = {}]
    /\ UNCHANGED <<task, content, cut, look, orphan, whole, blurred, deaths>>

\* MUTANT: the file is compared with what was edited, not what was read.
NeverChanged(p) == TRUE

Unchanged(p) == content = look[p]

Check(p) ==
    /\ stage[p] = "check"
    /\ Goto(p, IF Unchanged(p) THEN "replace" ELSE "failed")
    /\ blurred' = [blurred EXCEPT ![p] = cut \/ content = Garbled]
    /\ UNCHANGED <<task, content, cut, look, draft, orphan, whole, late, deaths>>

(* Written in place where the directory does not allow another file.       *)
Replace(p) ==
    /\ stage[p] = "replace"
    /\ \/ /\ Goto(p, "done")
          /\ content' = draft[p] /\ cut' = FALSE
          /\ whole' = draft[p]
          /\ orphan' = {q \in Procs : stage[q] = "writing"}
          /\ late' = [q \in Procs |-> IF q = p THEN late[q] ELSE late[q] \cup {p}]
       \/ /\ Goto(p, "writing")
          /\ content' = Empty /\ cut' = TRUE
          /\ UNCHANGED <<whole, orphan, late>>
       \/ Goto(p, "failed") /\ UNCHANGED <<content, cut, whole, orphan, late>>
    /\ UNCHANGED <<task, look, draft, blurred, deaths>>

Step(p) ==
    \/ List(p) \/ LoadMinimal(p) \/ SaveConfig(p) \/ Write(p) \/ Die(p)
    \/ OpenEditor(p) \/ Edited(p) \/ Check(p) \/ Replace(p)

FileNext == \E p \in Procs : Step(p)

FileSpec == FileInit /\ [][FileNext]_fileVars

-----------------------------------------------------------------------------
(* Whatever commands run side by side and are killed, a file that parses   *)
(* has at most one default chat and no bot twice, though the commands that *)
(* look for these look at the file before others have written it.  Bots    *)
(* are not compared when a text is edited by hand, so that a file which    *)
(* contains such a text may have one twice.                                *)
FileIsSound ==
    content # Garbled =>
        /\ OneDefault(content.chats)
        /\ NoBotTwice(content.bots) \/ \E p \in content.has : task[p].kind = "edit"

(* These save what they read before they asked BotX.                       *)
WaitsAfterLook(m) == m.kind = "import all" \/ (m.kind = "bot add" /\ m.exchange)

(* A write undoes another command's change only if that was written after  *)
(* the writer last waited for BotX or for its user, hence within the       *)
(* moment of its own reading and writing: by the command itself, or by one *)
(* that had read it and brought it back.  It may undo others if the writer *)
(* had found the file half written or garbled.  What is changed while a    *)
(* user edits is never lost to the edit.                                   *)
WaitLosesNothing ==
    [][\A p \in Procs : whole' # whole /\ stage[p] # "done" /\ stage'[p] = "done" =>
           \/ WaitsAfterLook(task[p]) \/ blurred[p]
           \/ whole.has \ whole'.has \subseteq UNION {draft[q].has : q \in late[p]}]_fileVars
=============================================================================
