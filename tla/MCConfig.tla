------------------------------- MODULE MCConfig -------------------------------
(* One process runs a command on chats, one an import, an edit or nothing  *)
(* but a search, one a command on bots or keys, or an edit of its own.     *)
EXTENDS ConfigFile

CONSTANTS p1, p2, p3, c1, c2, c3, x, y, z, hx, hz

A == <<"a", 1>>
B == <<"b", 1>>
Chat(i, b, d) == [id |-> i, bot |-> b, default |-> d]
MCOriginal ==
    [chats |-> (A :> Chat(c1, x, TRUE)) @@ (B :> Chat(c2, Nothing, FALSE)),
     bots |-> x :> hx, keys |-> {"k"}, has |-> {}]

MCBotNames == <<x, z>>

M == [kind |-> "edit", alias |-> A, name |-> Nothing, id |-> c3, bot |-> Nothing,
      default |-> "keep", conflict |-> "fail", listed |-> <<>>, at |-> Nothing, exchange |-> FALSE]
K(k) == [M EXCEPT !.kind = k]
L(i, n, b) == [id |-> i, name |-> n, bot |-> b]

OnChats ==
    {[K("chat set") EXCEPT !.alias = B, !.default = "set"],
     [K("chat set") EXCEPT !.default = "unset"],
     [K("chat add") EXCEPT !.alias = B, !.default = "set"],
     [K("chat add") EXCEPT !.default = "keep"],
     K("chat rm")}
Slow ==
    {[K("chat find") EXCEPT !.alias = Nothing, !.name = "b", !.default = "set"],
     [K("chat find") EXCEPT !.alias = Nothing, !.id = c2, !.default = "keep", !.bot = x],
     [K("import") EXCEPT !.listed = <<L(c1, "a", Nothing), L(c3, "a", Nothing)>>],
     [K("import") EXCEPT !.listed = <<L(c3, "a", Nothing), L(c1, "d", Nothing)>>, !.conflict = "overwrite"],
     [K("import") EXCEPT !.listed = <<L(c3, "d", Nothing), L(c3, "a", Nothing)>>, !.conflict = "skip"],
     [K("import all") EXCEPT !.listed = <<L(c3, "a", x), L(c2, "b", x)>>],
     M}
OnBots ==
    {[K("bot add") EXCEPT !.at = hz],
     [K("bot add") EXCEPT !.at = hx, !.name = y],
     [K("bot add") EXCEPT !.at = hz, !.name = x, !.exchange = TRUE],
     [K("bot rm") EXCEPT !.name = x],
     [K("key add") EXCEPT !.name = "l"],
     [K("key add") EXCEPT !.name = "l", !.alias = Nothing],
     [K("key rm") EXCEPT !.name = "k"],
     M}

MCTasks == [p \in Procs |-> CASE p = p1 -> OnChats [] p = p2 -> Slow [] p = p3 -> OnBots]

(* Another default, the default moved, and the first chat unbound.         *)
MCEdits(c) ==
    IF c = Garbled THEN {MCOriginal}
    ELSE {[c EXCEPT !.chats = [a \in DOMAIN @ |-> [@[a] EXCEPT !.default = TRUE]]],
          [c EXCEPT !.chats = [a \in DOMAIN @ |-> [@[a] EXCEPT !.default = a = B]]]}
=============================================================================
