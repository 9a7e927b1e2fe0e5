-------------------------------- MODULE MCCli --------------------------------
(* Bots x (a secret) and y (a static token), chats a1 of x, a2 of y and a3 *)
(* of none, the default.  "send" runs with one bot or both, "enqueue" with *)
(* a cache file that moves a1 to another chat and bot and drops a2; the    *)
(* other kinds load every file from every environment with every flag.     *)
EXTENDS Cli

CONSTANTS c1, c2, b1, b2, h1, h2, s1, s2, t1, t2, x, y, a1, a2, a3

X == [host |-> h1, id |-> b1, secret |-> s1, token |-> None]
Y == [host |-> h2, id |-> b2, secret |-> None, token |-> t1]
Bare == [host |-> h1, id |-> b1, secret |-> None, token |-> None]
Twice == [Y EXCEPT !.secret = s1]
SameId == [Y EXCEPT !.id = b1]

Chat(i, b, d) == [id |-> i, bot |-> b, default |-> d]
Chats == (a1 :> Chat(c1, x, FALSE)) @@ (a2 :> Chat(c2, y, FALSE))
             @@ (a3 :> Chat(c2, None, TRUE))
OneChat  == a1 :> Chat(c1, y, FALSE)
TwoFirst == (a1 :> Chat(c1, x, TRUE)) @@ (a2 :> Chat(None, y, TRUE))
NoId     == (a1 :> Chat(None, x, TRUE)) @@ (a2 :> Chat(c2, y, FALSE))

File(b, c) == [bots |-> b, chats |-> c]
Two == (x :> X) @@ (y :> Y)
Files ==
    {File(b, c) : b \in {<<>>, x :> X, x :> Y, x :> Bare, x :> Twice, Two,
                         (x :> X) @@ (y :> SameId)},
                  c \in {OneChat, Chats}}
    \cup {File(Two, TwoFirst), File(Two, NoId), File(<<>>, <<>>)}

NoEnv == NoBot
Envs == [host : {None, h2}, id : {None, b2}, secret : {None, s2}, token : {None, t2}]
Flags(h, i, s, t, b, ch) ==
    [host |-> h, id |-> i, secret |-> s, token |-> t, bot |-> b, chats |-> ch]
NoFlags(b, ch) == Flags(None, None, None, None, b, ch)
FlagSets ==
    {Flags(h, i, s, t, b, ch) :
        h \in {None, h1}, i \in {None, b1}, s \in {None, s1}, t \in {None, t1},
        b \in {None, x, y}, ch \in {<<>>, <<a1>>, <<a1, a2>>}}

Loads == [kind : {"user", "serve", "api", "manual", "worker", "producer"}, mode : {None},
          config : Files, env : Envs, flags : FlagSets]

Sends ==
    [kind : {"send"}, mode : {None}, env : {NoEnv},
     config : {File(Two, Chats), File(x :> X, Chats),
               File((x :> X) @@ (y :> Bare), Chats), File(x :> X, NoId)},
     flags : {NoFlags(b, ch) : b \in {None, x},
                 ch \in {<<>>, <<a1, a2, a1>>, <<a1, c2, a2>>, <<a3, a1>>}}]

Enqueues ==
    [kind : {"enqueue"}, mode : {"direct", "mixed", "catalog"}, env : {NoEnv},
     config : {File(<<>>, <<>>)},
     flags : {Flags(None, i, None, None, b, ch) : i \in {None, b1, y}, b \in {None, x},
                 ch \in {<<>>, <<a1, a2>>, <<c1, a1, c2>>}}]

MCCommands == Loads \cup Sends \cup Enqueues

Entry(h, i) == [host |-> h, id |-> i]
Snap(r, b, c) == [rev |-> r, bots |-> b, chats |-> c]
MCSnapshots ==
    {Snap(1, (x :> Entry(h1, b1)) @@ (y :> Entry(h2, b2)),
             (a1 :> [id |-> c1, bot |-> x]) @@ (a2 :> [id |-> c2, bot |-> y])),
     Snap(2, (x :> Entry(h2, b2)) @@ (y :> Entry(h1, b1)),
             (a1 :> [id |-> c2, bot |-> y]) @@ (a2 :> [id |-> c1, bot |-> x])),
     Snap(3, x :> Entry(h1, b1), a1 :> [id |-> c1, bot |-> None])}
=============================================================================
