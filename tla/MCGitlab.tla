------------------------------- MODULE MCGitlab -------------------------------
(* Every sender of up to two chats and one route of up to two, over tables *)
(* where two aliases are of different chats, of one chat and two bots, of  *)
(* one chat with one bot, where one has no id, and where one is a secret;  *)
(* and senders of three routes with every kind of pattern.                 *)
EXTENDS Gitlab

CONSTANTS c1, c2, a1, a2, zz, x, y, s1, s2, l1, l2

Chat(i, b) == [id |-> i, bot |-> b, hidden |-> FALSE]
Hide(c) == [c EXCEPT !.hidden = TRUE]
Tables == {(a1 :> Chat(c1, x)) @@ (a2 :> c) :
              c \in {Chat(c2, y), Chat(c1, y), Chat(c1, x), Chat(c1, Missing),
                     Chat(Missing, x), Hide(Chat(c1, y)), Hide(Chat(c2, x))}}

Route(m, ch, st) == [match |-> m, chats |-> ch, stop |-> st]
SomeSender(ch, rs) ==
    [name |-> Missing, secret |-> s1, literal |-> l1, chats |-> ch, routes |-> rs,
     only |-> {}, exclude |-> {}, templates |-> {}, broken |-> {}, failing |-> {},
     blank |-> {}]

Refs(n) == UNION {[1..k -> {a1, a2, c1, zz}] : k \in 0..n}
Broad ==
    {[chats |-> t, several |-> b.several, multi |-> b.multi,
      senders |-> <<SomeSender(ch, rs)>>] :
        t \in Tables,
        b \in {[several |-> FALSE, multi |-> FALSE], [several |-> TRUE, multi |-> FALSE],
               [several |-> TRUE, multi |-> TRUE]},
        ch \in Refs(2),
        rs \in {<<>>} \cup {<<Route(<<>>, r, FALSE)>> : r \in Refs(2)}}

Key(k, s) == [kind |-> k, sub |-> s]
Glob(parts) == [regex |-> FALSE, parts |-> parts, values |-> {}]
Regex(vs) == [regex |-> TRUE, parts |-> <<>>, values |-> vs]
ab == <<"a", "/", "b">>
aab == <<"a", "a", "/", "b", "b">>
On(sel, pats) == [k \in {sel} |-> pats]

(* a*, a*b, *a*b*, b alone; a first rule on the event that may stop; a     *)
(* template that is blank, and one that fails for the events it is for.    *)
Rich ==
    {[chats |-> t, several |-> TRUE, multi |-> TRUE,
      senders |-> <<[SomeSender(ch, <<Route(On("event", {Key("pipeline", AnySub), Key("push", Missing)}), <<a1>>, st),
                                      Route(On("branch", {Glob(g)}), <<a2, a1>>, FALSE),
                                      Route(On("labels", {Regex({"bug"})}), <<a2>>, TRUE)>>)
                       EXCEPT !.exclude = {Key("issue", "close")},
                              !.templates = {Key("issue", AnySub), Key("pipeline", "failed"),
                                             Key("merge_request", AnySub), Key("build", Missing)},
                              !.blank = {Key("pipeline", "failed"), Key("merge_request", Missing)},
                              !.failing = {Key("build", Missing)}],
                    [SomeSender(<<a1>>, <<>>) EXCEPT !.secret = two, !.literal = l2, !.name = nm,
                        !.only = {Key("note", Missing)}]>>] :
        t \in Tables, st \in BOOLEAN, ch \in {<<>>, <<a1>>, <<a1, a2>>, <<a2, a1>>},
        two \in {s1, s2, Missing}, nm \in {Missing, "two"},
        g \in {<<ab>>, <<<<"a">>, <<>>>>, <<<<"a">>, <<"b">>>>,
               <<<<>>, <<"a">>, <<"b">>, <<>>>>, <<<<"a">>, <<"a">>, <<"a">>>>}}

Wrong ==
    {[chats |-> a1 :> Chat(c1, x), several |-> FALSE, multi |-> FALSE, senders |-> ss] :
        ss \in {<<>>, <<SomeSender(<<a1>>, <<>>), SomeSender(<<a1>>, <<>>)>>,
                <<[SomeSender(<<a1>>, <<>>) EXCEPT
                     !.templates = {Key("push", Missing), Key("push", AnySub)}]>>,
                <<[SomeSender(<<a1>>, <<>>) EXCEPT !.templates = {Key("push", Missing)},
                     !.broken = {Key("push", Missing)}]>>}}

MCConfs == Broad \cup Rich \cup Wrong

Event(k) ==
    [kind |-> k, action |-> Missing, noteable |-> Missing, status |-> Missing, build |-> Missing,
     top |-> Missing, target |-> Missing, mrTarget |-> Missing, ref |-> Missing, oaRef |-> Missing,
     labels |-> {}]
MCPayloads ==
    {[Event("push") EXCEPT !.ref = ab],
     [Event("pipeline") EXCEPT !.status = "failed", !.oaRef = aab],
     [Event("pipeline") EXCEPT !.status = "success", !.oaRef = aab],
     [Event("issue") EXCEPT !.action = "open", !.labels = {"bug", "ui"}],
     [Event("issue") EXCEPT !.action = "close"],
     [Event("note") EXCEPT !.noteable = "MergeRequest", !.mrTarget = ab],
     [Event("merge_request") EXCEPT !.action = "open", !.target = aab],
     [Event("build") EXCEPT !.build = "failed", !.ref = <<"b">>],
     [Event("deployment") EXCEPT !.top = "running"]}
MCQueries == {Missing, <<>>, <<a1>>, <<a2, a1>>, <<c1, a1>>, <<a2, c2>>, <<zz>>}
=============================================================================
