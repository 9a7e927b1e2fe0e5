------------------------------ MODULE MCSyncSend ------------------------------
(* A server of one nameless bot, of one named bot x, and of two bots; chat *)
(* alias a1 is c1 bound to bot x, a2 is c2 bound to none.  Bot y has a     *)
(* static token.                                                           *)
(*   r1  /send to a1 and c2, a key for both chats                          *)
(*   r2  a webhook to a1 and a2 with a key for c1 only: refused            *)
(*   r3  a webhook without a chat, no scope                                *)
(*   r4  signed by bot y, to a1 and a2: the first is bound to x            *)
(*   r5  without credentials, r6 not well formed                           *)
EXTENDS SyncSend, TLC

CONSTANTS r1, r2, r3, r4, r5, r6, c1, c2, a1, a2, x, y

Key(S)  == [kind |-> "key", bot |-> None, scope |-> S]
Sign(b) == [kind |-> "signature", bot |-> b, scope |-> {}]
NoCred  == [kind |-> "none", bot |-> None, scope |-> {}]
Plain(k, ts, b, c) ==
    [kind |-> k, targets |-> ts, bot |-> b, cred |-> c, wellFormed |-> TRUE]

MCReq ==
    (r1 :> Plain("send", <<a1, c2>>, None, Key({c1, c2}))) @@
    (r2 :> Plain("hook", <<a1, a2>>, None, Key({c1}))) @@
    (r3 :> Plain("hook", <<>>, None, Key({}))) @@
    (r4 :> Plain("send", <<a1, a2>>, None, Sign(y))) @@
    (r5 :> Plain("send", <<a1>>, None, NoCred)) @@
    (r6 :> [Plain("send", <<a1>>, None, Key({})) EXCEPT !.wellFormed = FALSE])

MCChats == (a1 :> [id |-> c1, bot |-> x]) @@ (a2 :> [id |-> c2, bot |-> None])
MCDefault == [send |-> None, hook |-> None, fallback |-> a2]
MCServers == {[names |-> {}, sender |-> x, single |-> None],
              [names |-> {}, sender |-> x, single |-> x],
              [names |-> {x, y}, sender |-> x, single |-> None]}
=============================================================================
