------------------------------- MODULE MCAsync -------------------------------
(* One worker rolls out a second configuration in which alias a1 names     *)
(* another chat with another bot, a2 is new, and bot x is another bot.     *)
(* A run takes some of the requests:                                       *)
(*   r1  two targets through the catalog, key restricted to chat c1        *)
(*   r2  an alias and a UUID with an explicit bot alias, key unrestricted  *)
(*   r3  direct                                                            *)
(*   r4  two aliases, key restricted to a chat nobody names                *)
(*   r5  a UUID outside the key's scope                                    *)
(*   r6  a UUID without a bot                                              *)
EXTENDS AsyncSend, TLC

CONSTANTS w1, r1, r2, r3, r4, r5, r6, c1, c2, c3, a1, a2, x, y, B1, B2

MCReq ==
    (r1 :> [mode |-> "mixed", botID |-> None, bot |-> None,
            targets |-> <<a1, a2>>, scope |-> {c1}]) @@
    (r2 :> [mode |-> "catalog", botID |-> None, bot |-> x,
            targets |-> <<a1, c3>>, scope |-> {}]) @@
    (r3 :> [mode |-> "direct", botID |-> B1, bot |-> None,
            targets |-> <<c1>>, scope |-> {c1}]) @@
    (r4 :> [mode |-> "mixed", botID |-> x, bot |-> None,
            targets |-> <<a1, a2>>, scope |-> {c3}]) @@
    (r5 :> [mode |-> "mixed", botID |-> B1, bot |-> None,
            targets |-> <<a1, c2>>, scope |-> {c1}]) @@
    (r6 :> [mode |-> "mixed", botID |-> None, bot |-> None,
            targets |-> <<a1, c2>>, scope |-> {}])

MCChatsOf ==
    <<(a1 :> [chat |-> c1, bot |-> x]),
      (a1 :> [chat |-> c2, bot |-> y]) @@ (a2 :> [chat |-> c1, bot |-> None])>>

MCBotsOf == <<(x :> B1), (x :> B2) @@ (y :> B1)>>
=============================================================================
