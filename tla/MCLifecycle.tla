----------------------------- MODULE MCLifecycle -----------------------------
(* Two bots with secrets; a rule in the background for commands, then one  *)
(* within the request and one in the background for everything.            *)
(*   q1  a command of b1               q2  b1's token, a command of b2     *)
(*   q3  a notification of b2          q4  not well formed                 *)
(*   q5  a command of b1, too late     q6  signed with b1's secret as b2   *)
EXTENDS ServerLifecycle, TLC

CONSTANTS q1, q2, q3, q4, q5, q6, b1, b2

MCKeyOf == (1 :> 1) @@ (2 :> 2)

MCRules == << [events |-> {"message"}, async |-> TRUE],
              [events |-> {"*"}, async |-> FALSE],
              [events |-> {"*"}, async |-> TRUE] >>

From(k, e, a, s, b) ==
    [kind |-> k, event |-> e, aud |-> a, signer |-> s, bot |-> b,
     inTime |-> TRUE, wellFormed |-> TRUE]

MCReq ==
    (q1 :> From("command", "message", b1, b1, b1)) @@
    (q2 :> From("command", "message", b1, b1, b2)) @@
    (q3 :> From("notification", "notification", b2, b2, None)) @@
    (q4 :> [From("command", "message", b1, b1, b1) EXCEPT !.wellFormed = FALSE]) @@
    (q5 :> [From("command", "message", b1, b1, b1) EXCEPT !.inTime = FALSE]) @@
    (q6 :> From("command", "message", b2, b1, b2))
=============================================================================
