------------------------------- MODULE MCRabbit -------------------------------
(* Small RabbitMQ deployments: bot b1 has a secret, bot b2 a static token; *)
(* message m1 goes to b1, m2 to b2, m3 to a bot the workers do not know,   *)
(* and the body of m4 does not decode.  A run takes some of the messages.  *)
EXTENDS RabbitWorker, TLC

CONSTANTS w1, w2, b1, b2, m1, m2, m3, m4

MCBotOf == [m \in Msgs |-> CASE m = m1 -> b1 [] m = m2 -> b2 [] OTHER -> NoBot]
=============================================================================
