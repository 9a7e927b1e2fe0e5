------------------------------- MODULE MCKafka -------------------------------
(* Small Kafka deployments: bot b1 has a secret, bot b2 a static token;    *)
(* message m1 goes to b1, m2 to a bot the workers do not know, m3 to b2,   *)
(* and the body of m4 does not decode.  A run takes some of the messages.  *)
EXTENDS KafkaWorker, TLC

CONSTANTS w1, w2, b1, b2, m1, m2, m3, m4

MCBotOf == [m \in Msgs |-> CASE m = m1 -> b1 [] m = m3 -> b2 [] OTHER -> NoBot]
=============================================================================
