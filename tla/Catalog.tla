------------------------------- MODULE Catalog -------------------------------
(***************************************************************************)
(* The routing catalog: workers publish snapshots of the bots and chats in *)
(* their configuration (internal/cmd/worker.go), the producer's HTTP       *)
(* server reads them from the broker (internal/queue/kafka/driver.go,      *)
(* internal/queue/rabbitmq/driver.go) into a cache in memory and on disk   *)
(* (internal/queue/catalog.go, internal/cmd/serve.go).                     *)
(*                                                                         *)
(* A snapshot is the version of the configuration it was built from.  A    *)
(* Kafka topic keeps the last entries; a RabbitMQ fanout exchange keeps    *)
(* none, so its reader sees what is published after it bound its queue.    *)
(* Snapshots that do not decode have no publisher here.                    *)
(***************************************************************************)
EXTENDS Integers, Sequences

CONSTANTS
    Publishers,      \* workers that publish the catalog
    MaxVersion,      \* bound: configurations rolled out
    MaxLog,          \* bound: entries the topic keeps
    Durable,         \* Kafka topic (TRUE) or RabbitMQ fanout (FALSE)
    MaxDisruptions   \* bound: restarts of the server, deaths of its reader

ASSUME CatalogAssumption ==
    /\ MaxVersion \in Nat \ {0}
    /\ MaxLog \in Nat \ {0}
    /\ Durable \in BOOLEAN
    /\ MaxDisruptions \in Nat

VARIABLES
    deployed,     \* the configuration being rolled out
    version,      \* the configuration each publisher was started with
    topic,        \* the snapshots the broker keeps, oldest first
    feed,         \* the catalog consumer goroutine of the server
    start,        \* where its reader starts
    next,         \* the entry it reads next
    mem,          \* CatalogCache.snapshot
    disk,         \* the cache file
    disruptions

brokerVars  == <<deployed, version, topic>>
feedVars    == <<feed, start, next>>
cacheVars   == <<mem, disk>>
catalogVars == <<brokerVars, feedVars, cacheVars, disruptions>>

NoSnapshot == 0
Snapshot   == 1..MaxVersion

(* seek: about to look at the topic; attach: the reader is being opened;   *)
(* dead: ConsumeCatalog returned, or the consumer could not be created.    *)
Feed  == {"seek", "attach", "on", "dead"}
Start == {"first", "last", "end"}

CatalogTypeOK ==
    /\ deployed \in Snapshot
    /\ version \in [Publishers -> Snapshot]
    /\ topic \in Seq(Snapshot) /\ Len(topic) <= MaxLog
    /\ feed \in Feed
    /\ start \in Start
    /\ next \in 1..Len(topic) + 1
    /\ mem \in Snapshot \cup {NoSnapshot}
    /\ disk \in Snapshot \cup {NoSnapshot}
    /\ disruptions \in 0..MaxDisruptions

CatalogInit ==
    /\ deployed = 1
    /\ version = [w \in Publishers |-> 1]
    /\ topic = <<>>
    /\ feed = "seek"
    /\ start = "end"
    /\ next = 1
    /\ mem = NoSnapshot
    /\ disk = NoSnapshot
    /\ disruptions = 0

Disrupt ==
    /\ disruptions < MaxDisruptions
    /\ disruptions' = disruptions + 1

-----------------------------------------------------------------------------
(* The publishers.                                                         *)

(* A new configuration is rolled out: the workers are restarted with it    *)
(* one after the other, and go on publishing the old one until then.       *)
Deploy ==
    /\ deployed < MaxVersion
    /\ deployed' = deployed + 1
    /\ UNCHANGED <<version, topic, feedVars, cacheVars, disruptions>>

Restart(w) ==
    /\ version[w] # deployed
    /\ version' = [version EXCEPT ![w] = deployed]
    /\ UNCHANGED <<deployed, topic, feedVars, cacheVars, disruptions>>

(* At the start and on every tick.  A publication that fails is logged and *)
(* changes nothing.                                                        *)
Publish(w) ==
    /\ IF Len(topic) < MaxLog
       THEN /\ topic' = Append(topic, version[w])
            /\ UNCHANGED next
       ELSE /\ topic' = Append(Tail(topic), version[w])
            /\ next' = IF next = 1 THEN 1 ELSE next - 1
    /\ UNCHANGED <<deployed, version, feed, start, cacheVars, disruptions>>

-----------------------------------------------------------------------------
(* The server's consumer and cache.                                        *)

EndOffset  == Len(topic)
LastOffset == EndOffset + 1   \* LastOffset means the end: the next entry

\* MUTANT: the end offset itself, not the one before it.
AtTheEnd == EndOffset + 1

(* ConsumeCatalog looks for the last snapshot: the end of an empty or      *)
(* unreachable topic, the beginning when the offsets cannot be read.       *)
LatestSnapshot == EndOffset   \* endOffset-1, counted from 1

Seek ==
    /\ feed = "seek"
    /\ feed' = "attach"
    /\ \/ start' = "end" /\ UNCHANGED next
       \/ Durable /\ start' = "first" /\ next' = 1
       \/ Durable /\ EndOffset > 0 /\ start' = "last" /\ next' = LatestSnapshot
    /\ UNCHANGED <<brokerVars, cacheVars, disruptions>>

(* The end is where the topic ends when the reader gets there.             *)
Attach ==
    /\ feed = "attach"
    /\ feed' = "on"
    /\ IF start = "end" THEN next' = LastOffset ELSE UNCHANGED next
    /\ UNCHANGED <<brokerVars, start, cacheVars, disruptions>>

\* MUTANT: a snapshot is stored only while there is none.
UpdateOnce(snap) ==
    /\ mem' = IF mem = NoSnapshot THEN snap ELSE mem
    /\ disk' \in {snap, disk}

(* Update; saveToDisk may fail, which is logged.                           *)
Update(snap) ==
    /\ mem' = snap
    /\ disk' \in {snap, disk}

Consume ==
    /\ feed = "on"
    /\ next <= EndOffset
    /\ Update(topic[next])
    /\ next' = next + 1
    /\ UNCHANGED <<brokerVars, feed, start, disruptions>>

(* A read error, or a closed channel: nothing starts the goroutine again.  *)
FeedDies ==
    /\ feed # "dead"
    /\ Disrupt
    /\ feed' = "dead"
    /\ UNCHANGED <<brokerVars, start, next, cacheVars>>

(* A restarted server begins with what is on disk, if it can be read.      *)
RestartServer ==
    /\ Disrupt
    /\ feed' \in {"seek", "dead"}
    /\ mem' \in {disk, NoSnapshot}
    /\ UNCHANGED <<brokerVars, start, next, disk>>

CatalogStep ==
    \/ Deploy
    \/ \E w \in Publishers : Restart(w) \/ Publish(w)
    \/ Seek \/ Attach \/ Consume
    \/ FeedDies \/ RestartServer

(* Roll-outs end, some publications succeed, the reader's goroutine runs.  *)
CatalogFairness ==
    /\ \A w \in Publishers : WF_catalogVars(Restart(w)) /\ WF_catalogVars(Publish(w))
    /\ WF_catalogVars(Seek) /\ WF_catalogVars(Attach) /\ WF_catalogVars(Consume)

CatalogSpec == CatalogInit /\ [][CatalogStep]_catalogVars
CatalogFairSpec == CatalogSpec /\ CatalogFairness

-----------------------------------------------------------------------------
(* A reader that started at or before the last snapshot and has read what  *)
(* there is has the latest one in the cache, whatever was published while  *)
(* it was looking for its place (kafka/driver.go:212-240).                 *)
CaughtUp ==
    feed = "on" /\ start # "end" /\ EndOffset > 0 /\ next > EndOffset
        => mem = topic[EndOffset]

(* Unless its consumer is gone, the server ends up with the configuration  *)
(* last rolled out, though old workers overwrite newer snapshots on the    *)
(* way and it may have started from an old file or missed the first ones.  *)
EventuallyCurrent ==
    <>[](feed # "dead") => <>[](mem = deployed)
=============================================================================
