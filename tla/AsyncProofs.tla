------------------------------ MODULE AsyncProofs ------------------------------
(***************************************************************************)
(* Theorems about Catalog (its types, and that a reader that has caught up *)
(* has put the last snapshot into the cache) and about AsyncSend on top of *)
(* it: types, the key's scope, one snapshot per message, the truth of the  *)
(* answers, and the refinement of Fanout.                                  *)
(***************************************************************************)
EXTENDS AsyncSend, TLAPS

(* A reader that is not waiting for the end has the last snapshot before   *)
(* it or behind it.                                                        *)
PlaceInv ==
    /\ CaughtUp
    /\ feed = "attach" /\ start # "end" /\ EndOffset > 0 => next <= EndOffset

CatalogInv == CatalogTypeOK /\ PlaceInv

(* The initial cache is empty, on an empty topic.                          *)
LEMMA CatalogInitInv == CatalogInit => CatalogInv
BY CatalogAssumption
DEF CatalogInit, CatalogInv, CatalogTypeOK, PlaceInv, CaughtUp, Snapshot,
    Feed, Start, NoSnapshot, EndOffset

(* What a publication does to the topic and to the reader's place in it:   *)
(* at least the published snapshot is still to be read.                    *)
LEMMA PublishedIsUnread ==
    ASSUME CatalogTypeOK, NEW w \in Publishers, Publish(w)
    PROVE  /\ topic' \in Seq(Snapshot)
           /\ Len(topic') \in 1..MaxLog
           /\ next' \in 1..Len(topic')
<1>1. version[w] \in Snapshot
  BY DEF CatalogTypeOK
<1>2. topic \in Seq(Snapshot) /\ Len(topic) \in Nat /\ Len(topic) <= MaxLog
      /\ MaxLog \in Nat \ {0} /\ next \in 1..Len(topic) + 1
  BY CatalogAssumption DEF CatalogTypeOK
<1>3. CASE Len(topic) < MaxLog
  <2>1. topic' = Append(topic, version[w]) /\ next' = next
    BY <1>3 DEF Publish
  <2>2. topic' \in Seq(Snapshot) /\ Len(topic') = Len(topic) + 1
    BY <2>1, <1>1, <1>2
  <2> QED
    BY <2>1, <2>2, <1>2, <1>3
<1>4. CASE ~(Len(topic) < MaxLog)
  <2>1. /\ topic' = Append(Tail(topic), version[w])
        /\ next' = IF next = 1 THEN 1 ELSE next - 1
    BY <1>4 DEF Publish
  <2>2. Len(topic) = MaxLog /\ topic # <<>>
    BY <1>2, <1>4
  <2>3. Tail(topic) \in Seq(Snapshot) /\ Len(Tail(topic)) = Len(topic) - 1
    BY <2>2, <1>2
  <2>4. topic' \in Seq(Snapshot) /\ Len(topic') = MaxLog
    BY <2>1, <2>2, <2>3, <1>1, <1>2
  <2> QED
    BY <2>1, <2>2, <2>4, <1>2
<1> QED
  BY <1>3, <1>4

(* Every step of publishers, reader and cache keeps the invariant.         *)
LEMMA CatalogStepInv ==
    ASSUME CatalogInv, CatalogStep
    PROVE  CatalogInv'
<1> USE DEF CatalogInv
<1>0. /\ Len(topic) \in Nat
      /\ MaxDisruptions \in Nat /\ MaxVersion \in Nat
      /\ next \in Nat /\ disruptions \in Nat
  BY CatalogAssumption DEF CatalogTypeOK
<1>1. CASE Deploy
  <2>1. deployed' \in Snapshot
    BY <1>1, <1>0 DEF Deploy, CatalogTypeOK, Snapshot
  <2> QED
    BY <1>1, <2>1 DEF Deploy, CatalogTypeOK, PlaceInv, CaughtUp, feedVars, cacheVars,
       EndOffset
<1>2. ASSUME NEW w \in Publishers, Restart(w)
      PROVE  CatalogInv'
  <2>1. version' \in [Publishers -> Snapshot]
    BY <1>2 DEF Restart, CatalogTypeOK
  <2> QED
    BY <1>2, <2>1 DEF Restart, CatalogTypeOK, PlaceInv, CaughtUp, feedVars, cacheVars,
       EndOffset
<1>3. ASSUME NEW w \in Publishers, Publish(w)
      PROVE  CatalogInv'
  <2>1. /\ topic' \in Seq(Snapshot)
        /\ Len(topic') \in 1..MaxLog
        /\ next' \in 1..Len(topic')
    BY <1>3, PublishedIsUnread
  <2>2. UNCHANGED <<deployed, version, feed, start, mem, disk, disruptions>>
    BY <1>3 DEF Publish, cacheVars
  <2>3. Len(topic') <= MaxLog /\ next' \in 1..Len(topic') + 1 /\ next' <= Len(topic')
    BY <2>1, CatalogAssumption
  <2>4. CatalogTypeOK'
    BY <2>1, <2>2, <2>3 DEF CatalogTypeOK
  <2>5. PlaceInv'
    BY <2>1, <2>3 DEF PlaceInv, CaughtUp, EndOffset
  <2> QED
    BY <2>4, <2>5
<1>4. CASE Seek
  BY <1>4, <1>0 DEF Seek, CatalogTypeOK, PlaceInv, CaughtUp, brokerVars, cacheVars,
     EndOffset, LatestSnapshot, Feed, Start
<1>5. CASE Attach
  BY <1>5, <1>0 DEF Attach, CatalogTypeOK, PlaceInv, CaughtUp, brokerVars, cacheVars,
     EndOffset, LastOffset, Feed, Start
<1>6. CASE Consume
  <2>1. next \in 1..Len(topic) /\ topic[next] \in Snapshot
    BY <1>6, <1>0 DEF Consume, CatalogTypeOK, EndOffset
  <2>2. mem' = topic[next] /\ disk' \in Snapshot \cup {NoSnapshot}
    BY <1>6, <2>1 DEF Consume, Update, CatalogTypeOK
  <2>3. next' = next + 1 /\ UNCHANGED <<deployed, version, topic, feed, start, disruptions>>
    BY <1>6 DEF Consume, brokerVars
  <2>4. CatalogTypeOK'
    BY <2>1, <2>2, <2>3, <1>0 DEF CatalogTypeOK
  <2>5. PlaceInv'
    BY <1>6, <1>0, <2>1, <2>2, <2>3 DEF Consume, PlaceInv, CaughtUp, EndOffset
  <2> QED
    BY <2>4, <2>5
<1>7. CASE FeedDies
  BY <1>7, <1>0 DEF FeedDies, Disrupt, CatalogTypeOK, PlaceInv, CaughtUp, brokerVars,
     cacheVars, EndOffset, Feed
<1>8. CASE RestartServer
  BY <1>8, <1>0 DEF RestartServer, Disrupt, CatalogTypeOK, PlaceInv, CaughtUp, brokerVars,
     EndOffset, Feed
<1> QED
  BY <1>1, <1>2, <1>3, <1>4, <1>5, <1>6, <1>7, <1>8 DEF CatalogStep

(* A step that leaves the catalog alone keeps the invariant.               *)
LEMMA CatalogStutterInv ==
    ASSUME CatalogInv, UNCHANGED catalogVars
    PROVE  CatalogInv'
BY DEF CatalogInv, CatalogTypeOK, PlaceInv, CaughtUp, EndOffset,
   catalogVars, brokerVars, feedVars, cacheVars

(* The catalog's invariant, for any publishers and any topic length.       *)
THEOREM CatalogInvariant == CatalogSpec => []CatalogInv
<1>1. CatalogInv /\ [CatalogStep]_catalogVars => CatalogInv'
  BY CatalogStepInv, CatalogStutterInv
<1> QED
  BY CatalogInitInv, <1>1, PTL DEF CatalogSpec

(* A reader that started at or before the last snapshot and has read all   *)
(* there is has the latest snapshot in the cache.                          *)
THEOREM CatchesUp == CatalogSpec => []CaughtUp
<1>1. CatalogInv => CaughtUp
  BY DEF CatalogInv, PlaceInv
<1> QED
  BY CatalogInvariant, <1>1, PTL

-----------------------------------------------------------------------------
(* A message about to be published goes where the snapshot its request     *)
(* holds says, and that is a chat of the key's scope.                      *)
RouteInv ==
    \A r \in Requests : at[r] = "publish" =>
        LET b == BotNamed(r, snap[r], Target(r))
        IN  /\ route[r].via = snap[r]
            /\ route[r].chat = ChatOf(snap[r], Target(r))
            /\ route[r].bot = BotOf(snap[r], b)
            /\ BotKnown(snap[r], b)
            /\ ChatAllowed(r, route[r].chat)

(* A request that has put something on the queue has an unrefused target   *)
(* among those behind it, and is past its arrival; one that was answered   *)
(* does nothing more.                                                      *)
CountInv ==
    \A r \in Requests :
        /\ at[r] = "new" => Stored(r) = {}
        /\ Stored(r) # {} => denied[r] + 1 < i[r]
        /\ answer[r] # "none" => at[r] = "done"

IInv ==
    /\ TypeOK
    /\ ScopeHeld
    /\ RoutedByOneSnapshot
    /\ AnswerIsTrue
    /\ RouteInv
    /\ CountInv

-----------------------------------------------------------------------------
LEMMA InitInv == Init => IInv
<1> SUFFICES ASSUME Init
             PROVE  IInv
  OBVIOUS
<1>1. CatalogTypeOK
  BY CatalogInitInv DEF Init, CatalogInv
<1>2. \A r \in Requests : Len(Req[r].targets) \in Nat
  BY AsyncAssumption
<1>3. TypeOK
  BY <1>1, <1>2 DEF Init, TypeOK, At, NoRoute, MoreToDo
<1>4. \A r \in Requests : Stored(r) = {}
  BY DEF Init, Stored
<1>5. ScopeHeld /\ RoutedByOneSnapshot
  BY DEF Init, ScopeHeld, RoutedByOneSnapshot
<1>6. AnswerIsTrue /\ RouteInv /\ CountInv
  BY <1>4 DEF Init, AnswerIsTrue, RouteInv, CountInv
<1> QED
  BY <1>3, <1>5, <1>6 DEF IInv

(* The target a request is at is one it may name.                          *)
LEMMA TargetNamed ==
    ASSUME TypeOK, NEW r \in Requests, MoreToDo(r)
    PROVE  Target(r) \in Name
<1>1. Req[r].targets \in Seq(Name) /\ i[r] \in 1..Len(Req[r].targets)
  BY AsyncAssumption DEF TypeOK, MoreToDo
<1> QED
  BY <1>1 DEF Target

(* Publishing, whatever becomes of it, adds at most the message of the     *)
(* request's target to the queue; what is there keeps to scope and         *)
(* snapshot, and nobody else's messages change.                            *)
LEMMA QueueGrows ==
    ASSUME IInv, NEW r \in Requests, at[r] = "publish",
           queue' \in {queue, queue \cup {MessageFor(r)}}
    PROVE  /\ queue' \subseteq Message
           /\ ScopeHeld'
           /\ RoutedByOneSnapshot'
           /\ \A q \in Requests : Stored(q) \subseteq Stored(q)'
           /\ \A q \in Requests : q # r => Stored(q)' = Stored(q)
<1>1. MessageFor(r) \in Message
  <2>1. Target(r) \in Name
    BY TargetNamed DEF IInv, TypeOK
  <2> QED
    BY <2>1 DEF IInv, TypeOK, MessageFor, Message
<1>2. /\ MessageFor(r).req = r
      /\ MessageFor(r).target = Target(r)
      /\ MessageFor(r).route = route[r]
  BY DEF MessageFor
<1>3. queue' \subseteq Message
  BY <1>1 DEF IInv, TypeOK
<1>4. ScopeHeld'
  BY <1>2 DEF IInv, ScopeHeld, RouteInv
<1>5. RoutedByOneSnapshot'
  BY <1>2 DEF IInv, RoutedByOneSnapshot, RouteInv
<1>6. \A q \in Requests : Stored(q) \subseteq Stored(q)'
  BY DEF Stored
<1>7. \A q \in Requests : q # r => Stored(q)' = Stored(q)
  BY <1>2 DEF Stored
<1> QED
  BY <1>3, <1>4, <1>5, <1>6, <1>7

(* A target that failed, before or at its publication, keeps the invariant *)
(* and leaves the request at the next target.                              *)
LEMMA FailInv ==
    ASSUME IInv, NEW r \in Requests, NEW e \in Error, Fail(r, e),
           at[r] \in {"look", "resolve", "publish"}, MoreToDo(r),
           UNCHANGED catalogVars,
           \/ queue' = queue
           \/ at[r] = "publish" /\ e = "other"
              /\ queue' \in {queue, queue \cup {MessageFor(r)}}
    PROVE  IInv'
<1>1. CatalogTypeOK'
  BY DEF IInv, TypeOK, CatalogTypeOK, catalogVars, brokerVars, feedVars, cacheVars,
     EndOffset
<1>2. Target(r) \in Name
  BY TargetNamed DEF IInv
<1>3. /\ i' = [i EXCEPT ![r] = @ + 1]
      /\ at' = [at EXCEPT ![r] = "look"]
      /\ snap' = [snap EXCEPT ![r] = NoSnapshot]
      /\ route' = [route EXCEPT ![r] = NoRoute]
      /\ errs' = [errs EXCEPT ![r] = @ \cup {<<Target(r), e>>}]
      /\ denied' = [denied EXCEPT ![r] = IF CountsAsDenied(r, e) THEN @ + 1 ELSE @]
      /\ UNCHANGED <<answer, results>>
  BY DEF Fail, NextTarget
<1>4. /\ queue' \subseteq Message
      /\ ScopeHeld'
      /\ RoutedByOneSnapshot'
      /\ \A q \in Requests : Stored(q) \subseteq Stored(q)'
      /\ \A q \in Requests : q # r => Stored(q)' = Stored(q)
  <2>1. CASE queue' = queue
    BY <2>1 DEF IInv, TypeOK, ScopeHeld, RoutedByOneSnapshot, Stored
  <2>2. CASE at[r] = "publish" /\ queue' \in {queue, queue \cup {MessageFor(r)}}
    BY <2>2, QueueGrows
  <2> QED
    BY <2>1, <2>2
<1>5. /\ i[r] \in Nat /\ denied[r] \in Nat /\ denied[r] < i[r]
      /\ i[r] <= Len(Req[r].targets) /\ Len(Req[r].targets) \in Nat
  BY AsyncAssumption DEF IInv, TypeOK, MoreToDo
<1>6. /\ i'[r] = i[r] + 1
      /\ denied'[r] \in {denied[r], denied[r] + 1}
      /\ e = "other" => denied'[r] = denied[r]
  BY <1>3 DEF IInv, TypeOK, CountsAsDenied
<1>7. TypeOK'
  <2>1. /\ at' \in [Requests -> At]
        /\ i' \in [Requests -> Nat \ {0}]
        /\ denied' \in [Requests -> Nat]
    BY <1>3, <1>5 DEF IInv, TypeOK, At
  <2>2. /\ snap' \in [Requests -> Snapshot \cup {NoSnapshot}]
        /\ route' \in [Requests -> Route \cup {NoRoute}]
        /\ results' \in [Requests -> SUBSET Name]
        /\ answer' \in [Requests ->
               {"none", "accepted", "forbidden", "invalid", "failed"}]
    BY <1>3 DEF IInv, TypeOK
  <2>3. errs' \in [Requests -> SUBSET (Name \X Error)]
    BY <1>2, <1>3 DEF IInv, TypeOK
  <2>4. ASSUME NEW q \in Requests
        PROVE  /\ i'[q] <= Len(Req[q].targets) + 1
               /\ at'[q] \in {"resolve", "publish"} => MoreToDo(q)'
               /\ at'[q] = "publish" => route'[q] \in Route
               /\ denied'[q] < i'[q]
    <3>1. CASE q = r
      <4>1. at'[r] = "look"
        BY <1>3 DEF IInv, TypeOK
      <4> QED
        BY <3>1, <4>1, <1>5, <1>6
    <3>2. CASE q # r
      BY <3>2, <1>3 DEF IInv, TypeOK, MoreToDo
    <3> QED
      BY <3>1, <3>2
  <2> QED
    BY <1>1, <1>4, <2>1, <2>2, <2>3, <2>4 DEF TypeOK
<1>8. RouteInv'
  BY <1>3 DEF IInv, TypeOK, RouteInv, Target
<1>9. answer[r] = "none"
  BY DEF IInv, CountInv
<1>10. AnswerIsTrue'
  BY <1>3, <1>4, <1>9 DEF IInv, AnswerIsTrue
<1>11. CountInv'
  <2> SUFFICES ASSUME NEW q \in Requests
               PROVE  /\ at'[q] = "new" => Stored(q)' = {}
                      /\ Stored(q)' # {} => denied'[q] + 1 < i'[q]
                      /\ answer'[q] # "none" => at'[q] = "done"
    BY DEF CountInv
  <2>1. CASE q # r
    BY <2>1, <1>3, <1>4 DEF IInv, TypeOK, CountInv
  <2>2. CASE q = r
    <3>1. at'[r] = "look"
      BY <1>3 DEF IInv, TypeOK
    <3>2. Stored(r)' # {} => denied'[r] + 1 < i'[r]
      <4>1. CASE e = "other"
        BY <4>1, <1>5, <1>6
      <4>2. CASE e # "other"
        <5>1. Stored(r)' = Stored(r)
          BY <4>2 DEF Stored
        <5> QED
          BY <5>1, <1>5, <1>6 DEF IInv, CountInv
      <4> QED
        BY <4>1, <4>2
    <3> QED
      BY <2>2, <3>1, <3>2, <1>3, <1>9
  <2> QED
    BY <2>1, <2>2
<1> QED
  BY <1>4, <1>7, <1>8, <1>10, <1>11 DEF IInv

(* An answer that says 403 or 400 only when nothing is on the queue keeps  *)
(* the invariant.                                                          *)
LEMMA RespondInv ==
    ASSUME IInv, NEW r \in Requests, at[r] # "done",
           NEW a \in {"accepted", "forbidden", "invalid", "failed"}, Respond(r, a),
           a \in {"forbidden", "invalid"} => Stored(r) = {},
           UNCHANGED catalogVars
    PROVE  IInv'
<1>1. CatalogTypeOK'
  BY DEF IInv, TypeOK, CatalogTypeOK, catalogVars, brokerVars, feedVars, cacheVars,
     EndOffset
<1>2. /\ at' = [at EXCEPT ![r] = "done"]
      /\ answer' = [answer EXCEPT ![r] = a]
      /\ UNCHANGED <<i, snap, route, results, errs, denied, queue>>
  BY DEF Respond
<1>3. TypeOK'
  <2>1. /\ at' \in [Requests -> At]
        /\ answer' \in [Requests ->
               {"none", "accepted", "forbidden", "invalid", "failed"}]
    BY <1>2 DEF IInv, TypeOK, At
  <2>2. \A q \in Requests : at'[q] \in {"resolve", "publish"} => at[q] = at'[q]
    BY <1>2 DEF IInv, TypeOK
  <2> QED
    BY <1>1, <1>2, <2>1, <2>2 DEF IInv, TypeOK, MoreToDo
<1>4. \A q \in Requests : Stored(q)' = Stored(q)
  BY <1>2 DEF Stored
<1>5. ScopeHeld' /\ RoutedByOneSnapshot'
  BY <1>2 DEF IInv, ScopeHeld, RoutedByOneSnapshot
<1>6. RouteInv'
  BY <1>2 DEF IInv, TypeOK, RouteInv, Target
<1>7. AnswerIsTrue'
  BY <1>2, <1>4 DEF IInv, TypeOK, AnswerIsTrue
<1>8. CountInv'
  BY <1>2, <1>4 DEF IInv, TypeOK, CountInv
<1> QED
  BY <1>3, <1>5, <1>6, <1>7, <1>8 DEF IInv

(* A request that goes on without failing, answering or publishing: it     *)
(* gets past its arrival, takes a snapshot, or is routed.                  *)
LEMMA AdvanceInv ==
    ASSUME IInv, NEW r \in Requests, at[r] # "done",
           NEW p \in {"look", "resolve", "publish"},
           at' = [at EXCEPT ![r] = p],
           snap' \in [Requests -> Snapshot \cup {NoSnapshot}],
           route' \in [Requests -> Route \cup {NoRoute}],
           \A q \in Requests \ {r} : snap'[q] = snap[q] /\ route'[q] = route[q],
           p # "look" => MoreToDo(r),
           p = "publish" =>
               LET b == BotNamed(r, snap'[r], Target(r))
               IN  /\ route'[r] \in Route
                   /\ route'[r].via = snap'[r]
                   /\ route'[r].chat = ChatOf(snap'[r], Target(r))
                   /\ route'[r].bot = BotOf(snap'[r], b)
                   /\ BotKnown(snap'[r], b)
                   /\ ChatAllowed(r, route'[r].chat),
           UNCHANGED <<catalogVars, i, results, errs, denied, answer, queue>>
    PROVE  IInv'
<1>1. CatalogTypeOK'
  BY DEF IInv, TypeOK, CatalogTypeOK, catalogVars, brokerVars, feedVars, cacheVars,
     EndOffset
<1>2. /\ at'[r] = p
      /\ \A q \in Requests \ {r} : at'[q] = at[q]
  BY DEF IInv, TypeOK
<1>3. TypeOK'
  <2>1. at' \in [Requests -> At]
    BY DEF IInv, TypeOK, At
  <2>2. ASSUME NEW q \in Requests
        PROVE  /\ i'[q] <= Len(Req[q].targets) + 1
               /\ at'[q] \in {"resolve", "publish"} => MoreToDo(q)'
               /\ at'[q] = "publish" => route'[q] \in Route
               /\ denied'[q] < i'[q]
    BY <1>2 DEF IInv, TypeOK, MoreToDo
  <2> QED
    BY <1>1, <2>1, <2>2 DEF IInv, TypeOK
<1>4. \A q \in Requests : Stored(q)' = Stored(q)
  BY DEF Stored
<1>5. ScopeHeld' /\ RoutedByOneSnapshot' /\ AnswerIsTrue'
  BY <1>4 DEF IInv, ScopeHeld, RoutedByOneSnapshot, AnswerIsTrue
<1>6. RouteInv'
  <2> SUFFICES ASSUME NEW q \in Requests, at'[q] = "publish"
               PROVE  LET b == BotNamed(q, snap'[q], Target(q))
                      IN  /\ route'[q].via = snap'[q]
                          /\ route'[q].chat = ChatOf(snap'[q], Target(q))
                          /\ route'[q].bot = BotOf(snap'[q], b)
                          /\ BotKnown(snap'[q], b)
                          /\ ChatAllowed(q, route'[q].chat)
    BY DEF RouteInv, Target
  <2>1. CASE q = r
    BY <2>1, <1>2
  <2>2. CASE q # r
    BY <2>2, <1>2 DEF IInv, RouteInv
  <2> QED
    BY <2>1, <2>2
<1>7. CountInv'
  BY <1>2, <1>4 DEF IInv, CountInv
<1> QED
  BY <1>3, <1>5, <1>6, <1>7 DEF IInv

(* Every step of a request keeps the invariant.                            *)
LEMMA RequestInv ==
    ASSUME IInv, NEW r \in Requests, RequestStep(r), UNCHANGED catalogVars
    PROVE  IInv'
<1>1. CASE Arrive(r)
  <2>1. at[r] = "new" /\ Stored(r) = {}
    BY <1>1 DEF Arrive, IInv, CountInv
  <2>2. CASE ~Authorized(r)
    BY <1>1, <2>1, <2>2, RespondInv DEF Arrive
  <2>3. CASE Authorized(r) /\ \E t \in Targets(r) : ~ValidRouting(r, t)
    BY <1>1, <2>1, <2>3, RespondInv DEF Arrive
  <2>4. CASE Authorized(r) /\ ~\E t \in Targets(r) : ~ValidRouting(r, t)
    <3>1. /\ at' = [at EXCEPT ![r] = "look"]
          /\ UNCHANGED <<i, snap, route, results, errs, denied, answer, queue>>
      BY <1>1, <2>4 DEF Arrive
    <3>2. /\ snap' \in [Requests -> Snapshot \cup {NoSnapshot}]
          /\ route' \in [Requests -> Route \cup {NoRoute}]
      BY <3>1 DEF IInv, TypeOK
    <3> QED
      BY <2>1, <3>1, <3>2, AdvanceInv
  <2> QED
    BY <2>2, <2>3, <2>4
<1>2. CASE Look(r)
  <2>1. at[r] = "look" /\ MoreToDo(r) /\ queue' = queue
    BY <1>2 DEF Look
  <2>2. CASE Fail(r, "other")
    BY <2>1, <2>2, FailInv DEF Error
  <2>3. CASE /\ ~NeedsCatalog(r) \/ mem # NoSnapshot
             /\ snap' = [snap EXCEPT ![r] = IF NeedsCatalog(r) THEN mem ELSE NoSnapshot]
             /\ at' = [at EXCEPT ![r] = "resolve"]
             /\ UNCHANGED <<i, route, results, errs, denied, answer>>
    <3>1. /\ snap' \in [Requests -> Snapshot \cup {NoSnapshot}]
          /\ route' \in [Requests -> Route \cup {NoRoute}]
          /\ \A q \in Requests \ {r} : snap'[q] = snap[q] /\ route'[q] = route[q]
      BY <2>3 DEF IInv, TypeOK, CatalogTypeOK
    <3> QED
      BY <2>1, <2>3, <3>1, AdvanceInv
  <2> QED
    BY <1>2, <2>2, <2>3 DEF Look
<1>3. CASE Resolve(r)
  <2> DEFINE t == Target(r)
             v == snap[r]
             b == BotNamed(r, v, t)
             chat == ChatOf(v, t)
  <2>1. at[r] = "resolve" /\ MoreToDo(r) /\ queue' = queue
    BY <1>3 DEF Resolve, IInv, TypeOK
  <2>2. CASE \E e \in Error : Fail(r, e)
    BY <2>1, <2>2, FailInv
  <2>3. CASE ~\E e \in Error : Fail(r, e)
    <3>1. /\ ChatKnown(v, t) /\ BotKnown(v, b) /\ ChatAllowed(r, chat)
          /\ route' = [route EXCEPT ![r] =
                [chat |-> chat, bot |-> BotOf(v, b), via |-> v]]
          /\ at' = [at EXCEPT ![r] = "publish"]
          /\ UNCHANGED <<i, snap, results, errs, denied, answer>>
      BY <1>3, <2>3 DEF Resolve, BotSource, ScopeTest, Error
    <3>2. v \in Snapshot \cup {NoSnapshot}
      BY DEF IInv, TypeOK
    <3>3. chat \in ChatIds
      BY <3>1, <3>2, AsyncAssumption DEF ChatKnown, ChatOf
    <3>4. BotOf(v, b) \in BotIds
      BY <3>1, <3>2, AsyncAssumption DEF BotKnown, BotOf
    <3>5. [chat |-> chat, bot |-> BotOf(v, b), via |-> v] \in Route
      BY <3>2, <3>3, <3>4 DEF Route
    <3>6. /\ route' \in [Requests -> Route \cup {NoRoute}]
          /\ route'[r] = [chat |-> chat, bot |-> BotOf(v, b), via |-> v]
          /\ \A q \in Requests \ {r} : route'[q] = route[q]
      BY <3>1, <3>5 DEF IInv, TypeOK
    <3>7. /\ route'[r] \in Route
          /\ route'[r].via = snap'[r]
          /\ route'[r].chat = ChatOf(snap'[r], Target(r))
          /\ route'[r].bot = BotOf(snap'[r], BotNamed(r, snap'[r], Target(r)))
          /\ BotKnown(snap'[r], BotNamed(r, snap'[r], Target(r)))
          /\ ChatAllowed(r, route'[r].chat)
      BY <3>1, <3>5, <3>6
    <3>8. snap' \in [Requests -> Snapshot \cup {NoSnapshot}]
      BY <3>1 DEF IInv, TypeOK
    <3> HIDE DEF t, v, b, chat
    <3> QED
      BY <2>1, <3>1, <3>6, <3>7, <3>8, AdvanceInv
  <2> QED
    BY <2>2, <2>3
<1>4. CASE PublishOK(r)
  <2>1. at[r] = "publish" /\ MoreToDo(r)
    BY <1>4 DEF PublishOK, IInv, TypeOK
  <2>2. /\ i' = [i EXCEPT ![r] = @ + 1]
        /\ at' = [at EXCEPT ![r] = "look"]
        /\ snap' = [snap EXCEPT ![r] = NoSnapshot]
        /\ route' = [route EXCEPT ![r] = NoRoute]
        /\ results' = [results EXCEPT ![r] = @ \cup {Target(r)}]
        /\ UNCHANGED <<answer, errs, denied>>
    BY <1>4 DEF PublishOK, NextTarget
  <2>3. /\ queue' \in {queue, queue \cup {MessageFor(r)}}
        /\ Durable => queue' = queue \cup {MessageFor(r)}
    BY <1>4 DEF PublishOK
  <2>4. /\ queue' \subseteq Message
        /\ ScopeHeld'
        /\ RoutedByOneSnapshot'
        /\ \A q \in Requests : Stored(q) \subseteq Stored(q)'
        /\ \A q \in Requests : q # r => Stored(q)' = Stored(q)
    BY <2>1, <2>3, QueueGrows
  <2>5. Durable => Target(r) \in Stored(r)'
    BY <2>3 DEF Stored, MessageFor
  <2>6. answer[r] = "none"
    BY <2>1 DEF IInv, CountInv
  <2>7. /\ i[r] \in Nat /\ denied[r] \in Nat /\ denied[r] < i[r]
        /\ i[r] <= Len(Req[r].targets) /\ Len(Req[r].targets) \in Nat
        /\ i'[r] = i[r] + 1
    BY <2>1, <2>2, AsyncAssumption DEF IInv, TypeOK, MoreToDo
  <2>8. TypeOK'
    <3>1. CatalogTypeOK'
      BY DEF IInv, TypeOK, CatalogTypeOK, catalogVars, brokerVars, feedVars, cacheVars,
         EndOffset
    <3>2. /\ at' \in [Requests -> At]
          /\ i' \in [Requests -> Nat \ {0}]
      BY <2>2, <2>7 DEF IInv, TypeOK, At
    <3>3. /\ snap' \in [Requests -> Snapshot \cup {NoSnapshot}]
          /\ route' \in [Requests -> Route \cup {NoRoute}]
      BY <2>2 DEF IInv, TypeOK
    <3>4. results' \in [Requests -> SUBSET Name]
      BY <2>1, <2>2, TargetNamed DEF IInv, TypeOK
    <3>5. ASSUME NEW q \in Requests
          PROVE  /\ i'[q] <= Len(Req[q].targets) + 1
                 /\ at'[q] \in {"resolve", "publish"} => MoreToDo(q)'
                 /\ at'[q] = "publish" => route'[q] \in Route
                 /\ denied'[q] < i'[q]
      <4>1. CASE q = r
        <5>1. at'[r] = "look"
          BY <2>2 DEF IInv, TypeOK
        <5> QED
          BY <4>1, <5>1, <2>2, <2>7
      <4>2. CASE q # r
        BY <4>2, <2>2 DEF IInv, TypeOK, MoreToDo
      <4> QED
        BY <4>1, <4>2
    <3> QED
      BY <2>2, <2>4, <3>1, <3>2, <3>3, <3>4, <3>5 DEF IInv, TypeOK
  <2>9. RouteInv'
    BY <2>2 DEF IInv, TypeOK, RouteInv, Target
  <2>10. AnswerIsTrue'
    BY <2>2, <2>4, <2>5, <2>6 DEF IInv, TypeOK, AnswerIsTrue
  <2>11. CountInv'
    <3> SUFFICES ASSUME NEW q \in Requests
                 PROVE  /\ at'[q] = "new" => Stored(q)' = {}
                        /\ Stored(q)' # {} => denied'[q] + 1 < i'[q]
                        /\ answer'[q] # "none" => at'[q] = "done"
      BY DEF CountInv
    <3>1. CASE q # r
      BY <3>1, <2>2, <2>4 DEF IInv, TypeOK, CountInv
    <3>2. CASE q = r
      <4>1. at'[r] = "look" /\ denied'[r] = denied[r] /\ answer'[r] = "none"
        BY <2>2, <2>6 DEF IInv, TypeOK
      <4> QED
        BY <3>2, <4>1, <2>7
    <3> QED
      BY <3>1, <3>2
  <2> QED
    BY <2>4, <2>8, <2>9, <2>10, <2>11 DEF IInv
<1>5. CASE PublishFails(r)
  <2>1. at[r] = "publish" /\ MoreToDo(r)
    BY <1>5 DEF PublishFails, IInv, TypeOK
  <2> QED
    BY <1>5, <2>1, FailInv DEF PublishFails, Error
<1>6. CASE Answer(r)
  <2>1. at[r] = "look" /\ i[r] > Len(Req[r].targets) /\ Respond(r, StatusOf(r))
    BY <1>6, AsyncAssumption DEF Answer, MoreToDo, IInv, TypeOK
  <2>2. StatusOf(r) \in {"accepted", "forbidden", "failed"}
    BY DEF StatusOf
  <2>3. ASSUME StatusOf(r) \in {"forbidden", "invalid"}
        PROVE  Stored(r) = {}
    <3>1. denied[r] = Len(Req[r].targets)
      BY <2>3 DEF StatusOf
    <3>2. i[r] \in Nat /\ Len(Req[r].targets) \in Nat
      BY AsyncAssumption DEF IInv, TypeOK
    <3>3. i[r] <= Len(Req[r].targets) + 1
      BY DEF IInv, TypeOK
    <3>4. i[r] = denied[r] + 1
      BY <2>1, <3>1, <3>2, <3>3
    <3> QED
      BY <3>1, <3>2, <3>4 DEF IInv, CountInv
  <2> QED
    BY <2>1, <2>2, <2>3, RespondInv
<1> QED
  BY <1>1, <1>2, <1>3, <1>4, <1>5, <1>6 DEF RequestStep

(* The catalog changes under the requests without touching them.           *)
LEMMA CatalogMovesInv ==
    ASSUME IInv, CatalogTypeOK', UNCHANGED <<requestVars, queue>>
    PROVE  IInv'
<1>1. \A q \in Requests : Stored(q)' = Stored(q)
  BY DEF Stored
<1>2. TypeOK'
  BY DEF IInv, TypeOK, requestVars, MoreToDo
<1>3. ScopeHeld' /\ RoutedByOneSnapshot'
  BY DEF IInv, ScopeHeld, RoutedByOneSnapshot
<1>4. AnswerIsTrue' /\ CountInv'
  BY <1>1 DEF IInv, AnswerIsTrue, CountInv, requestVars
<1>5. RouteInv'
  BY DEF IInv, RouteInv, requestVars, Target
<1> QED
  BY <1>2, <1>3, <1>4, <1>5 DEF IInv

-----------------------------------------------------------------------------
(* The joint invariant of requests and queue, for any requests, catalogs   *)
(* and scopes.                                                             *)
THEOREM InvariantHolds == Spec => [](IInv /\ CatalogInv)
<1>1. Init => IInv /\ CatalogInv
  BY InitInv, CatalogInitInv DEF Init
<1>2. ASSUME IInv, CatalogInv, [Next]_vars
      PROVE  IInv' /\ CatalogInv'
  <2>1. CASE CatalogStep /\ UNCHANGED <<requestVars, queue>>
    BY <1>2, <2>1, CatalogStepInv, CatalogMovesInv DEF CatalogInv
  <2>2. ASSUME NEW r \in Requests, RequestStep(r), UNCHANGED catalogVars
        PROVE  IInv' /\ CatalogInv'
    BY <1>2, <2>2, RequestInv, CatalogStutterInv
  <2>3. CASE UNCHANGED vars
    <3>1. UNCHANGED catalogVars /\ UNCHANGED <<requestVars, queue>>
      BY <2>3 DEF vars
    <3> QED
      BY <1>2, <3>1, CatalogStutterInv, CatalogMovesInv DEF CatalogInv
  <2> QED
    BY <1>2, <2>1, <2>2, <2>3 DEF Next
<1> QED
  BY <1>1, <1>2, PTL DEF Spec

(* Every reachable state of requests, queue and catalog has its type.      *)
THEOREM TypeCorrect == Spec => []TypeOK
<1>1. IInv => TypeOK
  BY DEF IInv
<1> QED
  BY InvariantHolds, <1>1, PTL

(* A scoped key's messages go to chats of its scope only.                  *)
THEOREM ScopeSafe == Spec => []ScopeHeld
<1>1. IInv => ScopeHeld
  BY DEF IInv
<1> QED
  BY InvariantHolds, <1>1, PTL

(* Chat and bot of every message come from one snapshot.                   *)
THEOREM SnapshotSafe == Spec => []RoutedByOneSnapshot
<1>1. IInv => RoutedByOneSnapshot
  BY DEF IInv
<1> QED
  BY InvariantHolds, <1>1, PTL

(* 403 and 400 mean that nothing was queued; with Kafka, what is reported  *)
(* as queued is on the queue.                                              *)
THEOREM AnswerSafe == Spec => []AnswerIsTrue
<1>1. IInv => AnswerIsTrue
  BY DEF IInv
<1> QED
  BY InvariantHolds, <1>1, PTL

-----------------------------------------------------------------------------
(* An asynchronous send is a fan-out. *)

Tried(r, t) == t \in results[r] \/ \E e \in Error : <<t, e>> \in errs[r]

(* The targets behind a request have an outcome, those before it have      *)
(* none, and the counter of refusals keeps up with the request exactly as  *)
(* long as everything behind it was refused.                               *)
FanInv ==
    \A r \in Requests :
        /\ at[r] = "new" => i[r] = 1
        /\ results[r] \subseteq Targets(r)
        /\ \A k \in 1..Len(Req[r].targets) :
               Tried(r, Req[r].targets[k]) <=> k < i[r]
        /\ denied[r] + 1 = i[r] <=>
               \A k \in 1..Len(Req[r].targets) :
                   k < i[r] => OutcomeOf(r, Req[r].targets[k]) = "denied"

LEMMA FanStart == Init => FanInv
<1> SUFFICES ASSUME Init, NEW r \in Requests
             PROVE  /\ at[r] = "new" => i[r] = 1
                    /\ results[r] \subseteq Targets(r)
                    /\ \A k \in 1..Len(Req[r].targets) :
                           Tried(r, Req[r].targets[k]) <=> k < i[r]
                    /\ denied[r] + 1 = i[r]
                    /\ \A k \in 1..Len(Req[r].targets) : ~(k < i[r])
  BY DEF FanInv
<1>1. i[r] = 1 /\ denied[r] = 0 /\ results[r] = {} /\ errs[r] = {}
  BY DEF Init
<1>2. Len(Req[r].targets) \in Nat
  BY AsyncAssumption
<1> QED
  BY <1>1, <1>2 DEF Tried

LEMMA OutcomeTried ==
    ASSUME NEW r \in Requests, NEW t
    PROVE  /\ OutcomeOf(r, t) = "pending" <=> ~Tried(r, t)
           /\ OutcomeOf(r, t) = "sent" <=> t \in results[r]
BY DEF OutcomeOf, Tried

LEMMA OutcomeKept ==
    ASSUME NEW r \in Requests, NEW t,
           results'[r] \ {t} = results[r] \ {t},
           \A e \in Error : \A u : u # t => (<<u, e>> \in errs'[r] <=> <<u, e>> \in errs[r])
    PROVE  \A u : u # t => /\ OutcomeOf(r, u)' = OutcomeOf(r, u)
                           /\ Tried(r, u)' = Tried(r, u)
<1> SUFFICES ASSUME NEW u, u # t
             PROVE  /\ OutcomeOf(r, u)' = OutcomeOf(r, u)
                    /\ Tried(r, u)' = Tried(r, u)
  OBVIOUS
<1>1. u \in results'[r] <=> u \in results[r]
  OBVIOUS
<1>2. \A e \in Error : <<u, e>> \in errs'[r] <=> <<u, e>> \in errs[r]
  OBVIOUS
<1> QED
  BY <1>1, <1>2 DEF OutcomeOf, Tried

(* Where a request is in its list of targets. *)
LEMMA AtTarget ==
    ASSUME IInv, FanInv, NEW r \in Requests, MoreToDo(r)
    PROVE  /\ i[r] \in 1..Len(Req[r].targets)
           /\ Len(Req[r].targets) \in Nat
           /\ Target(r) \in Targets(r)
           /\ ~Tried(r, Target(r))
           /\ \A k \in 1..Len(Req[r].targets) :
                  Req[r].targets[k] = Target(r) <=> k = i[r]
<1>1. Len(Req[r].targets) \in Nat /\ i[r] \in 1..Len(Req[r].targets)
  BY AsyncAssumption DEF IInv, TypeOK, MoreToDo
<1>2. Target(r) = Req[r].targets[i[r]]
  BY DEF Target
<1>3. ~(i[r] < i[r])
  BY <1>1
<1> QED
  BY <1>1, <1>2, <1>3, AsyncAssumption DEF FanInv, Targets

(* What a step notes of the target it has dealt with: a message that is on *)
(* its way, or an error and whether it counts as a refusal.                *)
Queues(r, o) ==
    /\ o = "sent"
    /\ results' = [results EXCEPT ![r] = @ \cup {Target(r)}]
    /\ UNCHANGED <<errs, denied>>

Errs(r, e, o) ==
    /\ o = IF CountsAsDenied(r, e) THEN "denied" ELSE "failed"
    /\ errs' = [errs EXCEPT ![r] = @ \cup {<<Target(r), e>>}]
    /\ denied' = [denied EXCEPT ![r] = IF CountsAsDenied(r, e) THEN @ + 1 ELSE @]
    /\ UNCHANGED results

(* The request's target gets its outcome and no other does. *)
Settles(r, o) ==
    \E t \in Targets(r) :
        /\ t = Target(r)
        /\ OutcomeOf(r, t) = "pending"
        /\ OutcomeOf(r, t)' = o
        /\ \A q \in Requests : \A u \in Targets(q) :
               q # r \/ u # t => OutcomeOf(q, u)' = OutcomeOf(q, u)

LEMMA TargetSettled ==
    ASSUME IInv, FanInv, NEW r \in Requests, MoreToDo(r),
           at' = [at EXCEPT ![r] = "look"],
           i' = [i EXCEPT ![r] = @ + 1],
           NEW o,
           Queues(r, o) \/ \E e \in Error : Errs(r, e, o)
    PROVE  /\ FanInv'
           /\ Settles(r, o)
<1>1. /\ i[r] \in 1..Len(Req[r].targets)
      /\ Len(Req[r].targets) \in Nat
      /\ Target(r) \in Targets(r)
      /\ ~Tried(r, Target(r))
      /\ \A k \in 1..Len(Req[r].targets) :
             Req[r].targets[k] = Target(r) <=> k = i[r]
  BY AtTarget
<1>2. PICK t \in Targets(r) : t = Target(r)
  BY <1>1
<1>3. /\ i'[r] = i[r] + 1 /\ at'[r] = "look"
      /\ denied[r] \in Nat /\ denied[r] < i[r]
      /\ \A q \in Requests \ {r} :
             /\ at'[q] = at[q] /\ i'[q] = i[q] /\ denied'[q] = denied[q]
             /\ results'[q] = results[q] /\ errs'[q] = errs[q]
  BY DEF Queues, Errs, IInv, TypeOK
<1>4. /\ results'[r] \subseteq results[r] \cup {t}
      /\ results[r] \subseteq results'[r]
      /\ \A e \in Error : \A u : u # t => (<<u, e>> \in errs'[r] <=> <<u, e>> \in errs[r])
  BY <1>2 DEF Queues, Errs, IInv, TypeOK
<1>5. \A q \in Requests \ {r} : \A u : /\ OutcomeOf(q, u)' = OutcomeOf(q, u)
                                       /\ Tried(q, u)' = Tried(q, u)
  BY <1>3 DEF OutcomeOf, Tried
<1>6. \A u : u # t => /\ OutcomeOf(r, u)' = OutcomeOf(r, u)
                      /\ Tried(r, u)' = Tried(r, u)
  BY <1>4, OutcomeKept
<1>7. /\ Tried(r, t)'
      /\ OutcomeOf(r, t)' = o
      /\ IF o = "denied" THEN denied'[r] = denied[r] + 1 ELSE denied'[r] = denied[r]
  <2>1. t \notin results[r] /\ \A e \in Error : <<t, e>> \notin errs[r]
    BY <1>1, <1>2 DEF Tried
  <2>2. CASE Queues(r, o)
    <3>1. t \in results'[r]
      BY <2>2, <1>2 DEF Queues, IInv, TypeOK
    <3> QED
      BY <3>1, <2>2 DEF Queues, Tried, OutcomeOf
  <2>3. ASSUME NEW e \in Error, Errs(r, e, o)
        PROVE  /\ Tried(r, t)'
               /\ OutcomeOf(r, t)' = o
               /\ IF o = "denied" THEN denied'[r] = denied[r] + 1
                                  ELSE denied'[r] = denied[r]
    <3>1. errs'[r] = errs[r] \cup {<<t, e>>} /\ results'[r] = results[r]
      BY <2>3, <1>2 DEF Errs, IInv, TypeOK
    <3>2. \A f \in Error : <<t, f>> \in errs'[r] <=> f = e
      BY <2>1, <3>1
    <3>3. t \notin results'[r]
      BY <2>1, <3>1
    <3>4. Tried(r, t)'
      BY <2>3, <3>2 DEF Tried
    <3>5. OutcomeOf(r, t)' = o
      BY <2>3, <3>2, <3>3 DEF Errs, OutcomeOf
    <3>6. denied'[r] = IF CountsAsDenied(r, e) THEN denied[r] + 1 ELSE denied[r]
      BY <2>3 DEF Errs, IInv, TypeOK
    <3> QED
      BY <2>3, <3>4, <3>5, <3>6 DEF Errs
  <2> QED
    BY <2>2, <2>3
<1>8. FanInv'
  <2>1. ASSUME NEW q \in Requests, q # r
        PROVE  /\ at'[q] = "new" => i'[q] = 1
               /\ results'[q] \subseteq Targets(q)
               /\ \A k \in 1..Len(Req[q].targets) :
                      Tried(q, Req[q].targets[k])' <=> k < i'[q]
               /\ denied'[q] + 1 = i'[q] <=>
                      \A k \in 1..Len(Req[q].targets) :
                          k < i'[q] => OutcomeOf(q, Req[q].targets[k])' = "denied"
    BY <2>1, <1>3, <1>5 DEF FanInv
  <2>2. /\ at'[r] # "new"
        /\ results'[r] \subseteq Targets(r)
    BY <1>3, <1>4 DEF FanInv
  <2>3. ASSUME NEW k \in 1..Len(Req[r].targets)
        PROVE  /\ Tried(r, Req[r].targets[k])' <=> k < i'[r]
               /\ k # i[r] => /\ Req[r].targets[k] # t
                              /\ k < i'[r] <=> k < i[r]
    <3>1. CASE k = i[r]
      <4>1. Req[r].targets[k] = t /\ k < i'[r]
        BY <3>1, <1>1, <1>2, <1>3
      <4> QED
        BY <3>1, <4>1, <1>7
    <3>2. CASE k # i[r]
      <4>1. Req[r].targets[k] # t /\ (k < i'[r] <=> k < i[r])
        BY <3>2, <1>1, <1>2, <1>3
      <4> QED
        BY <3>2, <4>1, <1>6 DEF FanInv
    <3> QED
      BY <3>1, <3>2
  <2>4. denied'[r] + 1 = i'[r] <=>
            \A k \in 1..Len(Req[r].targets) :
                k < i'[r] => OutcomeOf(r, Req[r].targets[k])' = "denied"
    <3>1. denied'[r] + 1 = i'[r] <=> o = "denied" /\ denied[r] + 1 = i[r]
      BY <1>1, <1>3, <1>7
    <3>2. \A k \in 1..Len(Req[r].targets) : k # i[r] =>
              OutcomeOf(r, Req[r].targets[k])' = OutcomeOf(r, Req[r].targets[k])
      BY <2>3, <1>6
    <3>3. \A k \in 1..Len(Req[r].targets) : k = i[r] =>
              OutcomeOf(r, Req[r].targets[k])' = o
      BY <1>1, <1>2, <1>7
    <3>4. \A k \in 1..Len(Req[r].targets) : k < i'[r] <=> k < i[r] \/ k = i[r]
      BY <1>1, <1>3
    <3>5. denied[r] + 1 = i[r] <=>
              \A k \in 1..Len(Req[r].targets) :
                  k < i[r] => OutcomeOf(r, Req[r].targets[k]) = "denied"
      BY DEF FanInv
    <3>6. /\ ~(i[r] < i[r]) /\ i[r] \in 1..Len(Req[r].targets)
          /\ \A k \in 1..Len(Req[r].targets) : k < i[r] => k # i[r]
      BY <1>1
    <3> QED
      BY <3>1, <3>2, <3>3, <3>4, <3>5, <3>6
  <2> QED
    BY <2>1, <2>2, <2>3, <2>4 DEF FanInv
<1> QED
  BY <1>1, <1>2, <1>5, <1>6, <1>7, <1>8, OutcomeTried DEF Settles

(* Nothing behind or before the request changes. *)
LEMMA FanQuiet ==
    ASSUME FanInv, UNCHANGED <<i, results, errs, denied>>,
           \A r \in Requests : at'[r] = "new" => at[r] = "new"
    PROVE  FanInv'
<1>1. \A r \in Requests : \A u : /\ OutcomeOf(r, u)' = OutcomeOf(r, u)
                                 /\ Tried(r, u)' = Tried(r, u)
  BY DEF OutcomeOf, Tried
<1> QED
  BY <1>1 DEF FanInv

(* One target settled, with or without its message on the queue, is a      *)
(* delivery or a denial.                                                   *)
LEMMA SettledIsStep ==
    ASSUME NEW r \in Requests, NEW t \in Targets(r),
           answer[r] = "none", answer' = answer,
           NEW o \in {"sent", "failed", "denied"},
           OutcomeOf(r, t) = "pending", OutcomeOf(r, t)' = o,
           \A q \in Requests : \A u \in Targets(q) :
               q # r \/ u # t => OutcomeOf(q, u)' = OutcomeOf(q, u),
           NEW S \in {{}, {t}}, o = "denied" => S = {},
           Stored(r)' = Stored(r) \cup S,
           \A q \in Requests : q # r => Stored(q)' = Stored(q)
    PROVE  F!Next
<1> DEFINE G == [q \in Requests |-> [u \in Targets(q) |-> OutcomeOf(q, u)]]
           H == [q \in Requests |-> Stored(q)]
<1>1. G' = [G EXCEPT ![r][t] = o]
  <2> DEFINE K == [G EXCEPT ![r][t] = o]
  <2>1. G' = [q \in Requests |-> [u \in Targets(q) |-> OutcomeOf(q, u)']]
    OBVIOUS
  <2>2. K = [q \in Requests |->
                IF q = r THEN [G[r] EXCEPT ![t] = o] ELSE G[q]]
    OBVIOUS
  <2>3. [G[r] EXCEPT ![t] = o] = [u \in Targets(r) |-> OutcomeOf(r, u)']
    OBVIOUS
  <2>4. \A q \in Requests \ {r} : G[q] = [u \in Targets(q) |-> OutcomeOf(q, u)']
    OBVIOUS
  <2> HIDE DEF G
  <2> QED
    BY <2>1, <2>2, <2>3, <2>4
<1>2. H' = [H EXCEPT ![r] = @ \cup S]
  OBVIOUS
<1>3. G[r][t] = "pending" /\ t \in TargetsOf[r] /\ TargetsOf[r] = Targets(r)
  BY DEF TargetsOf
<1>4. t \in F!Untried(r)
  BY <1>3 DEF F!Untried
<1>5. CASE o \in {"sent", "failed"}
  <2>1. F!Deliver(r, t)
    BY <1>1, <1>2, <1>4, <1>5 DEF F!Deliver
  <2> QED
    BY <2>1, <1>3 DEF F!Next
<1>6. CASE o = "denied"
  <2>1. H' = H
    BY <1>6
  <2>2. F!Deny(r, t)
    BY <1>1, <2>1, <1>4, <1>6 DEF F!Deny
  <2> QED
    BY <2>2, <1>3 DEF F!Next
<1> QED
  BY <1>5, <1>6

LEMMA TargetsIndexed ==
    ASSUME NEW r \in Requests
    PROVE  /\ Targets(r) = {Req[r].targets[k] : k \in 1..Len(Req[r].targets)}
           /\ TargetsOf[r] = Targets(r)
           /\ Len(Req[r].targets) \in Nat \ {0}
           /\ Targets(r) # {}
<1>1. Len(Req[r].targets) \in Nat \ {0}
  BY AsyncAssumption
<1>2. 1 \in 1..Len(Req[r].targets)
  BY <1>1
<1> QED
  BY <1>1, <1>2 DEF Targets, TargetsOf

(* An answer before any target is tried is a rejection, an answer after    *)
(* the last one sums the outcomes up.                                      *)
LEMMA RespondIsStep ==
    ASSUME IInv, FanInv, NEW r \in Requests, NEW a, Respond(r, a),
           \/ at[r] = "new" /\ a \in {"forbidden", "invalid"}
           \/ at[r] = "look" /\ ~MoreToDo(r) /\ a = StatusOf(r)
    PROVE  F!Next
<1> DEFINE G == [q \in Requests |-> [u \in Targets(q) |-> OutcomeOf(q, u)]]
<1>1. /\ answer' = [answer EXCEPT ![r] = a]
      /\ answer[r] = "none"
      /\ UNCHANGED <<results, errs, queue>>
  BY DEF Respond, IInv, CountInv
<1>2. /\ G' = G
      /\ [q \in Requests |-> Stored(q)]' = [q \in Requests |-> Stored(q)]
  BY <1>1 DEF OutcomeOf, Stored
<1>3. \A u \in Targets(r) : /\ G[r][u] = OutcomeOf(r, u)
                            /\ OutcomeOf(r, u) = "pending" <=> ~Tried(r, u)
                            /\ OutcomeOf(r, u) = "sent" <=> u \in results[r]
  BY OutcomeTried
<1>4. /\ \A u \in Targets(r) :
             \E k \in 1..Len(Req[r].targets) : u = Req[r].targets[k]
      /\ \A k \in 1..Len(Req[r].targets) : Req[r].targets[k] \in Targets(r)
      /\ TargetsOf[r] = Targets(r)
      /\ Len(Req[r].targets) \in Nat
      /\ Targets(r) # {}
  BY TargetsIndexed
<1>5. CASE at[r] = "new" /\ a \in {"forbidden", "invalid"}
  <2>1. \A k \in 1..Len(Req[r].targets) : ~Tried(r, Req[r].targets[k])
    BY <1>4, <1>5 DEF FanInv
  <2>2. F!Untried(r) = TargetsOf[r]
    BY <2>1, <1>3, <1>4 DEF F!Untried
  <2>3. F!Reject(r)
    BY <1>1, <1>2, <1>5, <2>2 DEF F!Reject
  <2> QED
    BY <2>3 DEF F!Next
<1>6. CASE at[r] = "look" /\ ~MoreToDo(r) /\ a = StatusOf(r)
  <2>1. i[r] = Len(Req[r].targets) + 1 /\ denied[r] \in Nat
    <3>1. /\ i[r] \in Nat /\ denied[r] \in Nat
          /\ i[r] <= Len(Req[r].targets) + 1
      BY DEF IInv, TypeOK
    <3>2. Len(Req[r].targets) \in Nat /\ ~(i[r] <= Len(Req[r].targets))
      BY <1>4, <1>6 DEF MoreToDo
    <3> QED
      BY <3>1, <3>2
  <2>2. \A k \in 1..Len(Req[r].targets) : k < i[r]
    BY <1>4, <2>1
  <2>3. \A u \in Targets(r) : Tried(r, u)
    BY <1>4, <2>2 DEF FanInv
  <2>4. F!Untried(r) = {}
    BY <1>3, <1>4, <2>3 DEF F!Untried
  <2>5. F!With(r, "sent") # {} <=> results[r] # {}
    <3>1. results[r] \subseteq Targets(r)
      BY DEF FanInv
    <3> QED
      BY <3>1, <1>3, <1>4 DEF F!With
  <2>6. F!With(r, "denied") = TargetsOf[r] <=> denied[r] = Len(Req[r].targets)
    <3>1. denied[r] + 1 = i[r] <=>
              \A k \in 1..Len(Req[r].targets) :
                  k < i[r] => OutcomeOf(r, Req[r].targets[k]) = "denied"
      BY DEF FanInv
    <3>2. denied[r] + 1 = i[r] <=> denied[r] = Len(Req[r].targets)
      BY <1>4, <2>1
    <3>3. denied[r] = Len(Req[r].targets) <=>
              \A u \in Targets(r) : OutcomeOf(r, u) = "denied"
      BY <3>1, <3>2, <2>2, <1>4
    <3>4. F!With(r, "denied") = {u \in Targets(r) : OutcomeOf(r, u) = "denied"}
      BY <1>3, <1>4 DEF F!With
    <3> QED
      BY <3>3, <3>4, <1>4
  <2>7. StatusOf(r) = F!SumUp(r)
    BY <2>5, <2>6 DEF StatusOf, F!SumUp
  <2>8. F!Respond(r)
    BY <1>1, <1>2, <1>6, <2>4, <2>7 DEF F!Respond
  <2> QED
    BY <2>8 DEF F!Next
<1> QED
  BY <1>5, <1>6

(* A target that could not be routed or published. *)
LEMMA FailIsStep ==
    ASSUME IInv, FanInv, NEW r \in Requests, NEW e \in Error, Fail(r, e),
           at[r] # "done", MoreToDo(r),
           \/ queue' = queue
           \/ e = "other" /\ queue' \in {queue, queue \cup {MessageFor(r)}}
    PROVE  FanInv' /\ F!Next
<1> DEFINE o == IF CountsAsDenied(r, e) THEN "denied" ELSE "failed"
<1>1. /\ at' = [at EXCEPT ![r] = "look"]
      /\ i' = [i EXCEPT ![r] = @ + 1]
      /\ Errs(r, e, o)
      /\ answer' = answer /\ answer[r] = "none"
  BY DEF Fail, NextTarget, IInv, CountInv, Errs
<1>2. o \in {"sent", "failed", "denied"} /\ (o = "denied" => CountsAsDenied(r, e))
  OBVIOUS
<1> HIDE DEF o
<1>3. /\ FanInv'
      /\ Settles(r, o)
  BY <1>1, TargetSettled
<1>4. PICK t \in Targets(r) :
             /\ t = Target(r)
             /\ OutcomeOf(r, t) = "pending"
             /\ OutcomeOf(r, t)' = o
             /\ \A q \in Requests : \A u \in Targets(q) :
                    q # r \/ u # t => OutcomeOf(q, u)' = OutcomeOf(q, u)
  BY <1>3 DEF Settles
<1>5. \E S \in {{}, {t}} :
          /\ o = "denied" => S = {}
          /\ Stored(r)' = Stored(r) \cup S
          /\ \A q \in Requests : q # r => Stored(q)' = Stored(q)
  <2>1. CASE queue' = queue
    BY <2>1 DEF Stored
  <2>2. CASE e = "other" /\ queue' = queue \cup {MessageFor(r)}
    <3>1. o = "failed"
      BY <2>2, <1>1 DEF CountsAsDenied, Errs
    <3>2. MessageFor(r).req = r /\ MessageFor(r).target = t
      BY <1>4 DEF MessageFor
    <3>3. Stored(r)' = Stored(r) \cup {t}
      BY <2>2, <3>2 DEF Stored
    <3>4. \A q \in Requests : q # r => Stored(q)' = Stored(q)
      BY <2>2, <3>2 DEF Stored
    <3> QED
      BY <3>1, <3>3, <3>4
  <2> QED
    BY <2>1, <2>2
<1> QED
  BY <1>1, <1>2, <1>3, <1>4, <1>5, SettledIsStep

LEMMA PublishIsStep ==
    ASSUME IInv, FanInv, NEW r \in Requests, PublishOK(r)
    PROVE  FanInv' /\ F!Next
<1>1. /\ at' = [at EXCEPT ![r] = "look"]
      /\ i' = [i EXCEPT ![r] = @ + 1]
      /\ Queues(r, "sent")
      /\ answer' = answer /\ answer[r] = "none" /\ MoreToDo(r)
      /\ queue' \in {queue, queue \cup {MessageFor(r)}}
  BY DEF PublishOK, NextTarget, Queues, IInv, CountInv, TypeOK
<1>2. /\ FanInv'
      /\ Settles(r, "sent")
  BY <1>1, TargetSettled
<1>3. PICK t \in Targets(r) :
             /\ t = Target(r)
             /\ OutcomeOf(r, t) = "pending"
             /\ OutcomeOf(r, t)' = "sent"
             /\ \A q \in Requests : \A u \in Targets(q) :
                    q # r \/ u # t => OutcomeOf(q, u)' = OutcomeOf(q, u)
  BY <1>2 DEF Settles
<1>4. \E S \in {{}, {t}} :
          /\ Stored(r)' = Stored(r) \cup S
          /\ \A q \in Requests : q # r => Stored(q)' = Stored(q)
  <2>1. CASE queue' = queue
    BY <2>1 DEF Stored
  <2>2. CASE queue' = queue \cup {MessageFor(r)}
    <3>1. MessageFor(r).req = r /\ MessageFor(r).target = t
      BY <1>3 DEF MessageFor
    <3> QED
      BY <2>2, <3>1 DEF Stored
  <2> QED
    BY <1>1, <2>1, <2>2
<1> QED
  BY <1>1, <1>2, <1>3, <1>4, SettledIsStep

LEMMA FanoutStep ==
    ASSUME IInv, FanInv, [Next]_vars
    PROVE  FanInv' /\ [F!Next]_(F!vars)
<1>1. ASSUME UNCHANGED <<i, results, errs, denied, answer, queue>>,
             \A r \in Requests : at'[r] = "new" => at[r] = "new"
      PROVE  FanInv' /\ UNCHANGED F!vars
  <2>1. FanInv'
    BY <1>1, FanQuiet
  <2>2. UNCHANGED F!vars
    BY <1>1 DEF F!vars, OutcomeOf, Stored
  <2> QED
    BY <2>1, <2>2
<1>2. ASSUME NEW r \in Requests, NEW a, Respond(r, a),
             \/ at[r] = "new" /\ a \in {"forbidden", "invalid"}
             \/ at[r] = "look" /\ ~MoreToDo(r) /\ a = StatusOf(r)
      PROVE  FanInv' /\ F!Next
  <2>1. /\ UNCHANGED <<i, results, errs, denied>>
        /\ \A q \in Requests : at'[q] = "new" => at[q] = "new"
    BY <1>2 DEF Respond, IInv, TypeOK
  <2>2. FanInv'
    BY <2>1, FanQuiet
  <2> QED
    BY <1>2, <2>2, RespondIsStep
<1>3. ASSUME NEW r \in Requests, RequestStep(r)
      PROVE  FanInv' /\ [F!Next]_(F!vars)
  <2>1. CASE Arrive(r)
    <3>1. CASE \E a \in {"forbidden", "invalid"} : Respond(r, a)
      BY <1>2, <2>1, <3>1 DEF Arrive
    <3>2. CASE ~\E a \in {"forbidden", "invalid"} : Respond(r, a)
      <4>1. /\ at' = [at EXCEPT ![r] = "look"]
            /\ UNCHANGED <<i, results, errs, denied, answer, queue>>
        BY <2>1, <3>2 DEF Arrive
      <4>2. \A q \in Requests : at'[q] = "new" => at[q] = "new"
        BY <4>1 DEF IInv, TypeOK
      <4> QED
        BY <1>1, <4>1, <4>2
    <3> QED
      BY <3>1, <3>2
  <2>2. CASE Look(r)
    <3>1. CASE Fail(r, "other")
      BY <2>2, <3>1, FailIsStep DEF Look, Error
    <3>2. CASE ~Fail(r, "other")
      <4>1. /\ at' = [at EXCEPT ![r] = "resolve"]
            /\ UNCHANGED <<i, results, errs, denied, answer, queue>>
        BY <2>2, <3>2 DEF Look
      <4>2. \A q \in Requests : at'[q] = "new" => at[q] = "new"
        BY <4>1 DEF IInv, TypeOK
      <4> QED
        BY <1>1, <4>1, <4>2
    <3> QED
      BY <3>1, <3>2
  <2>3. CASE Resolve(r)
    <3>1. at[r] = "resolve" /\ MoreToDo(r) /\ queue' = queue
      BY <2>3 DEF Resolve, IInv, TypeOK
    <3>2. CASE \E e \in Error : Fail(r, e)
      BY <3>1, <3>2, FailIsStep
    <3>3. CASE ~\E e \in Error : Fail(r, e)
      <4>1. /\ at' = [at EXCEPT ![r] = "publish"]
            /\ UNCHANGED <<i, results, errs, denied, answer>>
        BY <2>3, <3>3 DEF Resolve, Error
      <4>2. \A q \in Requests : at'[q] = "new" => at[q] = "new"
        BY <4>1 DEF IInv, TypeOK
      <4> QED
        BY <1>1, <3>1, <4>1, <4>2
    <3> QED
      BY <3>2, <3>3
  <2>4. CASE PublishOK(r)
    BY <2>4, PublishIsStep
  <2>5. CASE PublishFails(r)
    <3>1. at[r] = "publish" /\ MoreToDo(r)
      BY <2>5 DEF PublishFails, IInv, TypeOK
    <3> QED
      BY <2>5, <3>1, FailIsStep DEF PublishFails, Error
  <2>6. CASE Answer(r)
    BY <1>2, <2>6 DEF Answer
  <2> QED
    BY <1>3, <2>1, <2>2, <2>3, <2>4, <2>5, <2>6 DEF RequestStep
<1>4. CASE UNCHANGED <<requestVars, queue>>
  BY <1>1, <1>4 DEF requestVars
<1> QED
  BY <1>3, <1>4 DEF Next, vars

LEMMA FanoutInit == Init => F!Init
BY DEF Init, F!Init, OutcomeOf, Stored, TargetsOf

(* An asynchronous send keeps what the server promises of a fan-out        *)
(* (server/multisend.go): a request is refused before any target is tried, *)
(* or every target is tried once on its own, nothing is queued for a       *)
(* denied one, and the answer sums up the outcomes.                        *)
THEOREM ImplementsFanout == Spec => KeepsFanout
<1> DEFINE JInv == IInv /\ CatalogInv
<1>1. Init => FanInv
  BY FanStart
<1>2. JInv /\ FanInv /\ [Next]_vars => FanInv' /\ [F!Next]_(F!vars)
  BY FanoutStep
<1>3. Spec => []JInv
  BY InvariantHolds
<1> HIDE DEF JInv
<1> QED
  BY <1>1, <1>2, <1>3, FanoutInit, PTL DEF Spec, KeepsFanout, F!Spec
=============================================================================
