------------------------------ MODULE SyncProofs ------------------------------
(* Theorems about SyncSend: types, authorization before the first message, *)
(* the right bot, one message per target, what a refresh heals, and that a *)
(* send is a fan-out as the server promises it.                            *)
EXTENDS SyncSend, TLAPS

InFlight == {"login", "store", "send", "sent", "refresh", "restore", "resend",
             "resent", "aborted"}

(* Past its arrival, a request is authorized and has a target; before it,  *)
(* it has done nothing.                                                    *)
AdmittedInv ==
    \A r \in Requests :
        /\ pc[r] = "new" => i[r] = 1 /\ delivered[r] = <<>>
        /\ pc[r] \notin {"new", "done"} \/ delivered[r] # <<>> => Authorized(r)
        /\ pc[r] \notin {"new", "done"} => Targets[r] # <<>>
        /\ answer[r] = "none" <=> pc[r] # "done"

(* A request on its way to BotX is at a target, with its chat and bot.     *)
RouteInv ==
    \A r \in Requests : pc[r] \in InFlight =>
        /\ MoreToDo(r)
        /\ ChatKnown(Target(r))
        /\ RequestBot(r, Target(r)) # None
        /\ route[r] = [chat |-> ChatOf(Target(r)), bot |-> RequestBot(r, Target(r))]

(* What was delivered was for a target behind the present one, and went to *)
(* its chat from its bot.                                                  *)
Behind(r) == {Targets[r][k] : k \in {m \in DOMAIN Targets[r] : m < i[r]}}

DeliveredInv ==
    \A r \in Requests : \A k \in DOMAIN delivered[r] :
        LET d == delivered[r][k] IN
        /\ d.target \in Behind(r)
        /\ d.chat = ChatOf(d.target)
        /\ d.bot = RequestBot(r, d.target) /\ d.bot # None

(* Undisturbed, the token of a resend is the API's from its issue on.      *)
HealInv ==
    \A r \in Requests \ disturbed :
        LET b == route[r].bot IN
        /\ pc[r] = "restore" => fresh[r] = epoch[b]
        /\ pc[r] = "resend" => token[b] = epoch[b]
        /\ pc[r] = "resent" => used[r] = epoch[b]

IInv ==
    /\ TypeOK
    /\ AdmittedInv
    /\ RouteInv
    /\ DeliveredInv
    /\ OncePerTarget
    /\ HealInv

-----------------------------------------------------------------------------
(* The targets of a request are a sequence without repetitions.            *)
LEMMA TargetsAreSeq ==
    ASSUME NEW r \in Requests
    PROVE  /\ Targets[r] \in Seq(TargetsOf[r])
           /\ Len(Targets[r]) \in Nat /\ DOMAIN Targets[r] = 1..Len(Targets[r])
           /\ TargetsOf[r] = {Targets[r][k] : k \in DOMAIN Targets[r]}
           /\ \A k, l \in DOMAIN Targets[r] : Targets[r][k] = Targets[r][l] => k = l
<1>1. TargetsOf[r] = {Targets[r][k] : k \in DOMAIN Targets[r]}
  BY DEF TargetsOf
<1>2. CASE Req[r].targets # <<>>
  <2>1. Targets[r] = Req[r].targets
    BY <1>2 DEF Targets
  <2> DEFINE t == Req[r].targets
  <2>2. /\ t \in Seq({t[k] : k \in DOMAIN t})
        /\ \A k, l \in DOMAIN t : t[k] = t[l] => k = l
    BY SyncAssumption
  <2>3. Len(t) \in Nat /\ DOMAIN t = 1..Len(t)
    BY <2>2
  <2> QED
    BY <1>1, <2>1, <2>2, <2>3
<1>3. CASE Req[r].targets = <<>> /\ SingleChat(r) # None
  <2>1. Targets[r] = <<SingleChat(r)>>
    BY <1>3 DEF Targets
  <2> QED
    BY <1>1, <2>1
<1>4. CASE Req[r].targets = <<>> /\ SingleChat(r) = None
  <2>1. Targets[r] = <<>>
    BY <1>4 DEF Targets
  <2> QED
    BY <1>1, <2>1
<1> QED
  BY <1>2, <1>3, <1>4

(* The target a request is at is one of its targets.                       *)
LEMMA TargetIn ==
    ASSUME TypeOK, NEW r \in Requests, MoreToDo(r)
    PROVE  /\ i[r] \in DOMAIN Targets[r]
           /\ Target(r) \in TargetsOf[r] /\ Target(r) \in Names
           /\ outcome[r][Target(r)] = "pending"
<1>1. i[r] \in 1..Len(Targets[r])
  BY TargetsAreSeq DEF TypeOK, MoreToDo
<1>2. i[r] \in DOMAIN Targets[r]
  BY <1>1, TargetsAreSeq
<1> QED
  BY <1>2, TargetsAreSeq DEF Target, TypeOK, Names

(* A request is sent by one of the bots there are, or refused.             *)
LEMMA RequestBotIsBot ==
    ASSUME TypeOK, NEW r \in Requests, NEW t, RequestBot(r, t) # None
    PROVE  RequestBot(r, t) \in Bots
BY SyncAssumption DEF TypeOK, RequestBot, AuthBot

LEMMA ChatOfIsChat ==
    ASSUME NEW t, ChatKnown(t)
    PROVE  ChatOf(t) \in ChatIds
BY SyncAssumption DEF ChatKnown, ChatOf

LEMMA InitInv == Init => IInv
<1> SUFFICES ASSUME Init
             PROVE  IInv
  OBVIOUS
<1>1. /\ Torn \in Nat \ {0} /\ NoToken = 0
      /\ \A b \in Bots : token[b] \in {0, 1}
  BY SyncAssumption DEF Init, Torn, NoToken
<1>2. token \in [Bots -> 0..Torn] /\ epoch \in [Bots -> 1..Torn]
  BY <1>1 DEF Init
<1>3. \A r \in Requests :
          /\ outcome[r] = [t \in TargetsOf[r] |-> "pending"]
          /\ i[r] = 1
  BY DEF Init
<1>4. outcome = [r \in Requests |-> outcome[r]]
  BY DEF Init
<1>5. ASSUME NEW r \in Requests
      PROVE  /\ outcome[r] \in [TargetsOf[r] -> {"pending", "sent", "failed"}]
             /\ i[r] <= Len(Targets[r]) + 1
             /\ \A k \in DOMAIN Targets[r] :
                    outcome[r][Targets[r][k]] = "pending" <=> k >= i[r]
  <2>1. Len(Targets[r]) \in Nat
    BY TargetsAreSeq
  <2>2. \A k \in DOMAIN Targets[r] : Targets[r][k] \in TargetsOf[r] /\ k >= 1
    BY TargetsAreSeq
  <2>3. outcome[r] \in [TargetsOf[r] -> {"pending", "sent", "failed"}]
    BY <1>3
  <2>4. \A k \in DOMAIN Targets[r] : outcome[r][Targets[r][k]] = "pending"
    BY <1>3, <2>2
  <2>5. i[r] = 1
    BY <1>3
  <2>6. i[r] <= Len(Targets[r]) + 1
    BY <2>1, <2>5
  <2>7. \A k \in DOMAIN Targets[r] : k >= i[r]
    BY <2>2, <2>5
  <2> QED
    BY <2>3, <2>4, <2>6, <2>7
<1>6. TypeOK
  BY <1>1, <1>2, <1>4, <1>5 DEF Init, TypeOK, Place, NoToken
<1>7. AdmittedInv /\ RouteInv /\ DeliveredInv /\ OncePerTarget /\ HealInv
  BY DEF Init, AdmittedInv, RouteInv, InFlight, DeliveredInv, OncePerTarget, HealInv
<1> QED
  BY <1>6, <1>7 DEF IInv

-----------------------------------------------------------------------------
(* One more message, for the target a request is at.                       *)
LEMMA AcceptInv ==
    ASSUME IInv, NEW r \in Requests, pc[r] \in InFlight, Accept(r), UNCHANGED server
    PROVE  /\ delivered' \in [Requests -> Seq([chat : ChatIds, bot : Bots, target : Names])]
           /\ \A q \in Requests \ {r} : delivered'[q] = delivered[q]
           /\ \A k, l \in DOMAIN delivered'[r] :
                  delivered'[r][k].target = delivered'[r][l].target => k = l
           /\ \A k \in DOMAIN delivered'[r] :
                  LET d == delivered'[r][k] IN
                  /\ d.target \in Behind(r) \cup {Target(r)}
                  /\ d.chat = ChatOf(d.target)
                  /\ d.bot = RequestBot(r, d.target) /\ d.bot # None
<1> DEFINE m == [chat |-> route[r].chat, bot |-> route[r].bot, target |-> Target(r)]
           D == [chat : ChatIds, bot : Bots, target : Names]
<1>1. /\ MoreToDo(r) /\ ChatKnown(Target(r)) /\ RequestBot(r, Target(r)) # None
      /\ route[r] = [chat |-> ChatOf(Target(r)), bot |-> RequestBot(r, Target(r))]
  BY DEF IInv, RouteInv
<1>2. m \in D
  BY <1>1, TargetIn, RequestBotIsBot, ChatOfIsChat DEF IInv
<1>3. delivered' = [delivered EXCEPT ![r] = Append(@, m)]
  BY DEF Accept
<1>4. delivered[r] \in Seq(D)
  BY DEF IInv, TypeOK
<1>5. /\ delivered'[r] = Append(delivered[r], m) /\ delivered'[r] \in Seq(D)
      /\ \A q \in Requests \ {r} : delivered'[q] = delivered[q]
  BY <1>2, <1>3, <1>4 DEF IInv, TypeOK
<1>6. delivered' \in [Requests -> Seq(D)]
  BY <1>3, <1>5 DEF IInv, TypeOK
<1>7. /\ Len(delivered[r]) \in Nat /\ DOMAIN delivered[r] = 1..Len(delivered[r])
      /\ DOMAIN delivered'[r] = 1..(Len(delivered[r]) + 1)
      /\ delivered'[r][Len(delivered[r]) + 1] = m
      /\ \A k \in DOMAIN delivered[r] : delivered'[r][k] = delivered[r][k]
  BY <1>4, <1>5
<1>8. Target(r) \notin Behind(r)
  <2>1. i[r] \in DOMAIN Targets[r] /\ Target(r) = Targets[r][i[r]] /\ i[r] \in Nat
    BY <1>1, TargetIn DEF IInv, TypeOK, Target
  <2>2. \A k \in DOMAIN Targets[r] : k < i[r] => Targets[r][k] # Targets[r][i[r]]
    BY <2>1, TargetsAreSeq
  <2> QED
    BY <2>1, <2>2 DEF Behind
<1>9. \A k \in DOMAIN delivered[r] : delivered'[r][k].target \in Behind(r)
  BY <1>7 DEF IInv, DeliveredInv
<1>10. \A k, l \in DOMAIN delivered'[r] :
           delivered'[r][k].target = delivered'[r][l].target => k = l
  <2>1. \A k, l \in DOMAIN delivered[r] :
            delivered'[r][k].target = delivered'[r][l].target => k = l
    BY <1>7 DEF IInv, OncePerTarget
  <2>2. \A k \in DOMAIN delivered'[r] :
            k \in DOMAIN delivered[r] \/ k = Len(delivered[r]) + 1
    BY <1>7
  <2> QED
    BY <1>7, <1>8, <1>9, <2>1, <2>2
<1>11. ASSUME NEW k \in DOMAIN delivered'[r]
       PROVE  LET d == delivered'[r][k] IN
              /\ d.target \in Behind(r) \cup {Target(r)}
              /\ d.chat = ChatOf(d.target)
              /\ d.bot = RequestBot(r, d.target) /\ d.bot # None
  <2>1. CASE k \in DOMAIN delivered[r]
    BY <2>1, <1>7 DEF IInv, DeliveredInv
  <2>2. CASE k = Len(delivered[r]) + 1
    BY <2>2, <1>7, <1>1
  <2> QED
    BY <1>7, <2>1, <2>2
<1> QED
  BY <1>5, <1>6, <1>10, <1>11

(* A target that is over, whatever became of it, leaves the request at the *)
(* next and keeps the invariant.                                           *)
LEMMA TriedInv ==
    ASSUME IInv, NEW r \in Requests, NEW o \in {"sent", "failed"},
           MoreToDo(r), pc[r] \in InFlight \cup {"target"},
           NextTarget(r), Advance(r),
           outcome' = [outcome EXCEPT ![r][Target(r)] = o],
           UNCHANGED <<server, senderVars, disturbed>>,
           UNCHANGED delivered \/ (pc[r] \in InFlight /\ Accept(r))
    PROVE  IInv'
<1>1. /\ pc' = [pc EXCEPT ![r] = "target"]
      /\ route' = [route EXCEPT ![r] = NoRoute]
      /\ fresh' = [fresh EXCEPT ![r] = NoToken]
      /\ used' = [used EXCEPT ![r] = NoToken]
      /\ i' = [i EXCEPT ![r] = @ + 1]
      /\ UNCHANGED <<server, token, epoch, disturbed, answer>>
  BY DEF NextTarget, Advance, senderVars
<1>2. /\ i[r] \in DOMAIN Targets[r] /\ i[r] \in 1..Len(Targets[r])
      /\ Target(r) \in TargetsOf[r] /\ Target(r) = Targets[r][i[r]]
      /\ Len(Targets[r]) \in Nat /\ DOMAIN Targets[r] = 1..Len(Targets[r])
  BY TargetIn, TargetsAreSeq DEF IInv, Target
<1>3. NoToken \in 0..Torn
  BY SyncAssumption DEF NoToken, Torn
<1>4. /\ delivered' \in [Requests -> Seq([chat : ChatIds, bot : Bots, target : Names])]
      /\ \A q \in Requests \ {r} : delivered'[q] = delivered[q]
      /\ \A k, l \in DOMAIN delivered'[r] :
             delivered'[r][k].target = delivered'[r][l].target => k = l
      /\ \A k \in DOMAIN delivered'[r] :
             LET d == delivered'[r][k] IN
             /\ d.target \in Behind(r) \cup {Target(r)}
             /\ d.chat = ChatOf(d.target)
             /\ d.bot = RequestBot(r, d.target) /\ d.bot # None
  <2>1. CASE UNCHANGED delivered
    <3>1. /\ delivered \in [Requests -> Seq([chat : ChatIds, bot : Bots, target : Names])]
          /\ OncePerTarget /\ DeliveredInv
      BY DEF IInv, TypeOK
    <3>2. \A k, l \in DOMAIN delivered[r] :
              delivered[r][k].target = delivered[r][l].target => k = l
      BY <3>1 DEF OncePerTarget
    <3>3. \A k \in DOMAIN delivered[r] :
              LET d == delivered[r][k] IN
              /\ d.target \in Behind(r) \cup {Target(r)}
              /\ d.chat = ChatOf(d.target)
              /\ d.bot = RequestBot(r, d.target) /\ d.bot # None
      BY <3>1 DEF DeliveredInv
    <3> QED
      BY <2>1, <3>1, <3>2, <3>3
  <2>2. CASE pc[r] \in InFlight /\ Accept(r)
    BY <1>1, <2>2, AcceptInv
  <2> QED
    BY <2>1, <2>2
<1>5. TypeOK'
  <2>1. /\ pc' \in [Requests -> Place]
        /\ route' \in [Requests -> [chat : ChatIds, bot : Bots] \cup {NoRoute}]
        /\ fresh' \in [Requests -> 0..Torn] /\ used' \in [Requests -> 0..Torn]
        /\ i' \in [Requests -> Nat \ {0}]
    BY <1>1, <1>3 DEF IInv, TypeOK, Place
  <2>2. outcome' = [q \in Requests |-> outcome'[q]]
    BY DEF IInv, TypeOK
  <2>3. ASSUME NEW q \in Requests
        PROVE  /\ outcome'[q] \in [TargetsOf[q] -> {"pending", "sent", "failed"}]
               /\ i'[q] <= Len(Targets[q]) + 1
               /\ \A k \in DOMAIN Targets[q] :
                      outcome'[q][Targets[q][k]] = "pending" <=> k >= i'[q]
    <3>1. CASE q # r
      <4>1. i'[q] = i[q] /\ outcome'[q] = outcome[q]
        BY <1>1, <3>1 DEF IInv, TypeOK
      <4>2. /\ outcome[q] \in [TargetsOf[q] -> {"pending", "sent", "failed"}]
            /\ i[q] <= Len(Targets[q]) + 1
            /\ \A k \in DOMAIN Targets[q] :
                   outcome[q][Targets[q][k]] = "pending" <=> k >= i[q]
        BY DEF IInv, TypeOK
      <4> QED
        BY <4>1, <4>2
    <3>2. CASE q = r
      <4>1. /\ i'[r] = i[r] + 1 /\ i[r] \in Nat
            /\ outcome'[r] = [outcome[r] EXCEPT ![Target(r)] = o]
        BY <1>1 DEF IInv, TypeOK
      <4>2. outcome[r] \in [TargetsOf[r] -> {"pending", "sent", "failed"}]
        BY DEF IInv, TypeOK
      <4>3. outcome'[r] \in [TargetsOf[r] -> {"pending", "sent", "failed"}]
        BY <4>1, <4>2
      <4>4. ASSUME NEW k \in DOMAIN Targets[r]
            PROVE  outcome'[r][Targets[r][k]] = "pending" <=> k >= i'[r]
        <5>1. Targets[r][k] \in TargetsOf[r] /\ k \in Nat
          BY <1>2, TargetsAreSeq
        <5>2. outcome[r][Targets[r][k]] = "pending" <=> k >= i[r]
          BY DEF IInv, TypeOK
        <5>3. CASE k = i[r]
          BY <5>3, <4>1, <4>2, <1>2
        <5>4. CASE k # i[r]
          <6>1. Targets[r][k] # Target(r)
            BY <5>4, <1>2, TargetsAreSeq
          <6>2. outcome'[r][Targets[r][k]] = outcome[r][Targets[r][k]]
            BY <6>1, <5>1, <4>1, <4>2
          <6> QED
            BY <6>2, <5>1, <5>2, <5>4, <4>1
        <5> QED
          BY <5>3, <5>4
      <4>5. i'[r] <= Len(Targets[r]) + 1
        BY <4>1, <1>2
      <4> QED
        BY <3>2, <4>3, <4>4, <4>5
    <3> QED
      BY <3>1, <3>2
  <2>4. /\ server' \in Servers
        /\ token' \in [Bots -> 0..Torn] /\ epoch' \in [Bots -> 1..Torn]
        /\ answer' \in [Requests -> {"none", "accepted", "failed", "forbidden", "invalid"}]
        /\ disturbed' \subseteq Requests
    BY <1>1 DEF IInv, TypeOK
  <2>5. delivered' \in [Requests -> Seq([chat : ChatIds, bot : Bots, target : Names])]
    BY <1>4
  <2> QED
    BY <2>1, <2>2, <2>3, <2>4, <2>5 DEF TypeOK
<1>6. AdmittedInv'
  <2>1. \A q \in Requests \ {r} : pc'[q] = pc[q] /\ i'[q] = i[q]
    BY <1>1 DEF IInv, TypeOK
  <2>2. pc'[r] = "target" /\ Authorized(r) /\ Targets[r] # <<>> /\ answer[r] = "none"
    BY <1>1 DEF IInv, TypeOK, AdmittedInv, InFlight
  <2>3. \A q \in Requests : Authorized(q)' <=> Authorized(q)
    BY DEF Authorized
  <2> QED
    BY <1>1, <1>4, <2>1, <2>2, <2>3 DEF IInv, AdmittedInv
<1>7. RouteInv'
  <2>1. pc'[r] \notin InFlight
    BY <1>1 DEF IInv, TypeOK, InFlight
  <2>2. \A q \in Requests \ {r} : pc'[q] = pc[q] /\ i'[q] = i[q] /\ route'[q] = route[q]
    BY <1>1 DEF IInv, TypeOK
  <2>3. ASSUME NEW q \in Requests, pc'[q] \in InFlight
        PROVE  /\ MoreToDo(q)'
               /\ ChatKnown(Target(q)')
               /\ RequestBot(q, Target(q))' # None
               /\ route'[q] = [chat |-> ChatOf(Target(q)'),
                               bot |-> RequestBot(q, Target(q))']
    BY <1>1, <2>1, <2>2, <2>3
       DEF IInv, RouteInv, MoreToDo, Target, RequestBot, ChatKnown, ChatOf
  <2> QED
    BY <2>3 DEF RouteInv, ChatKnown, ChatOf
<1>8. DeliveredInv'
  <2>2. \A q \in Requests \ {r} : Behind(q)' = Behind(q)
    BY <1>1 DEF IInv, TypeOK, Behind
  <2>3. Behind(r) \cup {Target(r)} \subseteq Behind(r)'
    <3>1. i'[r] = i[r] + 1 /\ i[r] \in Nat
      BY <1>1 DEF IInv, TypeOK
    <3> QED
      BY <3>1, <1>2 DEF Behind
  <2>4. ASSUME NEW q \in Requests, NEW k \in DOMAIN delivered'[q]
        PROVE  LET d == delivered'[q][k] IN
               /\ d.target \in Behind(q)'
               /\ d.chat = ChatOf(d.target)
               /\ d.bot = RequestBot(q, d.target) /\ d.bot # None
    <3>1. CASE q = r
      BY <3>1, <1>4, <2>3
    <3>2. CASE q # r
      BY <3>2, <1>4, <2>2 DEF IInv, DeliveredInv
    <3> QED
      BY <3>1, <3>2
  <2> QED
    BY <2>4, <1>1 DEF DeliveredInv, RequestBot
<1>9. OncePerTarget'
  BY <1>4 DEF IInv, OncePerTarget
<1>10. HealInv'
  BY <1>1 DEF IInv, TypeOK, HealInv
<1> QED
  BY <1>5, <1>6, <1>7, <1>8, <1>9, <1>10 DEF IInv

(* A step that delivers nothing and leaves no target behind.               *)
LEMMA QuietInv ==
    ASSUME IInv, UNCHANGED <<server, i, delivered>>
    PROVE  DeliveredInv' /\ OncePerTarget'
<1>1. \A r \in Requests : Behind(r)' = Behind(r)
  BY DEF Behind
<1>2. ASSUME NEW r \in Requests, NEW k \in DOMAIN delivered[r]
      PROVE  LET d == delivered[r][k] IN
             /\ d.target \in Behind(r)'
             /\ d.chat = ChatOf(d.target)
             /\ d.bot = RequestBot(r, d.target) /\ d.bot # None
  BY <1>1 DEF IInv, DeliveredInv
<1>3. DeliveredInv'
  BY <1>2 DEF DeliveredInv, RequestBot
<1>4. OncePerTarget'
  BY DEF IInv, OncePerTarget
<1> QED
  BY <1>3, <1>4

LEMMA QuietTypes ==
    ASSUME TypeOK, UNCHANGED <<server, i, outcome, delivered>>,
           token' \in [Bots -> 0..Torn], epoch' \in [Bots -> 1..Torn],
           pc' \in [Requests -> Place],
           route' \in [Requests -> [chat : ChatIds, bot : Bots] \cup {NoRoute}],
           fresh' \in [Requests -> 0..Torn], used' \in [Requests -> 0..Torn],
           answer' \in [Requests -> {"none", "accepted", "failed", "forbidden", "invalid"}],
           disturbed' \subseteq Requests
    PROVE  TypeOK'
<1>1. /\ server' \in Servers
      /\ i' \in [Requests -> Nat \ {0}]
      /\ delivered' \in [Requests -> Seq([chat : ChatIds, bot : Bots, target : Names])]
  BY DEF TypeOK
<1>o. outcome' = [r \in Requests |-> outcome'[r]]
  <2>1. outcome = [r \in Requests |-> outcome[r]]
    BY DEF TypeOK
  <2> QED
    BY <2>1
<1>2. \A r \in Requests :
          /\ outcome'[r] \in [TargetsOf[r] -> {"pending", "sent", "failed"}]
          /\ i'[r] <= Len(Targets[r]) + 1
          /\ \A k \in DOMAIN Targets[r] :
                 outcome'[r][Targets[r][k]] = "pending" <=> k >= i'[r]
  BY DEF TypeOK
<1> QED
  BY <1>1, <1>o, <1>2 DEF TypeOK

(* The places of the others stay, r goes from one place in flight to the   *)
(* next: nothing changes for admission and routes.                         *)
LEMMA OnTheWay ==
    ASSUME IInv, NEW r \in Requests, NEW l \in InFlight,
           pc[r] \in InFlight, pc' = [pc EXCEPT ![r] = l],
           UNCHANGED <<server, i, route, outcome, answer, delivered>>
    PROVE  AdmittedInv' /\ RouteInv'
<1>1. /\ pc'[r] = l
      /\ \A q \in Requests \ {r} : pc'[q] = pc[q]
  BY DEF IInv, TypeOK
<1>2. AdmittedInv'
  BY <1>1 DEF IInv, AdmittedInv, InFlight, Authorized
<1>3. RouteInv'
  BY <1>1 DEF IInv, RouteInv, MoreToDo, Target, RequestBot, ChatKnown, ChatOf
<1> QED
  BY <1>2, <1>3

LEMMA RespondInv ==
    ASSUME IInv, NEW r \in Requests, pc[r] \in {"new", "target"},
           NEW a \in {"accepted", "failed", "forbidden", "invalid"},
           Respond(r, a), UNCHANGED <<server, senderVars>>
    PROVE  IInv'
<1>1. /\ pc' = [pc EXCEPT ![r] = "done"]
      /\ answer' = [answer EXCEPT ![r] = a]
      /\ UNCHANGED <<server, token, epoch, i, route, fresh, used, outcome, delivered,
                     disturbed>>
  BY DEF Respond, senderVars
<1>2. /\ pc'[r] = "done" /\ answer'[r] = a
      /\ \A q \in Requests \ {r} : pc'[q] = pc[q] /\ answer'[q] = answer[q]
  BY <1>1 DEF IInv, TypeOK
<1>3. TypeOK'
  <2>1. /\ token' \in [Bots -> 0..Torn] /\ epoch' \in [Bots -> 1..Torn]
        /\ route' \in [Requests -> [chat : ChatIds, bot : Bots] \cup {NoRoute}]
        /\ fresh' \in [Requests -> 0..Torn] /\ used' \in [Requests -> 0..Torn]
        /\ disturbed' \subseteq Requests
    BY <1>1 DEF IInv, TypeOK
  <2>2. answer' \in [Requests -> {"none", "accepted", "failed", "forbidden", "invalid"}]
    BY <1>1 DEF IInv, TypeOK
  <2>3. pc' \in [Requests -> Place]
    BY <1>1 DEF IInv, TypeOK, Place
  <2> QED
    BY <1>1, <2>1, <2>2, <2>3, QuietTypes DEF IInv
<1>4. AdmittedInv'
  BY <1>1, <1>2 DEF IInv, AdmittedInv, Authorized
<1>5. RouteInv'
  BY <1>1, <1>2 DEF IInv, RouteInv, InFlight, MoreToDo, Target, RequestBot, ChatKnown, ChatOf
<1>6. HealInv'
  BY <1>1, <1>2 DEF IInv, HealInv
<1> QED
  BY <1>1, <1>3, <1>4, <1>5, <1>6, QuietInv DEF IInv

-----------------------------------------------------------------------------
(* One lemma per action.                                                   *)

LEMMA ArriveInv ==
    ASSUME IInv, NEW r \in Requests, Arrive(r)
    PROVE  IInv'
<1>1. CASE Respond(r, "forbidden") \/ Respond(r, "invalid")
  BY <1>1, RespondInv DEF Arrive
<1>2. CASE ~(Respond(r, "forbidden") \/ Respond(r, "invalid"))
  <2>1. /\ pc[r] = "new" /\ Targets[r] # <<>> /\ Authorized(r)
        /\ pc' = [pc EXCEPT ![r] = "target"]
        /\ UNCHANGED <<server, token, epoch, i, route, fresh, used, outcome, answer,
                       delivered, disturbed>>
    BY <1>2 DEF Arrive, senderVars
  <2>2. /\ pc'[r] = "target"
        /\ \A q \in Requests \ {r} : pc'[q] = pc[q]
    BY <2>1 DEF IInv, TypeOK
  <2>3. TypeOK'
    <3>1. /\ token' \in [Bots -> 0..Torn] /\ epoch' \in [Bots -> 1..Torn]
          /\ route' \in [Requests -> [chat : ChatIds, bot : Bots] \cup {NoRoute}]
          /\ fresh' \in [Requests -> 0..Torn] /\ used' \in [Requests -> 0..Torn]
          /\ answer' \in [Requests -> {"none", "accepted", "failed", "forbidden", "invalid"}]
          /\ disturbed' \subseteq Requests
      BY <2>1 DEF IInv, TypeOK
    <3>2. pc' \in [Requests -> Place]
      BY <2>1 DEF IInv, TypeOK, Place
    <3> QED
      BY <2>1, <3>1, <3>2, QuietTypes DEF IInv
  <2>4. AdmittedInv'
    BY <2>1, <2>2 DEF IInv, AdmittedInv, Authorized
  <2>5. RouteInv'
    BY <2>1, <2>2
       DEF IInv, RouteInv, InFlight, MoreToDo, Target, RequestBot, ChatKnown, ChatOf
  <2>6. HealInv'
    BY <2>1, <2>2 DEF IInv, HealInv
  <2> QED
    BY <2>1, <2>3, <2>4, <2>5, <2>6, QuietInv DEF IInv
<1> QED
  BY <1>1, <1>2

LEMMA FailInv ==
    ASSUME IInv, NEW r \in Requests, MoreToDo(r), Fail(r),
           pc[r] \in InFlight \cup {"target"},
           UNCHANGED <<server, senderVars, disturbed>>,
           UNCHANGED delivered \/ (pc[r] \in InFlight /\ Accept(r))
    PROVE  IInv'
BY TriedInv DEF Fail

LEMMA BeginTargetInv ==
    ASSUME IInv, NEW r \in Requests, BeginTarget(r)
    PROVE  IInv'
<1> DEFINE t == Target(r)
           b == RequestBot(r, t)
<1>1. /\ pc[r] = "target" /\ MoreToDo(r)
      /\ UNCHANGED <<server, senderVars, delivered>>
  BY DEF BeginTarget
<1>2. CASE ~ChatKnown(t) \/ b = None
  <2>1. Fail(r) /\ UNCHANGED disturbed
    BY <1>2 DEF BeginTarget
  <2> QED
    BY <1>1, <2>1, FailInv
<1>3. CASE ChatKnown(t) /\ b # None
  <2> DEFINE R == [chat |-> ChatOf(t), bot |-> b]
  <2>0. /\ route' = [route EXCEPT ![r] = R]
        /\ \E l \in AfterTokenTest(b) : pc' = [pc EXCEPT ![r] = l]
        /\ disturbed' = disturbed \ {r}
        /\ UNCHANGED <<server, token, epoch, i, fresh, used, outcome, answer, delivered>>
    BY <1>1, <1>3 DEF BeginTarget, senderVars
  <2>2. PICK l \in {"login", "send"} : pc' = [pc EXCEPT ![r] = l]
    BY <2>0 DEF AfterTokenTest
  <2>1. /\ route' = [route EXCEPT ![r] = R]
        /\ pc' = [pc EXCEPT ![r] = l]
        /\ disturbed' = disturbed \ {r}
        /\ UNCHANGED <<server, token, epoch, i, fresh, used, outcome, answer, delivered>>
    BY <2>0, <2>2
  <2>3. R \in [chat : ChatIds, bot : Bots]
    BY <1>3, RequestBotIsBot, ChatOfIsChat DEF IInv
  <2>4. /\ pc'[r] = l /\ route'[r] = R
        /\ \A q \in Requests \ {r} : pc'[q] = pc[q] /\ route'[q] = route[q]
    BY <2>1 DEF IInv, TypeOK
  <2>5. TypeOK'
    <3>1. /\ token' \in [Bots -> 0..Torn] /\ epoch' \in [Bots -> 1..Torn]
          /\ fresh' \in [Requests -> 0..Torn] /\ used' \in [Requests -> 0..Torn]
          /\ answer' \in [Requests -> {"none", "accepted", "failed", "forbidden", "invalid"}]
          /\ disturbed' \subseteq Requests
      BY <2>1 DEF IInv, TypeOK
    <3>2. pc' \in [Requests -> Place]
      BY <2>1, <2>2 DEF IInv, TypeOK, Place
    <3>3. route' \in [Requests -> [chat : ChatIds, bot : Bots] \cup {NoRoute}]
      BY <2>1, <2>3 DEF IInv, TypeOK
    <3> QED
      BY <2>1, <3>1, <3>2, <3>3, QuietTypes DEF IInv
  <2>6. AdmittedInv'
    BY <1>1, <2>1, <2>2, <2>4 DEF IInv, AdmittedInv, Authorized
  <2>7. RouteInv'
    <3>1. ASSUME NEW q \in Requests, pc'[q] \in InFlight
          PROVE  /\ MoreToDo(q)
                 /\ ChatKnown(Target(q))
                 /\ RequestBot(q, Target(q)) # None
                 /\ route'[q] = [chat |-> ChatOf(Target(q)),
                                 bot |-> RequestBot(q, Target(q))]
      <4>1. CASE q = r
        BY <4>1, <1>1, <1>3, <2>4
      <4>2. CASE q # r
        BY <4>2, <3>1, <2>4 DEF IInv, RouteInv
      <4> QED
        BY <4>1, <4>2
    <3> QED
      BY <2>1, <3>1 DEF RouteInv, MoreToDo, Target, RequestBot, ChatKnown, ChatOf
  <2>8. HealInv'
    BY <2>1, <2>2, <2>4 DEF IInv, HealInv
  <2> QED
    BY <2>1, <2>5, <2>6, <2>7, <2>8, QuietInv DEF IInv
<1> QED
  BY <1>2, <1>3

(* Where a request in flight is going has a bot.                           *)
LEMMA RouteBot ==
    ASSUME IInv, NEW r \in Requests, pc[r] \in InFlight
    PROVE  MoreToDo(r) /\ route[r].bot \in Bots
<1>1. /\ MoreToDo(r) /\ RequestBot(r, Target(r)) # None
      /\ route[r] = [chat |-> ChatOf(Target(r)), bot |-> RequestBot(r, Target(r))]
  BY DEF IInv, RouteInv
<1>2. RequestBot(r, Target(r)) \in Bots
  BY <1>1, RequestBotIsBot DEF IInv
<1> QED
  BY <1>1, <1>2

LEMMA RefreshInv ==
    ASSUME IInv, NEW r \in Requests, Refresh(r)
    PROVE  IInv'
<1>1. /\ pc[r] \in {"login", "refresh"} /\ pc[r] \in InFlight
      /\ UNCHANGED <<server, senderVars, delivered, disturbed>>
  BY DEF Refresh, InFlight
<1>2. CASE Fail(r)
  BY <1>1, <1>2, RouteBot, FailInv
<1>3. CASE ~Fail(r)
  <2> DEFINE l == IF pc[r] = "login" THEN "store" ELSE "restore"
  <2>1. /\ fresh' = [fresh EXCEPT ![r] = epoch[route[r].bot]]
        /\ pc' = [pc EXCEPT ![r] = l]
        /\ UNCHANGED <<server, token, epoch, i, route, used, outcome, answer, delivered,
                       disturbed>>
    BY <1>1, <1>3 DEF Refresh, FreshToken, senderVars
  <2> HIDE DEF l
  <2>2. l \in {"store", "restore"} /\ l \in InFlight
    BY DEF l, InFlight
  <2>3. epoch[route[r].bot] \in 0..Torn
    <3>1. route[r].bot \in Bots
      BY <1>1, RouteBot
    <3>2. epoch \in [Bots -> 1..Torn]
      BY DEF IInv, TypeOK
    <3> QED
      BY <3>1, <3>2
  <2>4. /\ pc'[r] = l /\ fresh'[r] = epoch[route[r].bot]
        /\ \A q \in Requests \ {r} : pc'[q] = pc[q] /\ fresh'[q] = fresh[q]
    BY <2>1 DEF IInv, TypeOK
  <2>5. TypeOK'
    <3>1. /\ token' \in [Bots -> 0..Torn] /\ epoch' \in [Bots -> 1..Torn]
          /\ route' \in [Requests -> [chat : ChatIds, bot : Bots] \cup {NoRoute}]
          /\ used' \in [Requests -> 0..Torn]
          /\ answer' \in [Requests -> {"none", "accepted", "failed", "forbidden", "invalid"}]
          /\ disturbed' \subseteq Requests
      BY <2>1 DEF IInv, TypeOK
    <3>2. pc' \in [Requests -> Place]
      BY <2>1, <2>2 DEF IInv, TypeOK, Place
    <3>3. fresh' \in [Requests -> 0..Torn]
      BY <2>1, <2>3 DEF IInv, TypeOK
    <3> QED
      BY <2>1, <3>1, <3>2, <3>3, QuietTypes DEF IInv
  <2>6. HealInv'
    BY <2>1, <2>2, <2>4 DEF IInv, HealInv
  <2> QED
    BY <1>1, <2>1, <2>2, <2>5, <2>6, QuietInv, OnTheWay DEF IInv
<1> QED
  BY <1>2, <1>3

(* A request that stores a token disturbs the others of its bot.           *)
LEMMA StoreInv ==
    ASSUME IInv, NEW r \in Requests, Store(r)
    PROVE  IInv'
<1> DEFINE l == IF pc[r] = "store" THEN "send" ELSE "resend"
           b == route[r].bot
<1>1. /\ pc[r] \in {"store", "restore"} /\ pc[r] \in InFlight
      /\ token' = [token EXCEPT ![b] = fresh[r]]
      /\ pc' = [pc EXCEPT ![r] = l]
      /\ disturbed' = disturbed \cup {q \in Requests \ {r} : route[q].bot = b}
      /\ UNCHANGED <<server, epoch, i, route, fresh, used, outcome, answer, delivered>>
  BY DEF Store, InFlight
<1>2. l \in {"send", "resend"} /\ l \in InFlight
      /\ (l = "resend" => pc[r] = "restore")
  BY <1>1 DEF InFlight
<1> HIDE DEF l
<1>3. b \in Bots
  BY <1>1, RouteBot
<1>4. /\ pc'[r] = l /\ token'[b] = fresh[r]
      /\ \A q \in Requests \ {r} : pc'[q] = pc[q]
      /\ \A c \in Bots \ {b} : token'[c] = token[c]
  BY <1>1, <1>3 DEF IInv, TypeOK
<1>5. TypeOK'
  <2>1. /\ epoch' \in [Bots -> 1..Torn]
        /\ route' \in [Requests -> [chat : ChatIds, bot : Bots] \cup {NoRoute}]
        /\ fresh' \in [Requests -> 0..Torn] /\ used' \in [Requests -> 0..Torn]
        /\ answer' \in [Requests -> {"none", "accepted", "failed", "forbidden", "invalid"}]
        /\ disturbed' \subseteq Requests
    BY <1>1 DEF IInv, TypeOK
  <2>2. pc' \in [Requests -> Place]
    BY <1>1, <1>2 DEF IInv, TypeOK, Place
  <2>3. token' \in [Bots -> 0..Torn]
    BY <1>1 DEF IInv, TypeOK
  <2> QED
    BY <1>1, <2>1, <2>2, <2>3, QuietTypes DEF IInv
<1>6. HealInv'
  <2>1. ASSUME NEW q \in Requests \ disturbed'
        PROVE  /\ pc'[q] = "restore" => fresh[q] = epoch[route[q].bot]
               /\ pc'[q] = "resend" => token'[route[q].bot] = epoch[route[q].bot]
               /\ pc'[q] = "resent" => used[q] = epoch[route[q].bot]
    <3>1. q \in Requests \ disturbed
      BY <2>1, <1>1
    <3>2. CASE q = r
      BY <3>1, <3>2, <1>1, <1>2, <1>4 DEF IInv, HealInv
    <3>3. CASE q # r
      <4>1. route[q].bot # b /\ pc'[q] = pc[q]
        BY <2>1, <3>3, <1>1, <1>4
      <4>2. CASE pc[q] = "resend"
        <5>1. route[q].bot \in Bots
          BY <4>2, RouteBot DEF InFlight
        <5> QED
          BY <3>1, <4>1, <4>2, <5>1, <1>4 DEF IInv, HealInv
      <4> QED
        BY <3>1, <4>1, <4>2 DEF IInv, HealInv
    <3> QED
      BY <3>2, <3>3
  <2> QED
    BY <2>1, <1>1 DEF HealInv
<1> QED
  BY <1>1, <1>2, <1>5, <1>6, QuietInv, OnTheWay DEF IInv

(* Undisturbed by a token being stored, a call carries the one there is.   *)
LEMMA CallInv ==
    ASSUME IInv, NEW r \in Requests, Call(r)
    PROVE  IInv'
<1> DEFINE b == route[r].bot
<1>1. /\ pc[r] \in {"send", "resend"} /\ pc[r] \in InFlight
      /\ disturbed' = IF Storing(b) # {} THEN disturbed \cup {r} ELSE disturbed
      /\ UNCHANGED <<server, token, epoch, i, route, fresh, outcome, answer, delivered>>
  BY DEF Call, InFlight, senderVars
<1>2. PICK l \in {"sent", "resent", "aborted"} :
          /\ pc' = [pc EXCEPT ![r] = l]
          /\ l = "resent" => pc[r] = "resend"
          /\ UNCHANGED used \/ \E t \in TokensRead(b) : used' = [used EXCEPT ![r] = t]
          /\ l # "aborted" => \E t \in TokensRead(b) : used' = [used EXCEPT ![r] = t]
  BY <1>1 DEF Call
<1>3. l \in InFlight
  BY <1>2 DEF InFlight
<1>4. b \in Bots
  BY <1>1, RouteBot
<1>5. Torn \in 0..Torn
  BY SyncAssumption DEF Torn
<1>6. TokensRead(b) \subseteq 0..Torn
  <2>1. token[b] \in 0..Torn /\ \A q \in Requests : fresh[q] \in 0..Torn
    BY <1>4 DEF IInv, TypeOK
  <2> QED
    BY <2>1, <1>5 DEF TokensRead, Storing
<1>7. /\ pc'[r] = l
      /\ \A q \in Requests \ {r} : pc'[q] = pc[q] /\ used'[q] = used[q]
  BY <1>2 DEF IInv, TypeOK
<1>8. TypeOK'
  <2>1. /\ token' \in [Bots -> 0..Torn] /\ epoch' \in [Bots -> 1..Torn]
        /\ route' \in [Requests -> [chat : ChatIds, bot : Bots] \cup {NoRoute}]
        /\ fresh' \in [Requests -> 0..Torn]
        /\ answer' \in [Requests -> {"none", "accepted", "failed", "forbidden", "invalid"}]
        /\ disturbed' \subseteq Requests
    BY <1>1 DEF IInv, TypeOK
  <2>2. pc' \in [Requests -> Place]
    BY <1>2 DEF IInv, TypeOK, Place
  <2>3. used' \in [Requests -> 0..Torn]
    <3>1. used \in [Requests -> 0..Torn]
      BY DEF IInv, TypeOK
    <3>2. used' = used \/ \E t \in 0..Torn : used' = [used EXCEPT ![r] = t]
      BY <1>2, <1>6
    <3> QED
      BY <3>1, <3>2
  <2> QED
    BY <1>1, <2>1, <2>2, <2>3, QuietTypes DEF IInv
<1>9. HealInv'
  <2>1. ASSUME NEW q \in Requests \ disturbed'
        PROVE  /\ pc'[q] = "restore" => fresh[q] = epoch[route[q].bot]
               /\ pc'[q] = "resend" => token[route[q].bot] = epoch[route[q].bot]
               /\ pc'[q] = "resent" => used'[q] = epoch[route[q].bot]
    <3>1. q \in Requests \ disturbed
      BY <2>1, <1>1
    <3>2. CASE q = r
      <4>1. Storing(b) = {}
        BY <2>1, <3>2, <1>1
      <4>2. CASE l = "resent"
        <5>1. used' = [used EXCEPT ![r] = token[b]]
          BY <1>2, <4>1, <4>2 DEF TokensRead
        <5>2. used'[r] = token[b]
          BY <5>1 DEF IInv, TypeOK
        <5>3. token[b] = epoch[b]
          BY <3>1, <3>2, <4>2, <1>2 DEF IInv, HealInv
        <5> QED
          BY <3>2, <4>2, <5>2, <5>3, <1>7
      <4> QED
        BY <3>2, <4>2, <1>2, <1>7
    <3>3. CASE q # r
      BY <3>1, <3>3, <1>7 DEF IInv, HealInv
    <3> QED
      BY <3>2, <3>3
  <2> QED
    BY <2>1, <1>1 DEF HealInv
<1> QED
  BY <1>1, <1>2, <1>3, <1>8, <1>9, QuietInv, OnTheWay DEF IInv

LEMMA CallOKInv ==
    ASSUME IInv, NEW r \in Requests, CallOK(r)
    PROVE  IInv'
<1>1. pc[r] \in InFlight
  BY DEF CallOK, InFlight
<1>2. MoreToDo(r)
  BY <1>1, RouteBot
<1> QED
  BY <1>1, <1>2, TriedInv DEF CallOK

LEMMA CallUnauthorizedInv ==
    ASSUME IInv, NEW r \in Requests, CallUnauthorized(r)
    PROVE  IInv'
<1>1. /\ pc[r] \in InFlight
      /\ UNCHANGED <<server, senderVars, delivered, disturbed>>
  BY DEF CallUnauthorized, InFlight
<1>2. CASE Fail(r)
  BY <1>1, <1>2, RouteBot, FailInv
<1>3. CASE ~Fail(r)
  <2>1. /\ pc' = [pc EXCEPT ![r] = "refresh"]
        /\ UNCHANGED <<server, token, epoch, i, route, fresh, used, outcome, answer,
                       delivered, disturbed>>
    BY <1>1, <1>3 DEF CallUnauthorized, senderVars
  <2>2. /\ pc'[r] = "refresh" /\ "refresh" \in InFlight
        /\ \A q \in Requests \ {r} : pc'[q] = pc[q]
    BY <2>1 DEF IInv, TypeOK, InFlight
  <2>3. TypeOK'
    <3>1. /\ token' \in [Bots -> 0..Torn] /\ epoch' \in [Bots -> 1..Torn]
          /\ route' \in [Requests -> [chat : ChatIds, bot : Bots] \cup {NoRoute}]
          /\ fresh' \in [Requests -> 0..Torn] /\ used' \in [Requests -> 0..Torn]
          /\ answer' \in [Requests -> {"none", "accepted", "failed", "forbidden", "invalid"}]
          /\ disturbed' \subseteq Requests
      BY <2>1 DEF IInv, TypeOK
    <3>2. pc' \in [Requests -> Place]
      BY <2>1 DEF IInv, TypeOK, Place
    <3> QED
      BY <2>1, <3>1, <3>2, QuietTypes DEF IInv
  <2>4. HealInv'
    BY <2>1, <2>2 DEF IInv, HealInv
  <2> QED
    BY <1>1, <2>1, <2>2, <2>3, <2>4, QuietInv, OnTheWay DEF IInv
<1> QED
  BY <1>2, <1>3

LEMMA CallErrorInv ==
    ASSUME IInv, NEW r \in Requests, CallError(r)
    PROVE  IInv'
<1>1. pc[r] \in InFlight
  BY DEF CallError, InFlight
<1>2. MoreToDo(r)
  BY <1>1, RouteBot
<1> QED
  BY <1>1, <1>2, FailInv DEF CallError, GiveUp

LEMMA AnswerInv ==
    ASSUME IInv, NEW r \in Requests, Answer(r)
    PROVE  IInv'
<1>1. StatusOf(r) \in {"accepted", "failed"}
  BY DEF StatusOf
<1> QED
  BY <1>1, RespondInv DEF Answer

(* A revocation disturbs the requests of the bot.                          *)
LEMMA RevokeInv ==
    ASSUME IInv, NEW b \in Bots, Revoke(b)
    PROVE  IInv'
<1>1. /\ epoch[b] < MaxEpoch
      /\ epoch' = [epoch EXCEPT ![b] = @ + 1]
      /\ disturbed' = disturbed \cup {r \in Requests : route[r].bot = b}
      /\ UNCHANGED <<server, token, pc, i, route, fresh, used, outcome, answer, delivered>>
  BY DEF Revoke, requestVars
<1>2. epoch' \in [Bots -> 1..Torn]
  <2>1. epoch[b] + 1 \in 1..Torn
    BY <1>1, SyncAssumption DEF IInv, TypeOK, Torn
  <2> QED
    BY <1>1, <2>1 DEF IInv, TypeOK
<1>3. TypeOK'
  <2>1. /\ token' \in [Bots -> 0..Torn]
        /\ route' \in [Requests -> [chat : ChatIds, bot : Bots] \cup {NoRoute}]
        /\ fresh' \in [Requests -> 0..Torn] /\ used' \in [Requests -> 0..Torn]
        /\ answer' \in [Requests -> {"none", "accepted", "failed", "forbidden", "invalid"}]
        /\ disturbed' \subseteq Requests
        /\ pc' \in [Requests -> Place]
    BY <1>1 DEF IInv, TypeOK
  <2> QED
    BY <1>1, <1>2, <2>1, QuietTypes DEF IInv
<1>4. AdmittedInv' /\ RouteInv'
  BY <1>1 DEF IInv, AdmittedInv, Authorized, RouteInv, MoreToDo, Target, RequestBot,
     ChatKnown, ChatOf
<1>5. HealInv'
  <2>1. ASSUME NEW q \in Requests \ disturbed', pc[q] \in InFlight
        PROVE  epoch'[route[q].bot] = epoch[route[q].bot] /\ q \notin disturbed
    <3>1. route[q].bot \in Bots \ {b}
      BY <2>1, <1>1, RouteBot
    <3> QED
      BY <2>1, <3>1, <1>1 DEF IInv, TypeOK
  <2> QED
    BY <2>1, <1>1 DEF IInv, HealInv, InFlight
<1> QED
  BY <1>1, <1>3, <1>4, <1>5, QuietInv DEF IInv

LEMMA StutterInv == IInv /\ UNCHANGED vars => IInv'
<1> SUFFICES ASSUME IInv, UNCHANGED vars
             PROVE  IInv'
  OBVIOUS
<1>1. UNCHANGED <<server, token, epoch, pc, i, route, fresh, used, outcome, answer,
                  delivered, disturbed>>
  BY DEF vars, senderVars, requestVars
<1>2. TypeOK' /\ HealInv'
  <2>1. TypeOK'
    <3>1. /\ token' \in [Bots -> 0..Torn] /\ epoch' \in [Bots -> 1..Torn]
          /\ pc' \in [Requests -> Place]
          /\ route' \in [Requests -> [chat : ChatIds, bot : Bots] \cup {NoRoute}]
          /\ fresh' \in [Requests -> 0..Torn] /\ used' \in [Requests -> 0..Torn]
          /\ answer' \in [Requests -> {"none", "accepted", "failed", "forbidden", "invalid"}]
          /\ disturbed' \subseteq Requests
      BY <1>1 DEF IInv, TypeOK
    <3> QED
      BY <1>1, <3>1, QuietTypes DEF IInv
  <2>2. HealInv'
    BY <1>1 DEF IInv, HealInv
  <2> QED
    BY <2>1, <2>2
<1>3. AdmittedInv' /\ RouteInv'
  BY <1>1 DEF IInv, AdmittedInv, Authorized, RouteInv, MoreToDo, Target, RequestBot,
     ChatKnown, ChatOf
<1> QED
  BY <1>1, <1>2, <1>3, QuietInv DEF IInv

LEMMA NextInv == IInv /\ [Next]_vars => IInv'
<1> SUFFICES ASSUME IInv, [Next]_vars
             PROVE  IInv'
  OBVIOUS
<1>1. ASSUME NEW r \in Requests, RequestStep(r)
      PROVE  IInv'
  BY <1>1, ArriveInv, BeginTargetInv, RefreshInv, StoreInv, CallInv, CallOKInv,
     CallUnauthorizedInv, CallErrorInv, AnswerInv DEF RequestStep
<1>2. ASSUME NEW b \in Bots, Revoke(b)
      PROVE  IInv'
  BY <1>2, RevokeInv
<1> QED
  BY <1>1, <1>2, StutterInv DEF Next

-----------------------------------------------------------------------------
(* Every reachable state of the synchronous server satisfies the invariant.*)
THEOREM InvariantHolds == Spec => []IInv
BY InitInv, NextInv, PTL DEF Spec

(* Types, and the place of every request in its fan-out: the outcomes are  *)
(* those of the targets behind it (multisend.go, the loop over targets).   *)
THEOREM TypeCorrect == Spec => []TypeOK
<1>1. IInv => TypeOK
  BY DEF IInv
<1> QED
  BY InvariantHolds, <1>1, PTL

(* A scoped key's request reaches nothing unless all its targets resolve   *)
(* to chats of the scope (server/auth.go, authorizeTargets).               *)
THEOREM ScopeSafe == Spec => []ScopedAllOrNothing
<1>1. IInv => ScopedAllOrNothing
  BY DEF IInv, AdmittedInv, ScopedAllOrNothing, Authorized, ChatAllowed
<1> QED
  BY InvariantHolds, <1>1, PTL

(* The bot of a message is the signer's, the request's or the chat's       *)
(* (server/server.go, resolveRequestBot).                                  *)
THEOREM BotSafe == Spec => []RightBot
<1>1. ASSUME IInv
      PROVE  RightBot
  <2>1. ASSUME NEW r \in Requests, NEW k \in DOMAIN delivered[r]
        PROVE  LET d == delivered[r][k] IN
               /\ server.names # {} /\ AuthBot(r) # None => d.bot = AuthBot(r)
               /\ Req[r].bot # None => d.bot = Req[r].bot
               /\ Req[r].bot = None /\ BoundBot(d.target) # None
                      => d.bot = BoundBot(d.target)
               /\ d.chat = ChatOf(d.target)
    <3> DEFINE d == delivered[r][k]
    <3>1. /\ d.chat = ChatOf(d.target)
          /\ d.bot = RequestBot(r, d.target) /\ RequestBot(r, d.target) # None
      BY <1>1 DEF IInv, DeliveredInv
    <3>2. server.single \in {None, server.sender}
      BY <1>1, SyncAssumption DEF IInv, TypeOK
    <3> HIDE DEF d
    <3>3. server.names # {} /\ AuthBot(r) # None => d.bot = AuthBot(r)
      BY <3>1 DEF RequestBot
    <3>4. Wanted(r, d.target) # None => d.bot = Wanted(r, d.target)
      BY <3>1, <3>2 DEF RequestBot
    <3> QED
      BY <3>1, <3>3, <3>4 DEF Wanted, d
  <2> QED
    BY <2>1 DEF RightBot
<1> QED
  BY InvariantHolds, <1>1, PTL

(* BotX accepts at most one message per target of a request                *)
(* (cmd/serve.go, botSender.Send).                                         *)
THEOREM OnceSafe == Spec => []OncePerTarget
<1>1. IInv => OncePerTarget
  BY DEF IInv
<1> QED
  BY InvariantHolds, <1>1, PTL

(* An undisturbed resend carries a token the API accepts                   *)
(* (cmd/serve.go, botSender.Send).                                         *)
THEOREM HealSafe == Spec => []RefreshHeals
<1>1. IInv => RefreshHeals
  BY DEF IInv, HealInv, RefreshHeals, TokenAccepted
<1> QED
  BY InvariantHolds, <1>1, PTL

-----------------------------------------------------------------------------
(* The synchronous send implements Fanout.                                 *)

Reached(r) == {delivered[r][k].target : k \in DOMAIN delivered[r]}

LEMMA FanoutInit == Init => F!Init
<1> SUFFICES ASSUME Init
             PROVE  F!Init
  OBVIOUS
<1>1. \A r \in Requests : Reached(r) = {}
  BY DEF Init, Reached
<1> QED
  BY <1>1 DEF Init, F!Init, Reached

(* A target that is over is one delivery of the fan-out.                   *)
LEMMA TriedDelivers ==
    ASSUME IInv, NEW r \in Requests, NEW o \in {"sent", "failed"},
           MoreToDo(r), pc[r] \in InFlight \cup {"target"},
           outcome' = [outcome EXCEPT ![r][Target(r)] = o],
           UNCHANGED <<server, answer>>,
           UNCHANGED delivered \/ (pc[r] \in InFlight /\ Accept(r))
    PROVE  F!Next
<1> DEFINE t == Target(r)
           G == [q \in Requests |-> Reached(q)]
<1>1. /\ t \in TargetsOf[r] /\ outcome[r][t] = "pending"
  BY TargetIn DEF IInv
<1>2. answer[r] = "none"
  BY DEF IInv, AdmittedInv, InFlight
<1>3. \E S \in {{}, {t}} : G' = [G EXCEPT ![r] = @ \cup S]
  <2>1. CASE UNCHANGED delivered
    <3>1. \A q \in Requests : Reached(q)' = Reached(q)
      BY <2>1 DEF Reached
    <3>2. G' = [G EXCEPT ![r] = @ \cup {}]
      BY <3>1
    <3> QED
      BY <3>2
  <2>2. CASE pc[r] \in InFlight /\ Accept(r)
    <3> DEFINE m == [chat |-> route[r].chat, bot |-> route[r].bot, target |-> t]
    <3>1. /\ delivered' = [delivered EXCEPT ![r] = Append(@, m)]
          /\ delivered \in [Requests -> Seq([chat : ChatIds, bot : Bots, target : Names])]
      BY <2>2 DEF Accept, IInv, TypeOK
    <3>2. /\ delivered'[r] = Append(delivered[r], m)
          /\ \A q \in Requests \ {r} : delivered'[q] = delivered[q]
      BY <3>1
    <3>3. /\ Len(delivered[r]) \in Nat /\ DOMAIN delivered[r] = 1..Len(delivered[r])
          /\ DOMAIN delivered'[r] = 1..(Len(delivered[r]) + 1)
          /\ delivered'[r][Len(delivered[r]) + 1] = m
          /\ \A k \in DOMAIN delivered[r] : delivered'[r][k] = delivered[r][k]
      <4>1. delivered'[r] \in Seq([chat : ChatIds, bot : Bots, target : Names])
        BY <2>2, AcceptInv
      <4>2. delivered[r] \in Seq([chat : ChatIds, bot : Bots, target : Names])
        BY <3>1
      <4> QED
        BY <3>2, <4>1, <4>2
    <3>4. Reached(r)' = Reached(r) \cup {t}
      <4>1. \A k : k \in DOMAIN delivered'[r] <=>
                       k \in DOMAIN delivered[r] \/ k = Len(delivered[r]) + 1
        BY <3>3
      <4>2. m.target = t
        OBVIOUS
      <4> QED
        BY <3>3, <4>1, <4>2 DEF Reached
    <3>5. \A q \in Requests \ {r} : Reached(q)' = Reached(q)
      BY <3>2 DEF Reached
    <3> HIDE DEF t
    <3> QED
      BY <3>4, <3>5
  <2> QED
    BY <2>1, <2>2
<1>4. PICK u \in TargetsOf[r] : u = t
  BY <1>1
<1>5. F!Deliver(r, u)
  BY <1>1, <1>2, <1>3, <1>4 DEF F!Deliver, F!Untried, Reached
<1> QED
  BY <1>5 DEF F!Next

(* An answer before any target is tried is a rejection, an answer after    *)
(* the last one sums the outcomes up.                                      *)
LEMMA RespondResponds ==
    ASSUME IInv, NEW r \in Requests, NEW a, Respond(r, a),
           \/ pc[r] = "new" /\ a \in {"forbidden", "invalid"}
           \/ pc[r] = "target" /\ ~MoreToDo(r) /\ a = StatusOf(r)
    PROVE  F!Next
<1>1. /\ answer' = [answer EXCEPT ![r] = a]
      /\ UNCHANGED <<outcome, delivered>>
      /\ answer[r] = "none"
  BY DEF Respond, IInv, AdmittedInv
<1>2. /\ TargetsOf[r] = {Targets[r][k] : k \in DOMAIN Targets[r]}
      /\ Len(Targets[r]) \in Nat /\ DOMAIN Targets[r] = 1..Len(Targets[r])
      /\ \A k \in DOMAIN Targets[r] :
             outcome[r][Targets[r][k]] = "pending" <=> k >= i[r]
      /\ i[r] \in Nat
  BY TargetsAreSeq DEF IInv, TypeOK
<1>3. CASE pc[r] = "new" /\ a \in {"forbidden", "invalid"}
  <2>1. i[r] = 1
    BY <1>3 DEF IInv, AdmittedInv
  <2>2. F!Untried(r) = TargetsOf[r]
    BY <2>1, <1>2 DEF F!Untried
  <2> QED
    BY <1>1, <1>3, <2>2 DEF F!Next, F!Reject
<1>4. CASE pc[r] = "target" /\ ~MoreToDo(r) /\ a = StatusOf(r)
  <2>1. F!Untried(r) = {}
    BY <1>2, <1>4 DEF F!Untried, MoreToDo
  <2>2. TargetsOf[r] # {}
    <3>1. Targets[r] # <<>> /\ Targets[r] \in Seq(TargetsOf[r])
      BY <1>4, TargetsAreSeq DEF IInv, AdmittedInv
    <3> QED
      BY <3>1
  <2>3. outcome[r] \in [TargetsOf[r] -> {"pending", "sent", "failed"}]
    BY DEF IInv, TypeOK
  <2>4. F!With(r, "denied") = {}
    BY <2>3 DEF F!With
  <2>5. StatusOf(r) = F!SumUp(r)
    BY <2>2, <2>4 DEF StatusOf, F!SumUp, F!With
  <2> QED
    BY <1>1, <1>4, <2>1, <2>5 DEF F!Next, F!Respond
<1> QED
  BY <1>3, <1>4

LEMMA FanoutStep ==
    ASSUME IInv, [Next]_vars
    PROVE  [F!Next]_(F!vars)
<1>1. UNCHANGED <<outcome, answer, delivered>> => UNCHANGED F!vars
  BY DEF F!vars
<1>2. ASSUME NEW r \in Requests, RequestStep(r)
      PROVE  [F!Next]_(F!vars)
  <2>1. CASE Arrive(r)
    <3>1. CASE Respond(r, "forbidden") \/ Respond(r, "invalid")
      BY <2>1, <3>1, RespondResponds DEF Arrive
    <3> QED
      BY <2>1, <3>1, <1>1 DEF Arrive
  <2>2. CASE BeginTarget(r)
    <3>1. CASE Fail(r)
      BY <2>2, <3>1, TriedDelivers DEF BeginTarget, Fail, NextTarget
    <3> QED
      BY <2>2, <3>1, <1>1 DEF BeginTarget
  <2>3. CASE Refresh(r)
    <3>1. CASE Fail(r)
      <4>1. pc[r] \in InFlight /\ UNCHANGED <<server, delivered>>
        BY <2>3 DEF Refresh, InFlight
      <4> QED
        BY <3>1, <4>1, RouteBot, TriedDelivers DEF Fail, NextTarget
    <3> QED
      BY <2>3, <3>1, <1>1 DEF Refresh
  <2>4. CASE Store(r)
    BY <2>4, <1>1 DEF Store
  <2>5. CASE Call(r)
    BY <2>5, <1>1 DEF Call
  <2>6. CASE CallOK(r)
    <3>1. pc[r] \in InFlight /\ Accept(r) /\ NextTarget(r) /\ UNCHANGED server
      BY <2>6 DEF CallOK, InFlight
    <3> QED
      BY <2>6, <3>1, RouteBot, TriedDelivers DEF CallOK, NextTarget
  <2>7. CASE CallUnauthorized(r)
    <3>1. CASE Fail(r)
      <4>1. pc[r] \in InFlight /\ UNCHANGED <<server, delivered>>
        BY <2>7 DEF CallUnauthorized, InFlight
      <4> QED
        BY <3>1, <4>1, RouteBot, TriedDelivers DEF Fail, NextTarget
    <3> QED
      BY <2>7, <3>1, <1>1 DEF CallUnauthorized
  <2>8. CASE CallError(r)
    <3>1. pc[r] \in InFlight /\ Fail(r) /\ UNCHANGED server
          /\ (UNCHANGED delivered \/ Accept(r))
      BY <2>8 DEF CallError, GiveUp, InFlight
    <3> QED
      BY <3>1, RouteBot, TriedDelivers DEF Fail, NextTarget
  <2>9. CASE Answer(r)
    BY <2>9, RespondResponds DEF Answer
  <2> QED
    BY <1>2, <2>1, <2>2, <2>3, <2>4, <2>5, <2>6, <2>7, <2>8, <2>9 DEF RequestStep
<1>3. ASSUME NEW b \in Bots, Revoke(b)
      PROVE  [F!Next]_(F!vars)
  BY <1>3, <1>1 DEF Revoke, requestVars
<1>4. CASE UNCHANGED vars
  BY <1>4, <1>1 DEF vars, requestVars
<1> QED
  BY <1>2, <1>3, <1>4 DEF Next

(* Every behaviour of the synchronous server is a fan-out as the server    *)
(* promises it (server/multisend.go).                                      *)
THEOREM ImplementsFanout == Spec => KeepsFanout
<1>1. IInv /\ [Next]_vars => [F!Next]_(F!vars)
  BY FanoutStep
<1> QED
  BY FanoutInit, <1>1, InvariantHolds, PTL DEF Spec, KeepsFanout, F!Spec
=============================================================================
