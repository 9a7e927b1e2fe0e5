------------------------------ MODULE ServerProofs ------------------------------
(* Theorems about ServerLifecycle: a settled pair is served, only genuine   *)
(* callbacks are handled, and what a shutdown leaves behind; and about     *)
(* Gitlab: "config validate" and "serve" agree, and an event reaches the   *)
(* chats it is for.                                                        *)
EXTENDS ServerLifecycle, Gitlab, FiniteSetTheorems, WellFoundedInduction, TLAPS

NoteTypes ==
    /\ at \in [Requests -> Nat]
    /\ answer \in [Requests -> Nat]
    /\ job \in [Requests -> [1..Len(Rules) ->
                   {"none", "spawned", "running", "ended", "cut"}]]

(* A callback that is open, or for which a handler was started, has passed *)
(* the checks.                                                             *)
GenuineInv ==
    \A r \in Requests :
        r \in Open \/ (\E n \in 1..Len(Rules) : job[r][n] # "none")
            => Verified(r) /\ SameBot(r)

(* A handler within a request runs while the request is open, as the rule  *)
(* it has come to.                                                         *)
WithinInv ==
    \A r \in Requests, n \in 1..Len(Rules) : ~Rules[n].async =>
        /\ job[r][n] # "spawned"
        /\ job[r][n] = "running" =>
               r \in Open /\ MoreRules(r) /\ Route(r)[at[r]] = n

(* Where Run is, who may still serve, wait or cancel.                      *)
RunInv ==
    /\ serve = "on" => run = "serving"
    /\ run \in {"starting", "serving", "draining"} =>
           waiter = "none" /\ ~cancelled /\ result = "none"
    /\ run = "waiting" => waiter # "none"
    /\ result = "ok" => ~late /\ waiter = "done"
    /\ result = "ok" /\ run = "returned" => poller = "done"
    /\ run = "crashed" => late

(* In time, nothing is open once the handlers are waited for, and the last *)
(* one has ended when the waiter is woken.                                 *)
WaitInv ==
    ~late =>
        /\ waiter # "none" => Open = {}
        /\ waiter \in {"woken", "done"} => Pending(job) = {}

(* What the reader has read is what the files hold, if they are still; and *)
(* the hashes are of the pair served.                                      *)
SettleInv ==
    /\ renewal \in Versions
    /\ cert # Nothing => lastHash = cert
    /\ still /\ reading \in {"key", "again"} => before = certFile
    /\ still /\ reading = "again" => key = keyFile

IInv == NoteTypes /\ SettleInv /\ GenuineInv /\ WithinInv /\ RunInv /\ WaitInv

-----------------------------------------------------------------------------
(* The reloader.                                                           *)

LEMMA SettleKept ==
    ASSUME SettleInv, UNCHANGED certVars
    PROVE  SettleInv'
BY DEF SettleInv, certVars, readerVars, fileVars

LEMMA ReloadInv ==
    ASSUME SettleInv, ReloadStep
    PROVE  SettleInv'
<1>1. UNCHANGED <<certFile, keyFile, renewal>>
  BY DEF ReloadStep, fileVars
<1>2. CASE ReadCert
  BY <1>1, <1>2 DEF ReadCert, SettleInv
<1>3. CASE ReadKey
  BY <1>1, <1>3 DEF ReadKey, SettleInv
<1>4. CASE ReadFails
  BY <1>1, <1>4 DEF ReadFails, Rest, SettleInv
<1>5. CASE ReadAgain
  <2>1. CASE Load(certFile)
    BY <1>1, <2>1 DEF Load, Rest, SettleInv
  <2>2. CASE ~Load(certFile)
    BY <1>1, <1>5, <2>2 DEF ReadAgain, Rest, SettleInv
  <2> QED
    BY <2>1, <2>2
<1> QED
  BY <1>2, <1>3, <1>4, <1>5 DEF ReloadStep

LEMMA RenewalInv ==
    ASSUME SettleInv, RenewalStep
    PROVE  SettleInv'
BY DEF RenewalStep, Renew, WriteCert, WriteKey, readerVars, SettleInv

(* A reload of finished files that are still ends with their pair served.  *)
LEMMA SettledReload ==
    ASSUME SettleInv, ReloadStep, reading = "again", reading' = "idle", still, Written
    PROVE  cert' = [cert |-> certFile, key |-> keyFile]
<1>1. /\ certFile = renewal /\ keyFile = KeyOf[renewal] /\ renewal \in Versions
      /\ before = certFile /\ key = keyFile
  BY DEF SettleInv, Written
<1>2. X509KeyPair(certFile, key)
  BY <1>1, CertAssumption DEF X509KeyPair
<1>3. Load(certFile)
  BY <1>1 DEF ReloadStep, ReadCert, ReadKey, ReadFails, ReadAgain
<1>4. CASE Unchanged(certFile)
  BY <1>1, <1>3, <1>4 DEF Load, Unchanged, SettleInv
<1>5. CASE ~Unchanged(certFile)
  BY <1>1, <1>2, <1>3, <1>5 DEF Load
<1> QED
  BY <1>4, <1>5

-----------------------------------------------------------------------------
LEMMA InitInv == Init => IInv
<1> SUFFICES ASSUME Init
             PROVE  IInv
  OBVIOUS
<1>1. NoteTypes
  BY DEF Init, NoteTypes, NoAnswer
<1>2. SettleInv
  BY CertAssumption DEF Init, CertInit, SettleInv
<1>3. GenuineInv /\ WithinInv
  BY DEF Init, GenuineInv, WithinInv, Open
<1>4. RunInv /\ WaitInv
  BY DEF Init, RunInv, WaitInv
<1> QED
  BY <1>1, <1>2, <1>3, <1>4 DEF IInv

(* A step that touches no callback.                                        *)
LEMMA CallbacksKept ==
    ASSUME IInv, UNCHANGED <<at, answer, job>>
    PROVE  NoteTypes' /\ GenuineInv' /\ WithinInv' /\ Open' = Open
           /\ Pending(job)' = Pending(job)
BY DEF IInv, NoteTypes, GenuineInv, WithinInv, MoreRules, Open, Verified, SameBot,
   Pending

LEMMA ServerKept ==
    ASSUME IInv, UNCHANGED serverVars
    PROVE  NoteTypes' /\ GenuineInv' /\ WithinInv' /\ RunInv' /\ WaitInv'
BY CallbacksKept DEF IInv, serverVars, runVars, RunInv, WaitInv

(* Run, its goroutines and its timers.                                     *)
LEMMA RunStepInv ==
    ASSUME IInv, RunStep
    PROVE  IInv'
<1>1. /\ UNCHANGED <<at, answer, job>> /\ UNCHANGED certVars
      /\ NoteTypes' /\ GenuineInv' /\ WithinInv' /\ SettleInv'
      /\ Open' = Open /\ Pending(job)' = Pending(job)
  <2>1. UNCHANGED <<at, answer, job, certVars>>
    BY DEF RunStep, Start, SeeFailure, BeginShutdown, Drained, Waited, Return
  <2> QED
    BY <2>1, CallbacksKept, SettleKept DEF IInv
<1>2. RunInv' /\ WaitInv'
  <2>1. CASE Start
    BY <2>1, <1>1 DEF Start, IInv, RunInv, WaitInv
  <2>2. CASE SeeFailure
    BY <2>2, <1>1 DEF SeeFailure, IInv, RunInv, WaitInv
  <2>3. CASE BeginShutdown
    BY <2>3, <1>1 DEF BeginShutdown, CancelledByShutdown, IInv, RunInv, WaitInv
  <2>4. CASE Drained
    BY <2>4, <1>1 DEF Drained, ShutdownReturns, IInv, RunInv, WaitInv
  <2>5. CASE Waited
    BY <2>5, <1>1 DEF Waited, WaitOver, IInv, RunInv, WaitInv
  <2>6. CASE Return
    BY <2>6, <1>1 DEF Return, IInv, RunInv, WaitInv
  <2> QED
    BY <2>1, <2>2, <2>3, <2>4, <2>5, <2>6 DEF RunStep
<1> QED
  BY <1>1, <1>2 DEF IInv

LEMMA AroundRunInv ==
    ASSUME IInv, Signal \/ ServeFails \/ Deadline \/ WaiterStep \/ PollerStops
    PROVE  IInv'
<1>1. /\ NoteTypes' /\ GenuineInv' /\ WithinInv' /\ SettleInv'
      /\ Open' = Open /\ Pending(job)' = Pending(job)
  <2>1. UNCHANGED <<at, answer, job, certVars>>
    BY DEF Signal, ServeFails, Deadline, WaiterStep, PollerStops
  <2> QED
    BY <2>1, CallbacksKept, SettleKept DEF IInv
<1>2. RunInv' /\ WaitInv'
  <2>1. CASE Signal
    BY <2>1, <1>1 DEF Signal, IInv, RunInv, WaitInv
  <2>2. CASE ServeFails
    BY <2>2, <1>1 DEF ServeFails, IInv, RunInv, WaitInv
  <2>3. CASE Deadline
    BY <2>3, <1>1 DEF Deadline, IInv, RunInv, WaitInv
  <2>4. CASE WaiterStep
    BY <2>4, <1>1 DEF WaiterStep, Ended, IInv, RunInv, WaitInv
  <2>5. CASE PollerStops
    BY <2>5, <1>1 DEF PollerStops, Ended, IInv, RunInv, WaitInv
  <2> QED
    BY <2>1, <2>2, <2>3, <2>4, <2>5
<1> QED
  BY <1>1, <1>2 DEF IInv

LEMMA PollerInv ==
    ASSUME IInv, PollerTick \/ PollerReads \/ Renewal
    PROVE  IInv'
<1>1. UNCHANGED serverVars
  BY DEF PollerTick, PollerReads, Renewal
<1>2. SettleInv'
  <2>1. CASE PollerReads
    BY <2>1, ReloadInv DEF IInv, PollerReads
  <2>2. CASE PollerTick
    BY <2>2 DEF IInv, PollerTick, Tick, fileVars, SettleInv
  <2>3. CASE Renewal
    BY <2>3, RenewalInv DEF IInv, Renewal
  <2> QED
    BY <2>1, <2>2, <2>3
<1> QED
  BY <1>1, <1>2, ServerKept DEF IInv

-----------------------------------------------------------------------------
(* Callbacks.                                                              *)

(* What the callbacks' steps leave alone.                                  *)
LEMMA CallbackFrame ==
    ASSUME IInv, UNCHANGED <<certVars, runVars, cancelled, waiter>>
    PROVE  SettleInv' /\ RunInv'
BY SettleKept DEF IInv, runVars, RunInv

LEMMA ArriveInv ==
    ASSUME IInv, NEW r \in Requests, Arrive(r)
    PROVE  IInv'
<1>1. /\ serve = "on" /\ at[r] = 0
      /\ at' = [at EXCEPT ![r] = 1]
      /\ UNCHANGED <<certVars, runVars, cancelled, waiter, job>>
  BY DEF Arrive
<1> DEFINE c == IF ~Verified(r) THEN 401
                ELSE IF ~Req[r].wellFormed THEN 400
                ELSE IF ~SameBot(r) THEN 403
                ELSE NoAnswer
<1>2. /\ answer' = [answer EXCEPT ![r] = c]
      /\ c \in {401, 400, 403, NoAnswer}
      /\ c = NoAnswer => Verified(r) /\ SameBot(r)
  BY DEF Arrive, NoAnswer
<1> HIDE DEF c
<1>3. /\ at'[r] = 1 /\ answer'[r] = c
      /\ \A q \in Requests \ {r} : at'[q] = at[q] /\ answer'[q] = answer[q]
  BY <1>1, <1>2 DEF IInv, NoteTypes
<1>4. NoteTypes'
  BY <1>1, <1>2 DEF IInv, NoteTypes, NoAnswer
<1>5. \A q \in Requests \ {r} : q \in Open' <=> q \in Open
  BY <1>3 DEF Open
<1>6. r \notin Open
  BY <1>1 DEF Open
<1>7. GenuineInv'
  <2>1. r \in Open' => Verified(r) /\ SameBot(r)
    BY <1>2, <1>3 DEF Open
  <2> QED
    BY <1>1, <1>5, <2>1 DEF IInv, GenuineInv, Verified, SameBot
<1>8. WithinInv'
  BY <1>1, <1>3, <1>5, <1>6 DEF IInv, WithinInv, MoreRules
<1>9. WaitInv'
  BY <1>1 DEF IInv, RunInv, WaitInv, runVars
<1> QED
  BY <1>1, <1>4, <1>7, <1>8, <1>9, CallbackFrame DEF IInv

LEMMA DispatchInv ==
    ASSUME IInv, NEW r \in Requests, Dispatch(r)
    PROVE  IInv'
<1> DEFINE n == Route(r)[at[r]]
<1>1. /\ r \in Open /\ MoreRules(r) /\ job[r][n] = "none"
      /\ UNCHANGED <<certVars, runVars, cancelled, waiter, answer>>
      /\ \/ /\ Rules[n].async
            /\ job' = [job EXCEPT ![r][n] = "spawned"]
            /\ at' = [at EXCEPT ![r] = @ + 1]
         \/ /\ ~Rules[n].async
            /\ job' = [job EXCEPT ![r][n] = "running"]
            /\ UNCHANGED at
  BY DEF Dispatch
<1> HIDE DEF n
<1>2. NoteTypes'
  <2>1. /\ at \in [Requests -> Nat] /\ answer \in [Requests -> Nat]
        /\ job \in [Requests -> [1..Len(Rules) ->
                       {"none", "spawned", "running", "ended", "cut"}]]
    BY DEF IInv, NoteTypes
  <2>2. at' \in [Requests -> Nat] /\ answer' \in [Requests -> Nat]
    BY <2>1, <1>1
  <2>3. job' \in [Requests -> [1..Len(Rules) ->
                     {"none", "spawned", "running", "ended", "cut"}]]
    <3> DEFINE Status == {"none", "spawned", "running", "ended", "cut"}
    <3>1. PICK s \in Status : job' = [job EXCEPT ![r][n] = s]
      BY <1>1
    <3>2. [job[r] EXCEPT ![n] = s] \in [1..Len(Rules) -> Status]
      BY <2>1
    <3>3. job' = [job EXCEPT ![r] = [job[r] EXCEPT ![n] = s]]
      BY <2>1, <3>1
    <3> QED
      BY <2>1, <3>2, <3>3
  <2> QED
    BY <2>2, <2>3 DEF NoteTypes
<1>3. Open' = Open
  <2>1. \A q \in Requests : at'[q] > 0 /\ answer[q] = NoAnswer <=>
                                at[q] > 0 /\ answer[q] = NoAnswer
    <3>1. at[r] \in Nat /\ at[r] > 0 /\ at'[r] \in {at[r], at[r] + 1}
      BY <1>1 DEF IInv, NoteTypes, Open
    <3>2. \A q \in Requests \ {r} : at'[q] = at[q]
      BY <1>1 DEF IInv, NoteTypes
    <3> QED
      BY <3>1, <3>2
  <2> QED
    BY <1>1, <2>1 DEF Open
<1>4. \A q \in Requests \ {r} : at'[q] = at[q] /\ job'[q] = job[q]
  BY <1>1 DEF IInv, NoteTypes
<1>5. GenuineInv'
  <2>1. Verified(r) /\ SameBot(r)
    BY <1>1 DEF IInv, GenuineInv
  <2> QED
    BY <1>3, <1>4, <2>1 DEF IInv, GenuineInv, Verified, SameBot
<1>6. \A k \in 1..Len(Rules) : ~Rules[k].async => job[r][k] # "spawned"
  BY DEF IInv, WithinInv
<1>7. \A k \in 1..Len(Rules) : ~Rules[k].async /\ job[r][k] = "running" => k = n
  BY DEF IInv, WithinInv, n
<1>8. WithinInv'
  <2>1. ASSUME NEW k \in 1..Len(Rules), ~Rules[k].async
        PROVE  /\ job'[r][k] # "spawned"
               /\ job'[r][k] = "running" =>
                      MoreRules(r)' /\ Route(r)[at'[r]] = k
    <3>1. job[r][k] # "running"
      BY <2>1, <1>1, <1>7
    <3>2. job[r][k] # "spawned"
      BY <2>1, <1>6
    <3>3. CASE Rules[n].async
      <4>1. job'[r][k] = job[r][k]
        BY <2>1, <3>3, <1>1 DEF IInv, NoteTypes
      <4> QED
        BY <3>1, <3>2, <4>1
    <3>4. CASE ~Rules[n].async
      <4>1. at' = at /\ (k # n => job'[r][k] = job[r][k])
            /\ (k = n => job'[r][k] = "running")
        BY <3>4, <1>1 DEF IInv, NoteTypes
      <4> QED
        BY <3>1, <3>2, <4>1, <1>1 DEF n, MoreRules
    <3> QED
      BY <3>3, <3>4
  <2> QED
    BY <1>1, <1>3, <1>4, <2>1 DEF IInv, WithinInv, MoreRules
<1>9. WaitInv'
  BY <1>1, <1>3 DEF IInv, WaitInv, runVars
<1> QED
  BY <1>1, <1>2, <1>5, <1>8, <1>9, CallbackFrame DEF IInv

LEMMA BeginInv ==
    ASSUME IInv, NEW r \in Requests, NEW n \in 1..Len(Rules), Begin(r, n)
    PROVE  IInv'
<1>1. /\ job[r][n] = "spawned"
      /\ job' = [job EXCEPT ![r][n] = "running"]
      /\ UNCHANGED <<certVars, runVars, cancelled, waiter, at, answer>>
  BY DEF Begin
<1>2. Rules[n].async
  BY <1>1 DEF IInv, WithinInv
<1>3. NoteTypes'
  BY <1>1 DEF IInv, NoteTypes
<1>4. Open' = Open
  BY <1>1 DEF Open
<1>5. /\ \A q \in Requests, k \in 1..Len(Rules) :
             <<q, k>> # <<r, n>> => job'[q][k] = job[q][k]
      /\ job'[r][n] = "running"
  BY <1>1 DEF IInv, NoteTypes
<1>6. GenuineInv'
  <2>1. Verified(r) /\ SameBot(r)
    BY <1>1 DEF IInv, GenuineInv
  <2> QED
    BY <1>4, <1>5, <2>1 DEF IInv, GenuineInv, Verified, SameBot
<1>7. WithinInv'
  BY <1>1, <1>2, <1>4, <1>5 DEF IInv, WithinInv, MoreRules
<1>8. WaitInv'
  <2>1. <<r, n>> \in Pending(job)
    BY <1>1, <1>2 DEF Pending, Counted
  <2> QED
    BY <1>1, <1>4, <2>1 DEF IInv, WaitInv, runVars
<1> QED
  BY <1>1, <1>3, <1>6, <1>7, <1>8, CallbackFrame DEF IInv

(* A handler within the request moves the request on, one in the           *)
(* background may wake the waiter.                                         *)
LEMMA EndInv ==
    ASSUME IInv, NEW r \in Requests, NEW n \in 1..Len(Rules), End(r, n)
    PROVE  IInv'
<1>1. /\ job[r][n] = "running"
      /\ at' = [at EXCEPT ![r] = After(r, n)]
      /\ waiter' = IF Rules[n].async /\ waiter = "asleep" /\ Pending(job') = {}
                   THEN "woken" ELSE waiter
      /\ UNCHANGED <<certVars, runVars, cancelled, answer>>
  BY DEF End
<1>2. PICK e \in {"ended", "cut"} : job' = [job EXCEPT ![r][n] = e]
  BY DEF End
<1>3. /\ at[r] \in Nat
      /\ at'[r] = IF Rules[n].async THEN at[r] ELSE at[r] + 1
      /\ \A q \in Requests \ {r} : at'[q] = at[q]
  BY <1>1 DEF IInv, NoteTypes, After
<1>4. /\ \A q \in Requests, k \in 1..Len(Rules) :
             <<q, k>> # <<r, n>> => job'[q][k] = job[q][k]
      /\ job'[r][n] = e
  BY <1>2 DEF IInv, NoteTypes
<1>5. NoteTypes'
  BY <1>1, <1>2, <1>3 DEF IInv, NoteTypes
<1>6. ~Rules[n].async => r \in Open /\ Route(r)[at[r]] = n
  BY <1>1 DEF IInv, WithinInv
<1>7. Open' = Open
  <2>1. \A q \in Requests : at'[q] > 0 /\ answer[q] = NoAnswer <=>
                                at[q] > 0 /\ answer[q] = NoAnswer
    BY <1>3, <1>6 DEF Open
  <2> QED
    BY <1>1, <2>1 DEF Open
<1>8. GenuineInv'
  <2>1. Verified(r) /\ SameBot(r)
    BY <1>1 DEF IInv, GenuineInv
  <2> QED
    BY <1>7, <1>4, <2>1 DEF IInv, GenuineInv, Verified, SameBot
<1>9. WithinInv'
  <2>1. ASSUME NEW q \in Requests, NEW k \in 1..Len(Rules), ~Rules[k].async
        PROVE  /\ job'[q][k] # "spawned"
               /\ job'[q][k] = "running" =>
                      /\ q \in Open' /\ MoreRules(q)'
                      /\ Route(q)[at'[q]] = k
    <3>1. CASE <<q, k>> = <<r, n>>
      BY <3>1, <1>4
    <3>2. CASE <<q, k>> # <<r, n>>
      <4>1. /\ job'[q][k] = job[q][k]
            /\ job[q][k] # "spawned"
            /\ job[q][k] = "running" =>
                   q \in Open /\ MoreRules(q) /\ Route(q)[at[q]] = k
        BY <2>1, <3>2, <1>4 DEF IInv, WithinInv
      <4>2. job[q][k] = "running" => at'[q] = at[q]
        BY <3>2, <4>1, <1>3, <1>6
      <4> QED
        BY <4>1, <4>2, <1>7 DEF MoreRules
    <3> QED
      BY <3>1, <3>2
  <2> QED
    BY <2>1 DEF WithinInv
<1>10. Pending(job') \subseteq Pending(job)
  BY <1>4 DEF Pending, Counted
<1>11. RunInv' /\ WaitInv'
  <2>1. UNCHANGED <<run, result, signalled, deadline, late, serve, poller, cancelled>>
    BY <1>1 DEF runVars
  <2>2. /\ waiter' = "none" <=> waiter = "none"
        /\ waiter = "done" => waiter' = "done"
        /\ waiter' \in {"woken", "done"} =>
               waiter \in {"woken", "done"} \/ Pending(job') = {}
    BY <1>1
  <2>3. RunInv'
    BY <2>1, <2>2 DEF IInv, RunInv
  <2>4. WaitInv'
    BY <2>1, <2>2, <1>7, <1>10 DEF IInv, WaitInv
  <2> QED
    BY <2>3, <2>4
<1>12. SettleInv'
  BY <1>1, SettleKept DEF IInv
<1> QED
  BY <1>5, <1>8, <1>9, <1>11, <1>12 DEF IInv

LEMMA AnswerInv ==
    ASSUME IInv, NEW r \in Requests, Answer(r)
    PROVE  IInv'
<1>1. /\ r \in Open /\ ~MoreRules(r)
      /\ answer' = [answer EXCEPT ![r] = Accepted(r)]
      /\ UNCHANGED <<certVars, runVars, cancelled, waiter, at, job>>
  BY DEF Answer
<1>2. Accepted(r) \in Nat \ {NoAnswer}
  BY DEF Accepted, NoAnswer
<1>3. NoteTypes'
  BY <1>1, <1>2 DEF IInv, NoteTypes
<1>4. Open' = Open \ {r}
  BY <1>1, <1>2 DEF IInv, NoteTypes, Open
<1>5. GenuineInv'
  BY <1>1, <1>4 DEF IInv, GenuineInv, Verified, SameBot
<1>6. WithinInv'
  <2>1. \A k \in 1..Len(Rules) : ~Rules[k].async => job[r][k] # "running"
    BY <1>1 DEF IInv, WithinInv
  <2> QED
    BY <1>1, <1>4, <2>1 DEF IInv, WithinInv, MoreRules
<1>7. WaitInv'
  BY <1>1, <1>4 DEF IInv, WaitInv, runVars, Pending
<1> QED
  BY <1>1, <1>3, <1>5, <1>6, <1>7, CallbackFrame DEF IInv

-----------------------------------------------------------------------------
LEMMA NextInv == IInv /\ [Next]_vars => IInv'
<1> SUFFICES ASSUME IInv, [Next]_vars
             PROVE  IInv'
  OBVIOUS
<1>1. CASE Callback
  BY <1>1, ArriveInv, DispatchInv, BeginInv, EndInv, AnswerInv DEF Callback
<1>2. CASE UNCHANGED vars
  BY <1>2, ServerKept, SettleKept DEF IInv, vars
<1> QED
  BY <1>1, <1>2, RunStepInv, AroundRunInv, PollerInv DEF Next

(* Every reachable state of the server satisfies the invariant.            *)
THEOREM InvariantHolds == Spec => []IInv
BY InitInv, NextInv, PTL DEF Spec

(* A reload whose last attempt ran on finished and untouched files ends    *)
(* with their pair served (server/tls.go, readStablePair, reload).         *)
THEOREM SettledSafe == Spec => SettledPairServed
<1>1. ASSUME IInv, [Next]_vars,
             reading = "again", reading' = "idle", still, Written
      PROVE  cert' = [cert |-> certFile, key |-> keyFile]
  <2>1. CASE PollerReads
    BY <1>1, <2>1, SettledReload DEF PollerReads, IInv
  <2>2. CASE ~PollerReads
    <3>1. reading' = reading \/ reading = "idle"
      BY <1>1, <2>2 DEF Next, RunStep, Start, SeeFailure, BeginShutdown, Drained,
         Waited, Return, Signal, ServeFails, Deadline, WaiterStep, PollerTick, Tick,
         PollerStops, Renewal, RenewalStep, Callback, Arrive, Dispatch, Begin, End,
         Answer, vars, certVars, readerVars
    <3> QED
      BY <1>1, <3>1
  <2> QED
    BY <2>1, <2>2
<1> QED
  BY InvariantHolds, <1>1, PTL DEF Spec, SettledPairServed

(* A handler runs only for a genuine callback (callback_jwt.go,            *)
(* handler_callback.go).                                                   *)
THEOREM GenuineSafe == Spec => []CallbackGenuine
<1>1. IInv => CallbackGenuine
  BY DEF IInv, GenuineInv, CallbackGenuine, Verified, SameBot
<1> QED
  BY InvariantHolds, <1>1, PTL

(* The shutdown's order (server.go:545-566).                               *)
THEOREM OrderSafe == Spec => []ShutdownOrder
<1>1. IInv => ShutdownOrder
  BY DEF IInv, RunInv, WaitInv, ShutdownOrder
<1> QED
  BY InvariantHolds, <1>1, PTL

(* A clean shutdown leaves nothing behind (server.go:553-576).             *)
THEOREM CleanSafe == Spec => []CleanReturn
<1>1. ASSUME IInv, result = "ok", run = "returned"
      PROVE  /\ Open = {} /\ poller = "done" /\ serve # "on"
             /\ \A r \in Requests, n \in 1..Len(Rules) :
                    job[r][n] \notin {"spawned", "running"}
  <2>1. Open = {} /\ Pending(job) = {} /\ poller = "done" /\ serve # "on"
    BY <1>1 DEF IInv, RunInv, WaitInv
  <2>2. ASSUME NEW r \in Requests, NEW n \in 1..Len(Rules)
        PROVE  job[r][n] \notin {"spawned", "running"}
    <3>1. CASE Rules[n].async
      <4>1. <<r, n>> \notin Pending(job)
        BY <2>1
      <4> QED
        BY <3>1, <4>1 DEF Pending, Counted
    <3>2. CASE ~Rules[n].async
      BY <1>1, <2>1, <3>2 DEF IInv, WithinInv
    <3> QED
      BY <3>1, <3>2
  <2> QED
    BY <2>1, <2>2
<1>2. IInv => CleanReturn
  BY <1>1 DEF CleanReturn
<1> QED
  BY InvariantHolds, <1>2, PTL

-----------------------------------------------------------------------------
(* A set of numbers that is not empty has a least one.                     *)
LEMMA Least ==
    ASSUME NEW S \in SUBSET Nat, S # {}
    PROVE  \E u \in S : \A v \in S : u <= v
<1> DEFINE R == {p \in Nat \X Nat : p[1] < p[2]}
<1>1. OpToRel(<, Nat) = R  BY Zenon DEF OpToRel
<1>2. IsWellFoundedOn(R, Nat)
  <2>1. IsWellFoundedOn(OpToRel(<, Nat), Nat)  BY NatLessThanWellFounded
  <2> QED  BY <1>1, <2>1, Zenon
<1>3. \A u, v \in Nat : v < u => <<v, u>> \in R  OBVIOUS
<1> HIDE DEF R
<1>4. \E u \in S : \A v \in S : ~(<<v, u>> \in R)  BY <1>2, WFMin, Zenon
<1>5. PICK u \in S : \A v \in S : ~(<<v, u>> \in R)  BY <1>4
<1>6. ASSUME NEW v \in S PROVE u <= v
  <2>1. ~(v < u)  BY <1>3, <1>5
  <2>2. u \in Nat /\ v \in Nat  OBVIOUS
  <2> QED  BY <2>1, <2>2
<1> QED  BY <1>6

-----------------------------------------------------------------------------
(* Startup and offline validation                                          *)

(* What serve resolves a reference to, and what can be told offline.       *)
LEMMA ResolvedIffKnown ==
    ASSUME NEW c, NEW ref
    PROVE  /\ Unknown(c, ref) <=> Resolved(c, ref) = {}
           /\ ~Unknown(c, ref) =>
                Resolved(c, ref) = {[id |-> OfflineId(c, ref), bot |-> OfflineBot(c, ref)]}
BY DEF Unknown, Resolved, OfflineId, OfflineBot

LEMMA ScopeEntries ==
    ASSUME NEW c, NEW s, NEW t
    PROVE  /\ t \in TargetRefs(s) /\ ~Unknown(c, t) =>
                [target |-> t, id |-> OfflineId(c, t), bot |-> OfflineBot(c, t)] \in Scope(c, s)
           /\ \A e \in Scope(c, s) : e.target = t =>
                /\ t \in TargetRefs(s) /\ ~Unknown(c, t)
                /\ e = [target |-> t, id |-> OfflineId(c, t), bot |-> OfflineBot(c, t)]
<1>1. ASSUME t \in TargetRefs(s), ~Unknown(c, t)
      PROVE  [target |-> t, id |-> OfflineId(c, t), bot |-> OfflineBot(c, t)] \in Scope(c, s)
  <2> DEFINE d == [id |-> OfflineId(c, t), bot |-> OfflineBot(c, t)]
  <2>1. d \in Resolved(c, t)
    BY <1>1, ResolvedIffKnown
  <2>2. [target |-> t, id |-> d.id, bot |-> d.bot] \in Scope(c, s)
    BY <1>1, <2>1 DEF Scope
  <2> QED  BY <2>2
<1>2. ASSUME NEW e \in Scope(c, s), e.target = t
      PROVE  /\ t \in TargetRefs(s) /\ ~Unknown(c, t)
             /\ e = [target |-> t, id |-> OfflineId(c, t), bot |-> OfflineBot(c, t)]
  <2>1. PICK u \in TargetRefs(s) :
            \E x \in Resolved(c, u) : e = [target |-> u, id |-> x.id, bot |-> x.bot]
    BY <1>2 DEF Scope
  <2>2. u = t
    BY <1>2, <2>1
  <2> QED  BY <2>1, <2>2, ResolvedIffKnown
<1> QED
  BY <1>1, <1>2

LEMMA EntryIsOfTarget ==
    ASSUME NEW c, NEW s, NEW e \in Scope(c, s)
    PROVE  /\ e.target \in TargetRefs(s)
           /\ e = [target |-> e.target, id |-> OfflineId(c, e.target), bot |-> OfflineBot(c, e.target)]
BY ScopeEntries

LEMMA RefsOfRoutes ==
    ASSUME NEW s, s.chats = <<>>
    PROVE  TargetRefs(s) = RouteRefs(s)
BY DEF TargetRefs

(* A sender that is built has nothing "config validate" would reject.      *)
LEMMA BuiltIsNotRejected ==
    ASSUME NEW c, NEW s, Builds(c, s)
    PROVE  ~SenderRejected(c, s)
<1>1. \A t \in TargetRefs(s) : ~Unknown(c, t)
  BY ResolvedIffKnown DEF Builds, TargetFits
<1>2. \A t, u \in TargetRefs(s) : OfflineId(c, t) = OfflineId(c, u) => t = u
  <2> SUFFICES ASSUME NEW t \in TargetRefs(s), NEW u \in TargetRefs(s),
                      OfflineId(c, t) = OfflineId(c, u)
               PROVE  t = u
    OBVIOUS
  <2> DEFINE d == [target |-> t, id |-> OfflineId(c, t), bot |-> OfflineBot(c, t)]
             e == [target |-> u, id |-> OfflineId(c, u), bot |-> OfflineBot(c, u)]
  <2>1. d \in Scope(c, s) /\ e \in Scope(c, s)
    BY <1>1, ScopeEntries
  <2>2. d = e
    BY <2>1 DEF Builds
  <2> QED  BY <2>2
<1>3. ASSUME s.chats # <<>>, NEW ref \in RouteRefs(s)
      PROVE  /\ ~Unknown(c, ref)
             /\ \E t \in TargetRefs(s) :
                    /\ OfflineId(c, t) = OfflineId(c, ref)
                    /\ \/ t = ref \/ OfflineBot(c, t) = OfflineBot(c, ref)
                       \/ Missing \in {OfflineBot(c, t), OfflineBot(c, ref)}
  <2>1. PICK r \in Resolved(c, ref) :
            \E e \in Scope(c, s) : e.id = r.id /\ ~BotConflict(e, ref, r.bot)
    BY <1>3 DEF Builds, RouteFits
  <2>2. PICK e \in Scope(c, s) : e.id = r.id /\ ~BotConflict(e, ref, r.bot)
    BY <2>1
  <2>3. ~Unknown(c, ref) /\ r = [id |-> OfflineId(c, ref), bot |-> OfflineBot(c, ref)]
    BY ResolvedIffKnown
  <2>4. /\ e.target \in TargetRefs(s)
        /\ e = [target |-> e.target, id |-> OfflineId(c, e.target), bot |-> OfflineBot(c, e.target)]
    BY ScopeEntries
  <2>5. e.id = OfflineId(c, e.target) /\ e.bot = OfflineBot(c, e.target)
    BY <2>4
  <2>6. r.id = OfflineId(c, ref) /\ r.bot = OfflineBot(c, ref)
    BY <2>3
  <2> QED
    BY <2>2, <2>3, <2>4, <2>5, <2>6 DEF BotConflict
<1>4. \A ref \in TargetRefs(s) \cup RouteRefs(s) : ~Unknown(c, ref)
  BY <1>1, <1>3, RefsOfRoutes
<1>5. ASSUME s.chats # <<>>, NEW ref \in RouteRefs(s), Decided(c, ref), RouteRejected(c, s, ref)
      PROVE  FALSE
  <2>1. PICK t \in TargetRefs(s) :
            /\ OfflineId(c, t) = OfflineId(c, ref)
            /\ \/ t = ref \/ OfflineBot(c, t) = OfflineBot(c, ref)
               \/ Missing \in {OfflineBot(c, t), OfflineBot(c, ref)}
    BY <1>3, <1>5
  <2> DEFINE same == {u \in OfflineScope(c, s) : OfflineId(c, u) = OfflineId(c, ref)}
  <2>2. \A u \in same : u = t
    BY <1>2, <2>1 DEF OfflineScope
  <2>3. Decided(c, t) => t \in same
    BY <2>1 DEF OfflineScope
  <2> QED
    BY <1>5, <2>1, <2>2, <2>3 DEF RouteRejected
<1>6. ~(\E t, u \in OfflineScope(c, s) : t # u /\ OfflineId(c, t) = OfflineId(c, u))
  BY <1>2 DEF OfflineScope
<1> QED
  BY <1>4, <1>5, <1>6 DEF SenderRejected

(* A sender that is not rejected is built, if everything about it can be   *)
(* told offline and serve asks no more than "config validate" does.        *)
LEMMA UnrejectedIsBuilt ==
    ASSUME NEW c, NEW s, ~SenderRejected(c, s), s.secret # Missing, s.broken = {},
           \A a \in DOMAIN c.chats : ~c.chats[a].hidden,
           c.multi => \A ref \in TargetRefs(s) :
               ref \notin ChatIds /\ (ref \in DOMAIN c.chats => c.chats[ref].bot # Missing)
    PROVE  Builds(c, s)
<1>1. \A ref \in TargetRefs(s) \cup RouteRefs(s) : ~Unknown(c, ref) /\ Decided(c, ref)
  BY DEF SenderRejected, Decided, Unknown
<1>2. OfflineScope(c, s) = TargetRefs(s)
  BY <1>1 DEF OfflineScope
<1>3. \A t, u \in TargetRefs(s) : OfflineId(c, t) = OfflineId(c, u) => t = u
  BY <1>2 DEF SenderRejected
<1>4. \A ref \in TargetRefs(s) : TargetFits(c, ref)
  BY <1>1, ResolvedIffKnown DEF TargetFits, Unknown
<1>5. \A d, e \in Scope(c, s) : d.id = e.id => d = e
  <2> SUFFICES ASSUME NEW d \in Scope(c, s), NEW e \in Scope(c, s), d.id = e.id
               PROVE  d = e
    OBVIOUS
  <2>1. /\ d.target \in TargetRefs(s) /\ e.target \in TargetRefs(s)
        /\ d = [target |-> d.target, id |-> OfflineId(c, d.target), bot |-> OfflineBot(c, d.target)]
        /\ e = [target |-> e.target, id |-> OfflineId(c, e.target), bot |-> OfflineBot(c, e.target)]
    BY EntryIsOfTarget
  <2>2. d.id = OfflineId(c, d.target) /\ e.id = OfflineId(c, e.target)
    BY <2>1
  <2>3. d.target = e.target
    BY <1>3, <2>1, <2>2
  <2> QED  BY <2>1, <2>3
<1>6. ASSUME s.chats # <<>>, NEW ref \in RouteRefs(s) PROVE RouteFits(c, s, ref)
  <2> DEFINE same == {t \in OfflineScope(c, s) : OfflineId(c, t) = OfflineId(c, ref)}
             r == [id |-> OfflineId(c, ref), bot |-> OfflineBot(c, ref)]
  <2>1. ~RouteRejected(c, s, ref)
    BY <1>1, <1>6 DEF SenderRejected
  <2>2. same # {}
    BY <1>1, <2>1 DEF RouteRejected
  <2>3. PICK t \in same : TRUE
    BY <2>2
  <2>4. /\ t \in TargetRefs(s) /\ OfflineId(c, t) = OfflineId(c, ref)
        /\ \/ t = ref \/ OfflineBot(c, t) = OfflineBot(c, ref)
           \/ Missing \in {OfflineBot(c, t), OfflineBot(c, ref)}
    BY <1>2, <2>1, <2>2, <2>3 DEF RouteRejected
  <2> DEFINE e == [target |-> t, id |-> OfflineId(c, t), bot |-> OfflineBot(c, t)]
  <2>5. e \in Scope(c, s)
    BY <1>1, <2>4, ScopeEntries
  <2>6. r \in Resolved(c, ref)
    BY <1>1, ResolvedIffKnown
  <2>7. e.id = r.id /\ ~BotConflict(e, ref, r.bot)
    BY <2>4 DEF BotConflict
  <2> QED  BY <2>5, <2>6, <2>7 DEF RouteFits
<1> QED
  BY <1>4, <1>5, <1>6 DEF Builds

(* The two translations of the rules (validateCrossReferences,             *)
(* buildGitlabSender) on one configuration.                                *)
OnlyServeKnows(c) ==
    \/ \E a \in DOMAIN c.chats : c.chats[a].hidden
    \/ \E k \in DOMAIN c.senders :
           c.senders[k].secret = Missing \/ c.senders[k].broken # {}
    \/ \E k, m \in DOMAIN c.senders : k # m /\ c.senders[k].secret = c.senders[m].secret

LEMMA StartsIffValid ==
    ASSUME NEW c, c.multi => c.several
    PROVE  /\ Starts(c) => ~Rejected(c) /\ (c.multi => ~Warned(c))
           /\ ~Starts(c) => Rejected(c) \/ (c.multi /\ Warned(c)) \/ OnlyServeKnows(c)
<1>1. ASSUME Starts(c) PROVE ~Rejected(c)
  BY <1>1, BuiltIsNotRejected DEF Starts, Rejected
<1>2. ASSUME Starts(c), c.multi, Warned(c) PROVE FALSE
  <2>1. PICK k \in DOMAIN c.senders : \E ref \in TargetRefs(c.senders[k]) :
            ref \in ChatIds \/ (ref \in DOMAIN c.chats /\ c.chats[ref].bot = Missing)
    BY <1>2 DEF Warned
  <2> QED  BY <1>2, <2>1 DEF Starts, Builds, TargetFits
<1>3. ASSUME ~Rejected(c), c.multi => ~Warned(c), ~OnlyServeKnows(c) PROVE Starts(c)
  <2>1. ASSUME NEW k \in DOMAIN c.senders PROVE Builds(c, c.senders[k])
    <3>1. /\ ~SenderRejected(c, c.senders[k])
          /\ c.senders[k].secret # Missing /\ c.senders[k].broken = {}
      BY <1>3 DEF Rejected, OnlyServeKnows
    <3>2. \A a \in DOMAIN c.chats : ~c.chats[a].hidden
      BY <1>3 DEF OnlyServeKnows
    <3>3. c.multi => \A ref \in TargetRefs(c.senders[k]) :
               ref \notin ChatIds /\ (ref \in DOMAIN c.chats => c.chats[ref].bot # Missing)
      BY <1>3 DEF Warned
    <3> QED  BY <3>1, <3>2, <3>3, UnrejectedIsBuilt
  <2> QED  BY <1>3, <2>1 DEF Starts, Rejected, OnlyServeKnows
<1> QED
  BY <1>1, <1>2, <1>3

(* The configuration stays, and the server is up if serve starts with it.  *)
BootInv ==
    /\ conf \in Confs
    /\ up = "up" => Starts(conf)
    /\ up = "refused" => ~Starts(conf)

LEMMA Boots == GitlabSpec => []BootInv
<1>1. GitlabInit => BootInv
  BY DEF GitlabInit, BootInv
<1>2. BootInv /\ [GitlabNext]_gitlabVars => BootInv'
  <2> SUFFICES ASSUME BootInv, [GitlabNext]_gitlabVars PROVE BootInv'  OBVIOUS
  <2>1. CASE Boot  BY <2>1 DEF Boot, BootInv
  <2>2. CASE ~Boot
    <3>1. conf' = conf /\ up' = up
      BY <2>2 DEF GitlabNext, Receive, Deliver, Respond, gitlabVars
    <3> QED  BY <3>1 DEF BootInv
  <2> QED  BY <2>1, <2>2
<1> QED
  BY <1>1, <1>2, PTL DEF GitlabSpec

(* What "config validate" passes, serve starts with, and the other way     *)
(* round, except for what only serve can know.                             *)
THEOREM OfflineSafe == GitlabSpec => []OfflineAgrees
<1>1. BootInv => OfflineAgrees
  <2> SUFFICES ASSUME BootInv PROVE OfflineAgrees  OBVIOUS
  <2>1. conf.multi => conf.several
    BY GitlabAssumption DEF BootInv, IsConf
  <2> QED
    BY <2>1, StartsIffValid DEF BootInv, OfflineAgrees, OnlyServeKnows
<1> QED
  BY <1>1, Boots, PTL

-----------------------------------------------------------------------------
(* Globs                                                                   *)

(* Induction up to a bound.                                                *)
LEMMA UpTo ==
    ASSUME NEW n \in Nat, NEW P,
           0 \in P, \A k \in 1..n : k - 1 \in P => k \in P
    PROVE  \A k \in 0..n : k \in P
<1> DEFINE Bad == {k \in 0..n : k \notin P}
<1>1. ASSUME Bad # {} PROVE FALSE
  <2>1. PICK k \in Bad : \A j \in Bad : k <= j
    <3>1. Bad \in SUBSET Nat  OBVIOUS
    <3> QED  BY <1>1, <3>1, Least
  <2>2. k \in 1..n  OBVIOUS
  <2>3. k - 1 \in 0..n /\ k - 1 \notin Bad
    <3>1. k - 1 \in 0..n  BY <2>2
    <3>2. k - 1 \in Bad => k <= k - 1  BY <2>1
    <3> HIDE DEF Bad
    <3> QED  BY <2>2, <3>1, <3>2
  <2> QED  BY <2>2, <2>3
<1> QED
  BY <1>1

LEMMA AfterPartFinds ==
    ASSUME NEW v, IsList(v), NEW part, IsList(part), NEW from \in Nat \ {0}
    PROVE  /\ AfterPart(v, part, from) \in Nat \ {0}
           /\ \A spot \in from..Len(v) + 1 :
                  Occurs(v, part, spot) => AfterPart(v, part, from) <= spot + Len(part)
           /\ AfterPart(v, part, from) <= Len(v) + 1 =>
                  \E spot \in from..Len(v) + 1 :
                      Occurs(v, part, spot) /\ AfterPart(v, part, from) = spot + Len(part)
<1> DEFINE found == {spot \in from..Len(v) + 1 : Occurs(v, part, spot)}
<1>1. Len(v) \in Nat /\ Len(part) \in Nat
  BY DEF IsList
<1>2. CASE found = {}
  BY <1>1, <1>2 DEF AfterPart
<1>3. CASE found # {}
  <2>1. \E u \in found : \A w \in found : u <= w
    <3>1. found \in SUBSET Nat  BY <1>1
    <3> HIDE DEF found
    <3> QED  BY <1>3, <3>1, Least
  <2>2. Min(found) \in found /\ \A w \in found : Min(found) <= w
    BY <2>1 DEF Min
  <2>3. AfterPart(v, part, from) = Min(found) + Len(part)
    BY <1>3 DEF AfterPart
  <2>4. Min(found) \in from..Len(v) + 1 /\ Occurs(v, part, Min(found))
    BY <2>2
  <2>5. \A spot \in from..Len(v) + 1 : Occurs(v, part, spot) => Min(found) <= spot
    BY <2>2
  <2> HIDE DEF found
  <2> QED
    BY <1>1, <2>3, <2>4, <2>5
<1> QED
  BY <1>2, <1>3

(* The position a glob has come to after each of its parts.                *)
Rests(parts, v) ==
    CHOOSE rest : rest = [k \in 0..Len(parts) - 1 |->
        IF k = 0 THEN 1 ELSE AfterPart(v, parts[k], rest[k - 1])]

LEMMA RestsGoOn ==
    ASSUME NEW parts, Len(parts) \in Nat \ {0}, NEW v
    PROVE  Rests(parts, v) = [k \in 0..Len(parts) - 1 |->
               IF k = 0 THEN 1 ELSE AfterPart(v, parts[k], Rests(parts, v)[k - 1])]
<1> DEFINE n == Len(parts) - 1
           F(x, k) == AfterPart(v, parts[k], x)
           Is(j, g) == g = [k \in 0..j |-> IF k = 0 THEN 1 ELSE F(g[k - 1], k)]
           P == {j \in 0..n : \E g : Is(j, g)}
<1> HIDE DEF F
<1>1. 0 \in P
  <2>1. Is(0, [k \in 0..0 |-> 1])  OBVIOUS
  <2>2. 0 \in 0..n  OBVIOUS
  <2> HIDE DEF Is
  <2> QED  BY <2>1, <2>2
<1>2. ASSUME NEW j \in 1..n, j - 1 \in P PROVE j \in P
  <2>1. PICK g : Is(j - 1, g)
    BY <1>2
  <2> DEFINE h == [k \in 0..j |-> IF k = j THEN F(g[j - 1], j) ELSE g[k]]
  <2>2. \A k \in 0..j : h[k] = IF k = 0 THEN 1 ELSE F(h[k - 1], k)
    BY <2>1
  <2>3. Is(j, h) /\ j \in 0..n
    BY <2>2
  <2> HIDE DEF Is, h
  <2> QED  BY <2>3
<1>3. \E g : Is(n, g)
  <2>1. n \in Nat  OBVIOUS
  <2> HIDE DEF P
  <2>2. \A k \in 0..n : k \in P  BY <1>1, <1>2, <2>1, UpTo
  <2> QED  BY <2>1, <2>2 DEF P
<1>4. Rests(parts, v) = CHOOSE g : Is(n, g)
  BY DEF Rests, F
<1>5. Is(n, Rests(parts, v))
  <2> HIDE DEF Is
  <2> QED  BY <1>3, <1>4
<1> QED
  BY <1>5 DEF F

LEMMA RestsMove ==
    ASSUME NEW parts, IsList(parts), parts # <<>>,
           \A i \in DOMAIN parts : IsList(parts[i]), NEW v, IsList(v)
    PROVE  /\ Rests(parts, v)[0] = 1
           /\ \A k \in 1..Len(parts) - 1 :
                  Rests(parts, v)[k] = AfterPart(v, parts[k], Rests(parts, v)[k - 1])
           /\ \A k \in 0..Len(parts) - 1 : Rests(parts, v)[k] \in Nat \ {0}
<1> DEFINE n == Len(parts)
           r == Rests(parts, v)
<1>1. n \in Nat \ {0} /\ DOMAIN parts = 1..n
  BY DEF IsList
<1>2. r = [k \in 0..n - 1 |-> IF k = 0 THEN 1 ELSE AfterPart(v, parts[k], r[k - 1])]
  <2>1. Len(parts) \in Nat \ {0}  BY <1>1
  <2> HIDE DEF n, r
  <2>2. Rests(parts, v) = [k \in 0..Len(parts) - 1 |->
            IF k = 0 THEN 1 ELSE AfterPart(v, parts[k], Rests(parts, v)[k - 1])]
    BY <2>1, RestsGoOn
  <2> QED  BY <2>2, Zenon DEF n, r
<1> HIDE DEF r
<1>3. r[0] = 1 /\ \A k \in 1..n - 1 : r[k] = AfterPart(v, parts[k], r[k - 1])
  BY <1>1, <1>2
<1> DEFINE P == {k \in 0..n - 1 : r[k] \in Nat \ {0}}
<1>4. 0 \in P
  BY <1>1, <1>3
<1>5. ASSUME NEW k \in 1..n - 1, k - 1 \in P PROVE k \in P
  <2>1. k \in DOMAIN parts /\ r[k - 1] \in Nat \ {0}
    BY <1>1, <1>5
  <2>2. AfterPart(v, parts[k], r[k - 1]) \in Nat \ {0}
    BY <2>1, AfterPartFinds
  <2> QED  BY <1>1, <1>3, <2>2
<1>6. \A k \in 0..n - 1 : k \in P
  <2>1. n - 1 \in Nat  BY <1>1
  <2> HIDE DEF P
  <2> QED  BY <1>4, <1>5, <2>1, UpTo
<1> QED
  BY <1>3, <1>6 DEF r

(* A value of one part only.                                               *)
LEMMA OnePart ==
    ASSUME NEW parts, IsList(parts), Len(parts) = 1, IsList(parts[1]), NEW v, IsList(v)
    PROVE  GlobMatch(parts, v) <=> Globbed(parts, v)
<1>1. Len(v) \in Nat /\ DOMAIN parts = {1} /\ Len(parts[1]) \in Nat
  BY DEF IsList
<1>2. SubSeq(v, 1, Len(v)) = v
  BY DEF IsList
<1>3. GlobMatch(parts, v) <=> v = parts[1]
  BY DEF GlobMatch
<1>4. ASSUME v = parts[1] PROVE Globbed(parts, v)
  <2> DEFINE spot == [k \in DOMAIN parts |-> 1]
  <2>1. Occurs(v, parts[1], 1)
    BY <1>1, <1>2, <1>4 DEF Occurs
  <2>2. spot \in [DOMAIN parts -> 1..Len(v) + 1] /\ spot[1] = 1
    BY <1>1
  <2>3. spot[Len(parts)] + Len(parts[Len(parts)]) = Len(v) + 1
    BY <1>1, <1>4
  <2>4. \A k \in DOMAIN parts :
            Occurs(v, parts[k], spot[k]) /\ (k > 1 => spot[k] >= spot[k - 1] + Len(parts[k - 1]))
    BY <1>1, <2>1
  <2> HIDE DEF spot
  <2> QED  BY <2>2, <2>3, <2>4 DEF Globbed
<1>5. ASSUME Globbed(parts, v) PROVE v = parts[1]
  <2>1. PICK spot \in [DOMAIN parts -> 1..Len(v) + 1] :
            /\ spot[1] = 1 /\ spot[1] + Len(parts[1]) = Len(v) + 1
            /\ Occurs(v, parts[1], spot[1])
    BY <1>1, <1>5 DEF Globbed
  <2>2. Len(parts[1]) = Len(v) /\ Occurs(v, parts[1], 1)
    BY <1>1, <2>1
  <2>3. SubSeq(v, 1, Len(v)) = parts[1]
    BY <1>1, <2>2 DEF Occurs
  <2> QED  BY <1>2, <2>3
<1> QED
  BY <1>3, <1>4, <1>5

(* A greedy search: of n parts of lengths z that may be put where Spots    *)
(* says, r[k] is where the k-th ends if each is put as early as it can be  *)
(* after the one before, and past the end L if it cannot.                  *)
Greedy(n, z, L, Spots, r) ==
    /\ n \in Nat /\ n > 1 /\ L \in Nat
    /\ z \in [1..n -> Nat]
    /\ r \in [0..n - 1 -> Nat \ {0}] /\ r[0] = 1
    /\ \A k \in 1..n - 1 :
           /\ \A u \in r[k - 1]..L + 1 : u \in Spots[k] => r[k] <= u + z[k]
           /\ r[k] <= L + 1 =>
                  \E u \in r[k - 1]..L + 1 : u \in Spots[k] /\ r[k] = u + z[k]

(* All parts in order, the first at the beginning, the last at the end.    *)
Cover(n, z, L, Spots, spot) ==
    /\ spot \in [1..n -> 1..L + 1]
    /\ spot[1] = 1 /\ spot[n] + z[n] = L + 1
    /\ \A k \in 1..n : spot[k] \in Spots[k] /\ (k > 1 => spot[k] >= spot[k - 1] + z[k - 1])

(* It finds nothing but what is there.                                     *)
LEMMA GreedyCovers ==
    ASSUME NEW n, NEW z, NEW L, NEW Spots, NEW r, NEW last, Greedy(n, z, L, Spots, r),
           last = L + 1 - z[n],
           1 \in Spots[1], r[n - 1] <= last, last \in Spots[n]
    PROVE  \E spot : Cover(n, z, L, Spots, spot)
<1>1. /\ n \in Nat /\ n > 1 /\ L \in Nat /\ z \in [1..n -> Nat]
      /\ r \in [0..n - 1 -> Nat \ {0}] /\ r[0] = 1
  BY DEF Greedy
<1>2. last \in Int /\ last <= L + 1
  BY <1>1
<1>3. ASSUME NEW k \in 1..n - 1, r[k] <= L + 1
      PROVE  \E u \in r[k - 1]..L + 1 : u \in Spots[k] /\ r[k] = u + z[k]
  BY <1>3 DEF Greedy
<1> DEFINE P == {k \in 0..n - 1 : r[n - 1 - k] <= L + 1}
<1>4. 0 \in P
  BY <1>1, <1>2
<1>5. ASSUME NEW k \in 1..n - 1, k - 1 \in P PROVE k \in P
  <2>1. n - k \in 1..n - 1 /\ n - 1 - (k - 1) = n - k
    BY <1>1
  <2>2. r[n - k] <= L + 1
    BY <1>5, <2>1
  <2>3. \E u \in r[n - k - 1]..L + 1 : TRUE
    BY <1>3, <2>1, <2>2
  <2>4. n - k - 1 \in 0..n - 1 /\ n - k - 1 = n - 1 - k
    BY <1>1, <2>1
  <2>5. r[n - k - 1] <= L + 1
    BY <1>1, <2>3, <2>4
  <2> QED  BY <2>4, <2>5
<1>6. \A k \in 0..n - 1 : r[k] <= L + 1
  <2>1. \A k \in 0..n - 1 : k \in P
    <3>1. n - 1 \in Nat  BY <1>1
    <3> HIDE DEF P
    <3> QED  BY <1>4, <1>5, <3>1, UpTo
  <2> SUFFICES ASSUME NEW k \in 0..n - 1 PROVE r[k] <= L + 1  OBVIOUS
  <2>2. n - 1 - k \in 0..n - 1 /\ n - 1 - (n - 1 - k) = k
    BY <1>1
  <2>3. n - 1 - k \in P
    BY <2>1, <2>2
  <2> QED  BY <2>2, <2>3
<1> DEFINE spot == [k \in 1..n |-> IF k = n THEN last ELSE r[k] - z[k]]
<1>7. ASSUME NEW k \in 1..n - 1
      PROVE  spot[k] \in r[k - 1]..L + 1 /\ spot[k] \in Spots[k] /\ r[k] = spot[k] + z[k]
  <2>1. PICK u \in r[k - 1]..L + 1 : u \in Spots[k] /\ r[k] = u + z[k]
    <3>1. r[k] <= L + 1  BY <1>1, <1>6
    <3> QED  BY <1>3, <3>1
  <2>2. k \in 1..n /\ k # n /\ k - 1 \in 0..n - 1
    BY <1>1
  <2>3. r[k - 1] \in Nat /\ z[k] \in Nat
    BY <1>1, <2>2
  <2>4. spot[k] = r[k] - z[k]
    BY <2>2
  <2> HIDE DEF spot
  <2>5. spot[k] = u
    BY <1>1, <2>1, <2>3, <2>4
  <2> QED  BY <2>1, <2>5
<1>8. spot[n] = last /\ DOMAIN spot = 1..n /\ spot = [k \in 1..n |-> spot[k]]
  BY <1>1
<1> HIDE DEF spot
<1>9. last \in 1..L + 1 /\ last >= r[n - 1]
  <2>1. r[n - 1] \in Nat \ {0}
    BY <1>1
  <2> QED  BY <1>1, <1>2, <2>1
<1>10. spot \in [1..n -> 1..L + 1]
  <2>1. ASSUME NEW k \in 1..n, k # n PROVE spot[k] \in 1..L + 1
    <3>1. k \in 1..n - 1  BY <1>1, <2>1
    <3>2. r[k - 1] \in Nat \ {0}  BY <1>1, <3>1
    <3>3. spot[k] \in r[k - 1]..L + 1  BY <1>7, <3>1
    <3>4. L \in Nat  BY <1>1
    <3> QED  BY <3>2, <3>3, <3>4
  <2>2. \A k \in 1..n : spot[k] \in 1..L + 1
    BY <1>8, <1>9, <2>1
  <2> QED  BY <1>8, <2>2
<1>11. spot[1] = 1
  <2>1. 1 \in 1..n - 1 /\ 1 \in 1..n /\ r[1 - 1] = 1 /\ 1 \in 1..L + 1
    BY <1>1
  <2>2. r[1] <= 1 + z[1]
    BY <2>1 DEF Greedy
  <2>3. r[1] = spot[1] + z[1]
    BY <1>7, <2>1
  <2>4. spot[1] \in 1..L + 1 /\ z[1] \in Nat
    BY <1>1, <1>10, <2>1
  <2>5. L \in Nat  BY <1>1
  <2> QED  BY <2>2, <2>3, <2>4, <2>5
<1>12. ASSUME NEW k \in 1..n
       PROVE  spot[k] \in Spots[k] /\ (k > 1 => spot[k] >= spot[k - 1] + z[k - 1])
  <2>1. spot[k] \in Spots[k]
    <3>1. k # n => k \in 1..n - 1  BY <1>1
    <3> QED  BY <1>7, <1>8, <3>1
  <2>2. ASSUME k > 1 PROVE spot[k] >= spot[k - 1] + z[k - 1]
    <3>1. k - 1 \in 1..n - 1
      BY <1>1, <2>2
    <3>2. r[k - 1] = spot[k - 1] + z[k - 1]
      BY <1>7, <3>1
    <3>3. spot[k] >= r[k - 1]
      <4>1. CASE k = n  BY <1>8, <1>9, <4>1
      <4>2. CASE k # n
        <5>1. k \in 1..n - 1  BY <1>1, <4>2
        <5>2. spot[k] \in r[k - 1]..L + 1  BY <1>7, <5>1
        <5>3. k - 1 \in 0..n - 1  BY <1>1, <5>1
        <5>4. r[k - 1] \in Nat /\ L \in Nat  BY <1>1, <5>3
        <5> QED  BY <5>2, <5>4
      <4> QED  BY <4>1, <4>2
    <3> QED  BY <3>2, <3>3
  <2> QED  BY <2>1, <2>2
<1>13. spot[n] + z[n] = L + 1
  <2>1. z[n] \in Nat  BY <1>1
  <2> QED  BY <1>1, <1>8, <2>1
<1> QED
  BY <1>10, <1>11, <1>12, <1>13 DEF Cover

(* And it misses nothing.                                                  *)
LEMMA CoverIsFound ==
    ASSUME NEW n, NEW z, NEW L, NEW Spots, NEW r, NEW spot, Greedy(n, z, L, Spots, r),
           Cover(n, z, L, Spots, spot)
    PROVE  /\ 1 \in Spots[1]
           /\ spot[n] = L + 1 - z[n] /\ r[n - 1] <= spot[n] /\ spot[n] \in Spots[n]
<1>1. /\ n \in Nat /\ n > 1 /\ L \in Nat /\ z \in [1..n -> Nat]
      /\ r \in [0..n - 1 -> Nat \ {0}] /\ r[0] = 1
      /\ spot \in [1..n -> 1..L + 1] /\ spot[1] = 1 /\ spot[n] + z[n] = L + 1
  BY DEF Greedy, Cover
<1>2. \A k \in 1..n : spot[k] \in Spots[k] /\ (k > 1 => spot[k] >= spot[k - 1] + z[k - 1])
  BY DEF Cover
<1>3. ASSUME NEW k \in 1..n - 1, r[k - 1] <= spot[k] PROVE r[k] <= spot[k] + z[k]
  <2>1. k \in 1..n /\ k - 1 \in 0..n - 1
    BY <1>1
  <2>2. spot[k] \in r[k - 1]..L + 1
    BY <1>1, <1>3, <2>1
  <2> QED  BY <1>2, <2>1, <2>2 DEF Greedy
<1> DEFINE P == {k \in 0..n - 1 : k # 0 => r[k] <= spot[k] + z[k]}
<1>4. 0 \in P
  BY <1>1
<1>5. ASSUME NEW k \in 1..n - 1, k - 1 \in P PROVE k \in P
  <2>1. r[k - 1] <= spot[k]
    <3>1. CASE k = 1
      BY <1>1, <3>1
    <3>2. CASE k # 1
      <4>1. k - 1 \in 1..n /\ k - 1 \in 0..n - 1 /\ k \in 1..n /\ k > 1 /\ k - 1 # 0
        BY <1>1, <3>2
      <4>2. r[k - 1] <= spot[k - 1] + z[k - 1]  BY <1>5, <4>1
      <4>3. spot[k] >= spot[k - 1] + z[k - 1]  BY <1>2, <4>1
      <4>4. /\ r[k - 1] \in Nat /\ z[k - 1] \in Nat
            /\ spot[k] \in 1..L + 1 /\ spot[k - 1] \in 1..L + 1
        BY <1>1, <4>1, Zenon
      <4>5. L \in Nat  BY <1>1
      <4> QED  BY <4>2, <4>3, <4>4, <4>5
    <3> QED  BY <3>1, <3>2
  <2> QED  BY <1>3, <2>1
<1>6. r[n - 1] <= spot[n - 1] + z[n - 1]
  <2>1. n - 1 \in Nat  BY <1>1
  <2>2. \A k \in 0..n - 1 : k \in P
    <3> HIDE DEF P
    <3> QED  BY <1>4, <1>5, <2>1, UpTo
  <2>3. n - 1 \in 0..n - 1 /\ n - 1 # 0
    BY <1>1
  <2>4. n - 1 \in P
    <3> HIDE DEF P
    <3> QED  BY <2>2, <2>3
  <2> QED  BY <2>3, <2>4
<1>7. r[n - 1] <= spot[n]
  <2>1. n \in 1..n /\ n - 1 \in 1..n /\ n - 1 \in 0..n - 1
    BY <1>1
  <2>2. r[n - 1] \in Nat /\ spot[n] \in Nat /\ spot[n - 1] \in Nat /\ z[n - 1] \in Nat
    BY <1>1, <2>1
  <2>3. spot[n] >= spot[n - 1] + z[n - 1]
    BY <1>1, <1>2, <2>1
  <2> QED  BY <1>6, <2>2, <2>3
<1> QED
  <2>1. 1 \in 1..n /\ n \in 1..n
    BY <1>1
  <2>2. spot[n] \in Nat /\ z[n] \in Nat
    BY <1>1, <2>1
  <2>3. spot[n] = L + 1 - z[n]
    <3>1. spot[n] + z[n] = L + 1 /\ L \in Nat  BY <1>1
    <3> QED  BY <2>2, <3>1
  <2>4. 1 \in Spots[1] /\ spot[n] \in Spots[n]
    BY <1>1, <1>2, <2>1
  <2> QED  BY <1>7, <2>3, <2>4

(* The search of globMatch is such a search.                               *)
Lengths(parts) == [k \in DOMAIN parts |-> Len(parts[k])]
Places(parts, v) ==
    [k \in DOMAIN parts |-> {u \in 1..Len(v) + 1 : Occurs(v, parts[k], u)}]

LEMMA GlobIsGreedy ==
    ASSUME NEW parts, IsList(parts), NEW n \in Nat, n = Len(parts), n > 1,
           \A i \in DOMAIN parts : IsList(parts[i]), NEW v, IsList(v)
    PROVE  /\ DOMAIN parts = 1..n
           /\ \A k \in 1..n, u \in 1..Len(v) + 1 :
                  u \in Places(parts, v)[k] <=> Occurs(v, parts[k], u)
           /\ Greedy(n, Lengths(parts), Len(v), Places(parts, v), Rests(parts, v))
<1>1. DOMAIN parts = 1..n /\ Len(v) \in Nat /\ parts # <<>>
  BY DEF IsList
<1>2. \A k \in 1..n, u \in 1..Len(v) + 1 :
          u \in Places(parts, v)[k] <=> Occurs(v, parts[k], u)
  BY <1>1 DEF Places
<1> DEFINE r == Rests(parts, v)
           z == Lengths(parts)
           L == Len(v)
<1>3. z \in [1..n -> Nat] /\ \A k \in 1..n : z[k] = Len(parts[k])
  BY <1>1 DEF Lengths, IsList
<1>4. r = [k \in 0..n - 1 |-> IF k = 0 THEN 1 ELSE AfterPart(v, parts[k], r[k - 1])]
  BY <1>1, RestsGoOn
<1>5. /\ r[0] = 1
      /\ \A k \in 1..n - 1 : r[k] = AfterPart(v, parts[k], r[k - 1])
      /\ \A k \in 0..n - 1 : r[k] \in Nat \ {0}
  BY <1>1, RestsMove
<1> HIDE DEF r, z, L
<1>6. r \in [0..n - 1 -> Nat \ {0}]
  BY <1>4, <1>5
<1>7. ASSUME NEW k \in 1..n - 1
      PROVE  /\ \A u \in r[k - 1]..L + 1 : u \in Places(parts, v)[k] => r[k] <= u + z[k]
             /\ r[k] <= L + 1 =>
                  \E u \in r[k - 1]..L + 1 : u \in Places(parts, v)[k] /\ r[k] = u + z[k]
  <2>1. k \in 1..n /\ k - 1 \in 0..n - 1
    OBVIOUS
  <2>2. /\ r[k - 1] \in Nat \ {0} /\ r[k] = AfterPart(v, parts[k], r[k - 1])
        /\ IsList(parts[k]) /\ z[k] = Len(parts[k]) /\ L = Len(v)
    BY <1>1, <1>3, <1>5, <2>1 DEF L
  <2>3. /\ \A u \in r[k - 1]..L + 1 : Occurs(v, parts[k], u) => r[k] <= u + z[k]
        /\ r[k] <= L + 1 =>
               \E u \in r[k - 1]..L + 1 : Occurs(v, parts[k], u) /\ r[k] = u + z[k]
    <3>1. PICK from \in Nat \ {0} : from = r[k - 1]
      BY <2>2
    <3>2. PICK part : part = parts[k] /\ IsList(part)
      BY <2>2
    <3>3. /\ \A spot \in from..Len(v) + 1 :
                 Occurs(v, part, spot) => AfterPart(v, part, from) <= spot + Len(part)
          /\ AfterPart(v, part, from) <= Len(v) + 1 =>
                 \E spot \in from..Len(v) + 1 :
                     Occurs(v, part, spot) /\ AfterPart(v, part, from) = spot + Len(part)
      BY <3>1, <3>2, AfterPartFinds, Zenon
    <3>4. AfterPart(v, part, from) = r[k] /\ Len(part) = z[k] /\ Len(v) = L
      BY <2>2, <3>1, <3>2
    <3> HIDE DEF L
    <3> QED  BY <3>1, <3>2, <3>3, <3>4, Zenon
  <2>4. \A u \in r[k - 1]..L + 1 : u \in 1..L + 1
    BY <1>1, <2>2
  <2>5. \A u \in r[k - 1]..L + 1 : u \in Places(parts, v)[k] <=> Occurs(v, parts[k], u)
    BY <1>2, <2>1, <2>2, <2>4
  <2> QED  BY <2>3, <2>5
<1>8. Greedy(n, z, L, Places(parts, v), r)
  BY <1>1, <1>3, <1>5, <1>6, <1>7 DEF Greedy, L
<1> QED
  BY <1>1, <1>2, <1>8 DEF r, z, L

LEMMA GlobbedIsCover ==
    ASSUME NEW parts, IsList(parts), NEW n \in Nat, n = Len(parts), n > 1,
           \A i \in DOMAIN parts : IsList(parts[i]), NEW v, IsList(v)
    PROVE  Globbed(parts, v) <=> \E spot : Cover(n, Lengths(parts), Len(v), Places(parts, v), spot)
<1>1. /\ DOMAIN parts = 1..n
      /\ \A k \in 1..n, u \in 1..Len(v) + 1 :
             u \in Places(parts, v)[k] <=> Occurs(v, parts[k], u)
  BY GlobIsGreedy
<1>2. \A k \in 1..n : Lengths(parts)[k] = Len(parts[k])
  BY <1>1 DEF Lengths
<1>3. \A spot : spot \in [1..n -> 1..Len(v) + 1] =>
         \A k \in 1..n : spot[k] \in Places(parts, v)[k] <=> Occurs(v, parts[k], spot[k])
  BY <1>1
<1>4. \A k \in 1..n : k > 1 => Lengths(parts)[k - 1] = Len(parts[k - 1])
  BY <1>2
<1>5. Lengths(parts)[n] = Len(parts[n])
  BY <1>2
<1>6. ASSUME NEW spot \in [1..n -> 1..Len(v) + 1]
      PROVE  Cover(n, Lengths(parts), Len(v), Places(parts, v), spot) <=>
                /\ spot[1] = 1 /\ spot[n] + Len(parts[n]) = Len(v) + 1
                /\ \A k \in 1..n : Occurs(v, parts[k], spot[k])
                                   /\ (k > 1 => spot[k] >= spot[k - 1] + Len(parts[k - 1]))
  BY <1>3, <1>4, <1>5, <1>6, Zenon DEF Cover
<1>7. Globbed(parts, v) <=> \E spot \in [1..n -> 1..Len(v) + 1] :
                /\ spot[1] = 1 /\ spot[n] + Len(parts[n]) = Len(v) + 1
                /\ \A k \in 1..n : Occurs(v, parts[k], spot[k])
                                   /\ (k > 1 => spot[k] >= spot[k - 1] + Len(parts[k - 1]))
  BY <1>1, Zenon DEF Globbed
<1>8. \A spot : Cover(n, Lengths(parts), Len(v), Places(parts, v), spot)
                => spot \in [1..n -> 1..Len(v) + 1]
  BY DEF Cover
<1> QED
  BY <1>6, <1>7, <1>8, Zenon

(* globMatch is what a glob means: to take each part as early as possible  *)
(* loses no match.                                                         *)
LEMMA GlobIsRight ==
    ASSUME NEW parts, IsList(parts), parts # <<>>,
           \A i \in DOMAIN parts : IsList(parts[i]), NEW v, IsList(v)
    PROVE  GlobMatch(parts, v) <=> Globbed(parts, v)
<1>1. PICK n \in Nat \ {0} : n = Len(parts) /\ DOMAIN parts = 1..n
  BY DEF IsList
<1>2. CASE n = 1
  <2>1. Len(v) \in Nat /\ DOMAIN parts = {1} /\ Len(parts[1]) \in Nat
    BY <1>1, <1>2 DEF IsList
  <2>2. SubSeq(v, 1, Len(v)) = v
    BY DEF IsList
  <2>3. GlobMatch(parts, v) <=> v = parts[1]
    BY <1>1, <1>2 DEF GlobMatch
  <2>4. ASSUME v = parts[1] PROVE Globbed(parts, v)
    <3> DEFINE spot == [k \in DOMAIN parts |-> 1]
    <3>1. Occurs(v, parts[1], 1)
      BY <2>1, <2>2, <2>4 DEF Occurs
    <3>2. spot \in [DOMAIN parts -> 1..Len(v) + 1] /\ spot[1] = 1
      BY <2>1
    <3>3. spot[Len(parts)] + Len(parts[Len(parts)]) = Len(v) + 1
      BY <1>1, <1>2, <2>1, <2>4
    <3>4. \A k \in DOMAIN parts :
              Occurs(v, parts[k], spot[k]) /\ (k > 1 => spot[k] >= spot[k - 1] + Len(parts[k - 1]))
      BY <2>1, <3>1
    <3> HIDE DEF spot
    <3> QED  BY <3>2, <3>3, <3>4 DEF Globbed
  <2>5. ASSUME Globbed(parts, v) PROVE v = parts[1]
    <3>1. PICK spot \in [DOMAIN parts -> 1..Len(v) + 1] :
              /\ spot[1] = 1 /\ spot[1] + Len(parts[1]) = Len(v) + 1
              /\ Occurs(v, parts[1], spot[1])
      BY <1>1, <1>2, <2>1, <2>5 DEF Globbed
    <3>2. Len(parts[1]) = Len(v) /\ Occurs(v, parts[1], 1)
      BY <2>1, <3>1
    <3>3. SubSeq(v, 1, Len(v)) = parts[1]
      BY <2>1, <3>2 DEF Occurs
    <3> QED  BY <2>2, <3>3
  <2> QED  BY <2>3, <2>4, <2>5
<1>3. CASE n > 1
  <2> DEFINE last == Len(v) + 1 - Len(parts[n])
             r == Rests(parts, v)
             S == Places(parts, v)
             z == Lengths(parts)
             L == Len(v)
  <2>1. n # 1  BY <1>3
  <2>2. GlobMatch(parts, v) <=>
            Occurs(v, parts[1], 1) /\ r[n - 1] <= last /\ Occurs(v, parts[n], last)
    BY <1>1, <2>1, Zenon DEF GlobMatch, Rests
  <2>3. /\ \A k \in 1..n, u \in 1..L + 1 : u \in S[k] <=> Occurs(v, parts[k], u)
        /\ Greedy(n, z, L, S, r)
    BY <1>1, <1>3, GlobIsGreedy
  <2>4. Globbed(parts, v) <=> \E spot : Cover(n, z, L, S, spot)
    BY <1>1, <1>3, GlobbedIsCover
  <2>5. last = L + 1 - z[n] /\ 1 \in 1..n /\ n \in 1..n
    <3>1. 1 \in 1..n /\ n \in 1..n  BY <1>1
    <3>2. z[n] = Len(parts[n])  BY <1>1, <3>1 DEF Lengths
    <3> QED  BY <3>1, <3>2
  <2>6. L \in Nat /\ z \in [1..n -> Nat] /\ r[n - 1] \in Nat \ {0}
    BY <1>1, <2>3 DEF Greedy
  <2> HIDE DEF last, r, S, z, L
  <2>7. last \in Int /\ last <= L + 1
    BY <2>5, <2>6
  <2>8. r[n - 1] <= last => last \in 1..L + 1
    BY <2>6, <2>7
  <2>9. 1 \in 1..L + 1
    BY <2>6
  <2>10. GlobMatch(parts, v) => \E spot : Cover(n, z, L, S, spot)
    <3>1. GlobMatch(parts, v) => 1 \in S[1] /\ r[n - 1] <= last /\ last \in S[n]
      BY <2>2, <2>3, <2>5, <2>8, <2>9
    <3> QED  BY <2>3, <2>5, <3>1, GreedyCovers
  <2>11. ASSUME NEW spot, Cover(n, z, L, S, spot) PROVE GlobMatch(parts, v)
    <3>1. 1 \in S[1] /\ last = spot[n] /\ r[n - 1] <= last /\ last \in S[n]
      BY <2>3, <2>5, <2>11, CoverIsFound
    <3> QED  BY <2>2, <2>3, <2>5, <2>8, <2>9, <3>1
  <2> QED  BY <2>4, <2>10, <2>11
<1> QED
  BY <1>1, <1>2, <1>3

-----------------------------------------------------------------------------
(* Lists of chats                                                          *)

WithOne(list, x) == IF x \in Range(list) THEN list ELSE Append(list, x)

(* The lists Distinct goes through.                                        *)
Distinctly(q) ==
    CHOOSE d : d = [k \in 0..Len(q) |->
        IF k = 0 THEN <<>>
        ELSE LET list == d[k - 1]
             IN  IF q[k] \in Range(list) THEN list ELSE Append(list, q[k])]

LEMMA DistinctGoesOn ==
    ASSUME NEW q, Len(q) \in Nat
    PROVE  Distinctly(q) = [k \in 0..Len(q) |->
               IF k = 0 THEN <<>> ELSE WithOne(Distinctly(q)[k - 1], q[k])]
<1> DEFINE n == Len(q)
           F(x, k) == LET list == x
                      IN  IF q[k] \in Range(list) THEN list ELSE Append(list, q[k])
           Is(j, g) == g = [k \in 0..j |-> IF k = 0 THEN <<>> ELSE F(g[k - 1], k)]
           P == {j \in 0..n : \E g : Is(j, g)}
<1> HIDE DEF F
<1>1. 0 \in P
  <2>1. Is(0, [k \in 0..0 |-> <<>>])  OBVIOUS
  <2>2. 0 \in 0..n  OBVIOUS
  <2> HIDE DEF Is
  <2> QED  BY <2>1, <2>2
<1>2. ASSUME NEW j \in 1..n, j - 1 \in P PROVE j \in P
  <2>1. PICK g : Is(j - 1, g)
    BY <1>2
  <2> DEFINE h == [k \in 0..j |-> IF k = j THEN F(g[j - 1], j) ELSE g[k]]
  <2>2. \A k \in 0..j : h[k] = IF k = 0 THEN <<>> ELSE F(h[k - 1], k)
    BY <2>1
  <2>3. Is(j, h) /\ j \in 0..n
    BY <2>2
  <2> HIDE DEF Is, h
  <2> QED  BY <2>3
<1>3. \E g : Is(n, g)
  <2> HIDE DEF P
  <2>2. \A k \in 0..n : k \in P  BY <1>1, <1>2, UpTo
  <2> QED  BY <2>2 DEF P
<1>4. Distinctly(q) = CHOOSE g : Is(n, g)
  BY DEF Distinctly, F
<1>5. Is(n, Distinctly(q))
  <2> HIDE DEF Is
  <2> QED  BY <1>3, <1>4
<1> QED
  BY <1>5 DEF F, WithOne

LEMMA WithOneIsDistinct ==
    ASSUME NEW S, NEW b \in Seq(S), IsInjective(b), NEW x \in S
    PROVE  /\ WithOne(b, x) \in Seq(S) /\ IsInjective(WithOne(b, x))
           /\ Range(WithOne(b, x)) = Range(b) \cup {x}
<1>1. CASE x \in Range(b)
  BY <1>1 DEF WithOne
<1>2. CASE x \notin Range(b)
  <2>1. WithOne(b, x) = Append(b, x)
    BY <1>2 DEF WithOne
  <2>2. PICK n \in Nat : Len(b) = n /\ DOMAIN b = 1..n
    OBVIOUS
  <2>3. /\ Append(b, x) \in Seq(S) /\ DOMAIN Append(b, x) = 1..n + 1
        /\ \A k \in 1..n : Append(b, x)[k] = b[k]
        /\ Append(b, x)[n + 1] = x
    BY <2>2
  <2> DEFINE c == Append(b, x)
  <2> HIDE DEF c
  <2>4. /\ DOMAIN c = 1..n + 1
        /\ \A k \in 1..n : c[k] = b[k]
        /\ c[n + 1] = x
    BY <2>3 DEF c
  <2>5. \A k \in 1..n : c[k] \in Range(b) /\ c[k] # x
    BY <1>2, <2>2, <2>4 DEF Range
  <2>6. IsInjective(c)
    <3> SUFFICES ASSUME NEW k \in 1..n + 1, NEW m \in 1..n + 1, c[k] = c[m] PROVE k = m
      BY <2>4, Zenon DEF IsInjective
    <3>1. CASE k \in 1..n /\ m \in 1..n
      BY <2>2, <2>4, <3>1 DEF IsInjective
    <3>2. CASE k \notin 1..n \/ m \notin 1..n
      <4>1. (k \in 1..n \/ k = n + 1) /\ (m \in 1..n \/ m = n + 1)
        BY <2>2
      <4> QED  BY <2>4, <2>5, <3>2, <4>1
    <3> QED  BY <3>1, <3>2
  <2>7. Range(c) = Range(b) \cup {x}
    <3>1. \A k \in 1..n + 1 : k \in 1..n \/ k = n + 1
      BY <2>2
    <3>2. \A k \in 1..n : k \in 1..n + 1 /\ n + 1 \in 1..n + 1
      BY <2>2
    <3>3. n + 1 \in 1..n + 1
      BY <2>2
    <3> QED  BY <2>2, <2>4, <3>1, <3>2, <3>3 DEF Range
  <2> QED  BY <2>1, <2>3, <2>6, <2>7 DEF c
<1> QED
  BY <1>1, <1>2

(* Distinct keeps the elements, each once.                                 *)
LEMMA DistinctIsRight ==
    ASSUME NEW q, IsList(q)
    PROVE  /\ IsList(Distinct(q)) /\ IsInjective(Distinct(q))
           /\ Range(Distinct(q)) = Range(q)
<1> DEFINE d == Distinctly(q)
           S == Range(q)
<1>1. PICK n \in Nat : n = Len(q) /\ DOMAIN q = 1..n
  BY DEF IsList
<1>2. d = [k \in 0..n |-> IF k = 0 THEN <<>> ELSE WithOne(d[k - 1], q[k])]
  BY <1>1, DistinctGoesOn
<1> HIDE DEF d
<1>3. d[0] = <<>> /\ \A k \in 1..n : d[k] = WithOne(d[k - 1], q[k])
  BY <1>1, <1>2
<1> DEFINE P == {k \in 0..n : /\ d[k] \in Seq(S) /\ IsInjective(d[k])
                              /\ Range(d[k]) = {q[i] : i \in 1..k}}
<1>4. 0 \in P
  <2>1. <<>> \in Seq(S) /\ IsInjective(<<>>) /\ Range(<<>>) = {}
    BY DEF IsInjective, Range
  <2>2. {q[i] : i \in 1..0} = {}
    OBVIOUS
  <2> HIDE DEF S
  <2>3. d[0] \in Seq(S) /\ IsInjective(d[0]) /\ Range(d[0]) = {q[i] : i \in 1..0}
    BY <1>3, <2>1, <2>2, Zenon
  <2>4. 0 \in 0..n
    OBVIOUS
  <2> QED  BY <2>3, <2>4, Zenon
<1>5. ASSUME NEW k \in 1..n, k - 1 \in P PROVE k \in P
  <2>1. d[k - 1] \in Seq(S) /\ IsInjective(d[k - 1]) /\ Range(d[k - 1]) = {q[i] : i \in 1..k - 1}
    BY <1>5
  <2>2. q[k] \in S
    BY <1>1 DEF Range
  <2>3. d[k] = WithOne(d[k - 1], q[k])
    BY <1>3
  <2> HIDE DEF S
  <2>4. /\ d[k] \in Seq(S) /\ IsInjective(d[k])
        /\ Range(d[k]) = Range(d[k - 1]) \cup {q[k]}
    BY <2>1, <2>2, <2>3, WithOneIsDistinct
  <2>5. \A i : i \in 1..k <=> i \in 1..k - 1 \/ i = k
    BY <1>1
  <2>6. {q[i] : i \in 1..k} = {q[i] : i \in 1..k - 1} \cup {q[k]}
    BY <2>5
  <2> QED  BY <2>1, <2>4, <2>6
<1>6. n \in P
  <2> HIDE DEF P
  <2>1. \A k \in 0..n : k \in P
    BY <1>4, <1>5, UpTo
  <2> QED  BY <2>1
<1>7. Distinct(q) = d[n]
  BY <1>1 DEF Distinct, Distinctly, d
<1>8. {q[i] : i \in 1..n} = S
  BY <1>1 DEF Range
<1>9. d[n] \in Seq(S) /\ IsInjective(d[n]) /\ Range(d[n]) = S
  <2> HIDE DEF S
  <2> QED  BY <1>6, <1>8
<1> QED
  BY <1>7, <1>9 DEF IsList

LEMMA SeqOfMore ==
    ASSUME NEW S, NEW T, S \subseteq T, NEW q \in Seq(S)
    PROVE  q \in Seq(T)
OBVIOUS

LEMMA RangeOfBoth ==
    ASSUME NEW S, NEW a \in Seq(S), NEW b \in Seq(S)
    PROVE  a \o b \in Seq(S) /\ Range(a \o b) = Range(a) \cup Range(b)
<1>1. PICK n \in Nat, m \in Nat :
          n = Len(a) /\ m = Len(b) /\ DOMAIN a = 1..n /\ DOMAIN b = 1..m
  OBVIOUS
<1> DEFINE c == a \o b
<1>2. /\ c \in Seq(S) /\ DOMAIN c = 1..n + m
      /\ \A k \in 1..n + m : c[k] = IF k <= n THEN a[k] ELSE b[k - n]
  BY <1>1
<1> HIDE DEF c
<1>3. ASSUME NEW k \in 1..n + m PROVE c[k] \in Range(a) \cup Range(b)
  <2>1. CASE k <= n
    <3>1. k \in 1..n /\ c[k] = a[k]  BY <1>1, <1>2, <2>1
    <3> QED  BY <1>1, <3>1 DEF Range
  <2>2. CASE ~(k <= n)
    <3>1. k - n \in 1..m /\ c[k] = b[k - n]  BY <1>1, <1>2, <2>2
    <3> QED  BY <1>1, <3>1 DEF Range
  <2> QED  BY <2>1, <2>2
<1>4. ASSUME NEW k \in 1..n PROVE a[k] \in Range(c)
  <2>1. k \in 1..n + m /\ c[k] = a[k]  BY <1>1, <1>2
  <2> QED  BY <1>2, <2>1 DEF Range
<1>5. ASSUME NEW k \in 1..m PROVE b[k] \in Range(c)
  <2>1. n + k \in 1..n + m /\ n + k - n = k /\ ~(n + k <= n)  BY <1>1
  <2>2. c[n + k] = b[k]  BY <1>2, <2>1
  <2> QED  BY <1>2, <2>1, <2>2 DEF Range
<1>6. Range(c) \subseteq Range(a) \cup Range(b)
  BY <1>2, <1>3 DEF Range
<1>7. Range(a) \subseteq Range(c) /\ Range(b) \subseteq Range(c)
  BY <1>1, <1>4, <1>5 DEF Range
<1> QED
  BY <1>2, <1>6, <1>7 DEF c

(* The lists of chats evaluateRoutes goes through.                         *)
Gathered(routes, hits) ==
    CHOOSE chats : chats = [k \in 0..Len(routes) |->
        IF k = 0 THEN <<>>
        ELSE IF k \in hits THEN chats[k - 1] \o routes[k].chats ELSE chats[k - 1]]

LEMMA GatheringGoesOn ==
    ASSUME NEW routes, Len(routes) \in Nat, NEW hits
    PROVE  Gathered(routes, hits) = [k \in 0..Len(routes) |->
               IF k = 0 THEN <<>>
               ELSE IF k \in hits THEN Gathered(routes, hits)[k - 1] \o routes[k].chats
                    ELSE Gathered(routes, hits)[k - 1]]
<1> DEFINE n == Len(routes)
           F(x, k) == IF k \in hits THEN x \o routes[k].chats ELSE x
           Is(j, g) == g = [k \in 0..j |-> IF k = 0 THEN <<>> ELSE F(g[k - 1], k)]
           P == {j \in 0..n : \E g : Is(j, g)}
<1> HIDE DEF F
<1>1. 0 \in P
  <2>1. Is(0, [k \in 0..0 |-> <<>>])  OBVIOUS
  <2>2. 0 \in 0..n  OBVIOUS
  <2> HIDE DEF Is
  <2> QED  BY <2>1, <2>2
<1>2. ASSUME NEW j \in 1..n, j - 1 \in P PROVE j \in P
  <2>1. PICK g : Is(j - 1, g)
    BY <1>2
  <2> DEFINE h == [k \in 0..j |-> IF k = j THEN F(g[j - 1], j) ELSE g[k]]
  <2>2. \A k \in 0..j : h[k] = IF k = 0 THEN <<>> ELSE F(h[k - 1], k)
    BY <2>1
  <2>3. Is(j, h) /\ j \in 0..n
    BY <2>2
  <2> HIDE DEF Is, h
  <2> QED  BY <2>3
<1>3. \E g : Is(n, g)
  <2> HIDE DEF P
  <2>2. \A k \in 0..n : k \in P  BY <1>1, <1>2, UpTo
  <2> QED  BY <2>2 DEF P
<1>4. Gathered(routes, hits) = CHOOSE g : Is(n, g)
  BY DEF Gathered, F
<1>5. Is(n, Gathered(routes, hits))
  <2> HIDE DEF Is
  <2> QED  BY <1>3, <1>4
<1> QED
  BY <1>5 DEF F

(* The chats of the routes that are hit, each once.                        *)
LEMMA RoutesAreEvaluated ==
    ASSUME NEW routes, IsList(routes), \A k \in DOMAIN routes : IsList(routes[k].chats), NEW p
    PROVE  /\ IsList(EvaluateRoutes(routes, p)) /\ IsInjective(EvaluateRoutes(routes, p))
           /\ Range(EvaluateRoutes(routes, p)) =
                  UNION {Range(routes[k].chats) : k \in MatchingRoutes(routes, p)}
<1> DEFINE hits == MatchingRoutes(routes, p)
           g == Gathered(routes, hits)
           S == UNION {Range(routes[k].chats) : k \in DOMAIN routes}
<1>1. PICK n \in Nat : n = Len(routes) /\ DOMAIN routes = 1..n
  BY DEF IsList
<1>2. hits \subseteq 1..n
  BY <1>1 DEF MatchingRoutes
<1>3. g = [k \in 0..n |-> IF k = 0 THEN <<>>
                          ELSE IF k \in hits THEN g[k - 1] \o routes[k].chats ELSE g[k - 1]]
  <2>1. Len(routes) \in Nat  BY <1>1
  <2> HIDE DEF g, hits
  <2>2. Gathered(routes, hits) = [k \in 0..Len(routes) |->
            IF k = 0 THEN <<>>
            ELSE IF k \in hits THEN Gathered(routes, hits)[k - 1] \o routes[k].chats
                 ELSE Gathered(routes, hits)[k - 1]]
    BY <2>1, GatheringGoesOn
  <2> QED  BY <1>1, <2>2, Zenon DEF g
<1> HIDE DEF g, hits
<1>4. /\ g[0] = <<>>
      /\ \A k \in 1..n : g[k] = IF k \in hits THEN g[k - 1] \o routes[k].chats ELSE g[k - 1]
  BY <1>1, <1>3
<1>5. \A k \in 1..n : routes[k].chats \in Seq(S)
  <2> SUFFICES ASSUME NEW k \in 1..n PROVE routes[k].chats \in Seq(S)  OBVIOUS
  <2>1. routes[k].chats \in Seq(Range(routes[k].chats)) /\ Range(routes[k].chats) \subseteq S
    BY <1>1 DEF IsList
  <2> HIDE DEF S
  <2> QED  BY <2>1, SeqOfMore
<1> DEFINE P == {k \in 0..n : /\ g[k] \in Seq(S)
                              /\ Range(g[k]) = UNION {Range(routes[i].chats) : i \in hits \cap 1..k}}
<1>6. 0 \in P
  <2>1. <<>> \in Seq(S) /\ Range(<<>>) = {}
    BY DEF Range
  <2>2. UNION {Range(routes[i].chats) : i \in hits \cap 1..0} = {}
    OBVIOUS
  <2> HIDE DEF S
  <2>3. g[0] \in Seq(S) /\ Range(g[0]) = UNION {Range(routes[i].chats) : i \in hits \cap 1..0}
    BY <1>4, <2>1, <2>2, Zenon
  <2>4. 0 \in 0..n
    OBVIOUS
  <2> QED  BY <2>3, <2>4, Zenon
<1>7. ASSUME NEW k \in 1..n, k - 1 \in P PROVE k \in P
  <2>1. /\ g[k - 1] \in Seq(S)
        /\ Range(g[k - 1]) = UNION {Range(routes[i].chats) : i \in hits \cap 1..k - 1}
    BY <1>7
  <2>2. \A i : i \in 1..k <=> i \in 1..k - 1 \/ i = k
    BY <1>1
  <2> HIDE DEF S
  <2>3. CASE k \in hits
    <3>1. g[k] = g[k - 1] \o routes[k].chats
      BY <1>4, <2>3
    <3>2. g[k] \in Seq(S) /\ Range(g[k]) = Range(g[k - 1]) \cup Range(routes[k].chats)
      BY <1>5, <2>1, <3>1, RangeOfBoth
    <3>3. UNION {Range(routes[i].chats) : i \in hits \cap 1..k} =
              (UNION {Range(routes[i].chats) : i \in hits \cap 1..k - 1}) \cup Range(routes[k].chats)
      <4> DEFINE R(i) == Range(routes[i].chats)
      <4> HIDE DEF R
      <4>1. UNION {R(i) : i \in hits \cap 1..k} = (UNION {R(i) : i \in hits \cap 1..k - 1}) \cup R(k)
        <5>1. \A x : (\E i \in hits \cap 1..k : x \in R(i)) <=>
                        (\E i \in hits \cap 1..k - 1 : x \in R(i)) \/ x \in R(k)
          BY <2>2, <2>3
        <5> DEFINE X == UNION {R(i) : i \in hits \cap 1..k}
                   Y == (UNION {R(i) : i \in hits \cap 1..k - 1}) \cup R(k)
        <5>2. \A x : x \in X <=> x \in Y
          BY <5>1
        <5> HIDE DEF X, Y
        <5>3. X = Y
          BY <5>2
        <5> QED  BY <5>3 DEF X, Y
      <4> QED  BY <4>1 DEF R
    <3>4. k \in 0..n /\ g[k] \in Seq(S)
              /\ Range(g[k]) = UNION {Range(routes[i].chats) : i \in hits \cap 1..k}
      <4>1. k \in 0..n  BY <1>1
      <4>2. Range(g[k]) = (UNION {Range(routes[i].chats) : i \in hits \cap 1..k - 1})
                              \cup Range(routes[k].chats)
        BY <2>1, <3>2
      <4> QED  BY <3>2, <3>3, <4>1, <4>2
    <3> QED  BY <3>4
  <2>4. CASE k \notin hits
    <3>1. g[k] = g[k - 1]
      BY <1>4, <2>4
    <3>2. hits \cap 1..k = hits \cap 1..k - 1
      BY <2>2, <2>4
    <3> QED  BY <2>1, <3>1, <3>2
  <2> QED  BY <2>3, <2>4
<1>8. n \in P
  <2> HIDE DEF P
  <2>1. \A k \in 0..n : k \in P
    BY <1>6, <1>7, UpTo
  <2> QED  BY <2>1
<1>9. EvaluateRoutes(routes, p) = Distinct(g[n])
  BY <1>1, Zenon DEF EvaluateRoutes, Gathered, g, hits
<1>10. hits \cap 1..n = hits
  BY <1>2
<1>11. g[n] \in Seq(S) /\ Range(g[n]) = UNION {Range(routes[i].chats) : i \in hits}
  <2> HIDE DEF S
  <2> QED  BY <1>8, <1>10
<1>12. IsList(g[n])
  <2> HIDE DEF S
  <2> QED  BY <1>11 DEF IsList, Range
<1> QED
  BY <1>9, <1>11, <1>12, DistinctIsRight DEF hits

-----------------------------------------------------------------------------
(* The targets of an event                                                 *)

(* What is delivered to the target is for the chat the reference names,    *)
(* from no other bot.                                                      *)
Serves(c, s, ref, t) ==
    \E e \in Scope(c, s) : \E r \in Resolved(c, ref) :
        e.target = t /\ e.id = r.id /\ ~BotConflict(e, ref, r.bot)

LEMMA OwnIsServed ==
    ASSUME NEW c, NEW s, Builds(c, s), NEW t \in TargetRefs(s)
    PROVE  Serves(c, s, t, t)
<1>1. ~Unknown(c, t)
  BY ResolvedIffKnown DEF Builds, TargetFits
<1> DEFINE e == [target |-> t, id |-> OfflineId(c, t), bot |-> OfflineBot(c, t)]
           r == [id |-> OfflineId(c, t), bot |-> OfflineBot(c, t)]
<1>2. e \in Scope(c, s) /\ r \in Resolved(c, t)
  BY <1>1, ScopeEntries, ResolvedIffKnown
<1>3. e.target = t /\ e.id = r.id /\ ~BotConflict(e, t, r.bot)
  BY DEF BotConflict
<1> QED  BY <1>2, <1>3 DEF Serves

(* A route delivers through the scope's target for the same chat.          *)
LEMMA RouteIsServed ==
    ASSUME NEW c, NEW s, Builds(c, s), NEW ref \in RouteRefs(s)
    PROVE  Serves(c, s, ref, RouteTarget(c, s, ref))
<1>1. RouteFits(c, s, ref)
  <2>1. CASE s.chats # <<>>
    BY <2>1 DEF Builds
  <2>2. CASE s.chats = <<>>
    <3>1. Serves(c, s, ref, ref)
      BY <2>2, OwnIsServed, RefsOfRoutes
    <3> QED  BY <3>1 DEF Serves, RouteFits
  <2> QED  BY <2>1, <2>2
<1>2. PICK r \in Resolved(c, ref) :
          \E e \in Scope(c, s) : e.id = r.id /\ ~BotConflict(e, ref, r.bot)
  BY <1>1 DEF RouteFits
<1>3. PICK e \in Scope(c, s) : e.id = r.id /\ ~BotConflict(e, ref, r.bot)
  BY <1>2
<1>4. (CHOOSE x \in Resolved(c, ref) : TRUE) = r
  <2>1. \A x \in Resolved(c, ref) : x = r
    BY ResolvedIffKnown
  <2> QED  BY <2>1
<1>5. (CHOOSE x \in Scope(c, s) : x.id = r.id) = e
  <2>1. \A x \in Scope(c, s) : x.id = r.id => x = e
    BY <1>3 DEF Builds
  <2> QED  BY <1>3, <2>1
<1>6. RouteTarget(c, s, ref) = e.target
  BY <1>4, <1>5 DEF RouteTarget
<1> QED
  BY <1>3, <1>6 DEF Serves

(* A query names a chat of the scope, by an alias or by its id.            *)
LEMMA QueryIsServed ==
    ASSUME conf \in Confs, NEW s, NEW ref, InScope(conf, s, ref) # {}
    PROVE  Serves(conf, s, ref, (CHOOSE e \in InScope(conf, s, ref) : TRUE).target)
<1> DEFINE e == CHOOSE x \in InScope(conf, s, ref) : TRUE
<1>1. e \in InScope(conf, s, ref)
  OBVIOUS
<1> HIDE DEF e
<1>2. e \in Scope(conf, s)
  BY <1>1 DEF InScope
<1>3. CASE \E d \in Scope(conf, s) : d.id = ref
  <2>1. e.id = ref
    BY <1>1, <1>3 DEF InScope
  <2>2. /\ ~Unknown(conf, e.target)
        /\ e = [target |-> e.target, id |-> OfflineId(conf, e.target), bot |-> OfflineBot(conf, e.target)]
    BY <1>2, ScopeEntries
  <2>3. ref = OfflineId(conf, e.target)
    BY <2>1, <2>2
  <2>4. ref \in ChatIds
    BY <2>2, <2>3, GitlabAssumption DEF OfflineId, Unknown, IsConf
  <2>5. [id |-> ref, bot |-> Missing] \in Resolved(conf, ref)
    BY <2>4 DEF Resolved
  <2>6. ~BotConflict(e, ref, Missing)
    BY DEF BotConflict
  <2> QED  BY <1>2, <2>1, <2>5, <2>6 DEF Serves, e
<1>4. CASE ~(\E d \in Scope(conf, s) : d.id = ref)
  <2>1. \E r \in Resolved(conf, ref) : e.id = r.id /\ ~BotConflict(e, ref, r.bot)
    BY <1>1, <1>4 DEF InScope
  <2> QED  BY <1>2, <2>1 DEF Serves, e
<1> QED
  BY <1>3, <1>4

(* Targets that stand for what is asked: each once, none missing, none     *)
(* that is not asked for.                                                  *)
StandsFor(c, s, ts, asked) ==
    /\ IsList(ts) /\ IsInjective(ts)
    /\ \A a \in asked : \E t \in Range(ts) : Serves(c, s, a, t)
    /\ \A t \in Range(ts) : \E a \in asked : Serves(c, s, a, t)

LEMMA DistinctStandsFor ==
    ASSUME NEW c, NEW s, NEW q, IsList(q), NEW T,
           \A a \in Range(q) : Serves(c, s, a, T[a])
    PROVE  StandsFor(c, s, Distinct([k \in DOMAIN q |-> T[q[k]]]), Range(q))
<1> DEFINE ts == [k \in DOMAIN q |-> T[q[k]]]
<1>1. IsList(ts)
  <2>1. PICK n \in Nat : n = Len(q) /\ DOMAIN q = 1..n
    BY DEF IsList
  <2>2. \A k \in 1..n : ts[k] \in Range(ts)
    BY <2>1 DEF Range
  <2>3. ts = [k \in 1..n |-> ts[k]]
    BY <2>1
  <2> HIDE DEF ts
  <2> QED  BY <2>2, <2>3 DEF IsList
<1>2. Range(ts) = {T[a] : a \in Range(q)}
  BY DEF Range
<1> HIDE DEF ts
<1>3. /\ IsList(Distinct(ts)) /\ IsInjective(Distinct(ts))
      /\ Range(Distinct(ts)) = Range(ts)
  BY <1>1, DistinctIsRight
<1> QED
  BY <1>2, <1>3 DEF StandsFor, ts

(* The routes an event matches, as they were written.                      *)
HitBy(s, p) ==
    {n \in DOMAIN s.routes :
        /\ Matched(p, s.routes[n])
        /\ \A m \in 1..n - 1 : s.routes[m].stop => ~Matched(p, s.routes[m])}

AskedBy(s, p, q) ==
    IF q # Missing THEN Range(q)
    ELSE IF s.routes = <<>> THEN Range(s.chats)
    ELSE UNION {Range(s.routes[k].chats) : k \in HitBy(s, p)}

(* The patterns of the routes mean what they say.                          *)
LEMMA MatchesIffMatched ==
    ASSUME NEW c \in Confs, NEW k \in DOMAIN c.senders, NEW p \in Payloads,
           NEW n \in DOMAIN c.senders[k].routes
    PROVE  RouteMatches(p, c.senders[k].routes[n]) <=> Matched(p, c.senders[k].routes[n])
<1> DEFINE r == c.senders[k].routes[n]
<1>1. \A sel \in DOMAIN r.match \ {"event"} : \A pat \in r.match[sel] :
          \/ pat.regex
          \/ /\ IsList(pat.parts) /\ pat.parts # <<>>
             /\ \A i \in DOMAIN pat.parts : IsList(pat.parts[i])
             /\ \A v \in SelectorValues(p, sel) : IsList(v)
  BY GitlabAssumption DEF IsConf
<1> HIDE DEF r
<1>2. ASSUME NEW sel \in DOMAIN r.match, sel # "event",
             NEW pat \in r.match[sel], NEW v \in SelectorValues(p, sel)
      PROVE  PatternMatches(pat, v) <=> (IF pat.regex THEN v \in pat.values
                                         ELSE Globbed(pat.parts, v))
  <2>1. CASE pat.regex
    BY <2>1 DEF PatternMatches
  <2>2. CASE ~pat.regex
    <3>1. /\ IsList(pat.parts) /\ pat.parts # <<>>
          /\ \A i \in DOMAIN pat.parts : IsList(pat.parts[i])
          /\ IsList(v)
      BY <1>1, <1>2, <2>2
    <3> QED  BY <2>2, <3>1, GlobIsRight DEF PatternMatches
  <2> QED  BY <2>1, <2>2
<1>3. ASSUME NEW sel \in DOMAIN r.match
      PROVE  ConditionMatches(p, sel, r.match[sel]) <=>
                 IF sel = "event" THEN EventMatches(p, r.match[sel])
                 ELSE \E v \in SelectorValues(p, sel), pat \in r.match[sel] :
                          IF pat.regex THEN v \in pat.values ELSE Globbed(pat.parts, v)
  BY <1>2 DEF ConditionMatches
<1>4. RouteMatches(p, r) <=> Matched(p, r)
  BY <1>3 DEF RouteMatches, Matched
<1> QED
  BY <1>4 DEF r

LEMMA RoutesStandFor ==
    ASSUME NEW c \in Confs, NEW k \in DOMAIN c.senders, Builds(c, c.senders[k]),
           NEW p \in Payloads
    PROVE  StandsFor(c, c.senders[k], EvaluateRoutes(CompiledRoutes(c, c.senders[k]), p),
                     UNION {Range(c.senders[k].routes[n].chats) : n \in HitBy(c.senders[k], p)})
<1> DEFINE s == c.senders[k]
           rs == CompiledRoutes(c, s)
           Target == [a \in RouteRefs(s) |-> RouteTarget(c, s, a)]
<1>1. IsList(s.routes) /\ \A n \in DOMAIN s.routes : IsList(s.routes[n].chats)
  BY GitlabAssumption DEF IsConf
<1>2. PICK N \in Nat : DOMAIN s.routes = 1..N /\ N = Len(s.routes)
  BY <1>1 DEF IsList
<1>3. \A n \in 1..N : RouteMatches(p, s.routes[n]) <=> Matched(p, s.routes[n])
  BY <1>2, MatchesIffMatched
<1> HIDE DEF s
<1>4. /\ rs = [n \in 1..N |-> rs[n]]
      /\ \A n \in 1..N :
             /\ rs[n].match = s.routes[n].match /\ rs[n].stop = s.routes[n].stop
             /\ rs[n].chats = [i \in DOMAIN s.routes[n].chats |->
                                  RouteTarget(c, s, s.routes[n].chats[i])]
  BY <1>2 DEF CompiledRoutes
<1> HIDE DEF rs
<1>5. IsList(rs) /\ DOMAIN rs = 1..N
  <2>1. DOMAIN rs = 1..N
    BY <1>4
  <2>2. \A n \in 1..N : rs[n] \in Range(rs)
    BY <2>1 DEF Range
  <2> QED  BY <1>4, <2>1, <2>2 DEF IsList
<1>6. \A n \in 1..N : RouteMatches(p, rs[n]) <=> Matched(p, s.routes[n])
  BY <1>3, <1>4 DEF RouteMatches
<1>7. MatchingRoutes(rs, p) = HitBy(s, p)
  <2>1. \A n \in 1..N : n \in MatchingRoutes(rs, p) <=>
            /\ Matched(p, s.routes[n])
            /\ \A m \in 1..N : Matched(p, s.routes[m]) /\ s.routes[m].stop => n <= m
    BY <1>4, <1>5, <1>6 DEF MatchingRoutes
  <2>2. \A n \in 1..N : n \in HitBy(s, p) <=>
            /\ Matched(p, s.routes[n])
            /\ \A m \in 1..n - 1 : s.routes[m].stop => ~Matched(p, s.routes[m])
    BY <1>2 DEF HitBy
  <2>3. \A n \in 1..N : \A m \in 1..N : n <= m <=> m \notin 1..n - 1
    OBVIOUS
  <2>4. \A n \in 1..N : \A m \in 1..n - 1 : m \in 1..N
    OBVIOUS
  <2>5. \A n \in 1..N : n \in MatchingRoutes(rs, p) <=> n \in HitBy(s, p)
    BY <2>1, <2>2, <2>3, <2>4, Zenon
  <2>6. MatchingRoutes(rs, p) \subseteq 1..N /\ HitBy(s, p) \subseteq 1..N
    BY <1>2, <1>5 DEF MatchingRoutes, HitBy
  <2> QED  BY <2>5, <2>6
<1>8. ASSUME NEW n \in 1..N
      PROVE  /\ IsList(rs[n].chats)
             /\ Range(rs[n].chats) = {RouteTarget(c, s, a) : a \in Range(s.routes[n].chats)}
  <2> DEFINE q == s.routes[n].chats
             ts == [i \in DOMAIN q |-> RouteTarget(c, s, q[i])]
  <2>1. PICK m \in Nat : m = Len(q) /\ DOMAIN q = 1..m
    BY <1>1, <1>2 DEF IsList, s
  <2>2. \A i \in 1..m : ts[i] \in Range(ts)
    BY <2>1 DEF Range
  <2>3. ts = [i \in 1..m |-> ts[i]]
    BY <2>1
  <2>4. Range(ts) = {RouteTarget(c, s, a) : a \in Range(q)}
    BY DEF Range
  <2>5. rs[n].chats = ts
    BY <1>4
  <2> HIDE DEF ts
  <2>6. IsList(ts)
    BY <2>2, <2>3 DEF IsList
  <2> QED  BY <2>4, <2>5, <2>6
<1> DEFINE ts == EvaluateRoutes(rs, p)
           asked == UNION {Range(s.routes[n].chats) : n \in HitBy(s, p)}
<1>9. /\ IsList(ts) /\ IsInjective(ts)
      /\ Range(ts) = UNION {Range(rs[n].chats) : n \in HitBy(s, p)}
  BY <1>5, <1>7, <1>8, RoutesAreEvaluated
<1>10. \A n \in HitBy(s, p) : n \in 1..N
  BY <1>2 DEF HitBy
<1>11. \A n \in 1..N : \A a \in Range(s.routes[n].chats) :
           Serves(c, s, a, RouteTarget(c, s, a))
  <2>1. \A n \in 1..N : \A a \in Range(s.routes[n].chats) : a \in RouteRefs(s)
    BY <1>2 DEF RouteRefs
  <2> QED  BY <2>1, RouteIsServed DEF s
<1>12. ASSUME NEW a \in asked PROVE \E t \in Range(ts) : Serves(c, s, a, t)
  <2>1. PICK n \in HitBy(s, p) : a \in Range(s.routes[n].chats)
    OBVIOUS
  <2>2. RouteTarget(c, s, a) \in Range(rs[n].chats)
    BY <1>8, <1>10, <2>1
  <2>3. RouteTarget(c, s, a) \in Range(ts)
    BY <1>9, <2>1, <2>2
  <2> QED  BY <1>10, <1>11, <2>1, <2>3
<1>13. ASSUME NEW t \in Range(ts) PROVE \E a \in asked : Serves(c, s, a, t)
  <2>1. PICK n \in HitBy(s, p) : t \in Range(rs[n].chats)
    BY <1>9
  <2>2. PICK a \in Range(s.routes[n].chats) : t = RouteTarget(c, s, a)
    BY <1>8, <1>10, <2>1
  <2>3. a \in asked
    BY <2>1, <2>2
  <2> QED  BY <1>10, <1>11, <2>1, <2>2, <2>3
<1> HIDE DEF ts, asked
<1>14. StandsFor(c, s, ts, asked)
  BY <1>9, <1>12, <1>13 DEF StandsFor
<1> QED
  BY <1>14 DEF ts, asked, rs, s

LEMMA DecisionStandsFor ==
    ASSUME conf \in Confs, NEW k \in DOMAIN conf.senders, Builds(conf, conf.senders[k]),
           NEW p \in Payloads, NEW q \in Queries,
           Decision(conf, conf.senders[k], p, q).to # <<>>
    PROVE  StandsFor(conf, conf.senders[k], Decision(conf, conf.senders[k], p, q).to,
                     AskedBy(conf.senders[k], p, q))
<1> DEFINE s == conf.senders[k]
           ts == Decision(conf, s, p, q).to
<1>1. IsList(s.chats) /\ (q # Missing => IsList(q))
  BY GitlabAssumption DEF IsConf
<1>2. CASE q # Missing
  <2>1. ts = QueryTargets(conf, s, q) /\ \A n \in DOMAIN q : InScope(conf, s, q[n]) # {}
    BY <1>2 DEF Decision, BadRequest
  <2> DEFINE T == [a \in Range(q) |-> (CHOOSE e \in InScope(conf, s, a) : TRUE).target]
  <2>2. ts = Distinct([n \in DOMAIN q |-> T[q[n]]])
    <3>1. \A n \in DOMAIN q : q[n] \in Range(q)
      BY DEF Range
    <3>2. [n \in DOMAIN q |-> T[q[n]]]
              = [n \in DOMAIN q |-> (CHOOSE e \in InScope(conf, s, q[n]) : TRUE).target]
      BY <3>1
    <3> HIDE DEF T
    <3> QED  BY <2>1, <3>2 DEF QueryTargets
  <2>3. \A a \in Range(q) : InScope(conf, s, a) # {}
    BY <2>1 DEF Range
  <2>4. \A a \in Range(q) : Serves(conf, s, a, T[a])
    BY <2>3, QueryIsServed
  <2> HIDE DEF T, s, ts
  <2>5. StandsFor(conf, s, ts, Range(q))
    BY <1>1, <1>2, <2>2, <2>4, DistinctStandsFor
  <2> QED  BY <1>2, <2>5 DEF AskedBy, s, ts
<1>3. CASE q = Missing /\ s.routes = <<>>
  <2>1. ts = Distinct(s.chats) /\ q # <<>>
    BY <1>3 DEF Decision, BadRequest
  <2>2. s.chats # <<>>
    <3>1. Distinct(<<>>) = <<>>
      <4>1. IsList(<<>>) /\ Range(<<>>) = {}  BY DEF IsList, Range
      <4>2. IsList(Distinct(<<>>)) /\ Range(Distinct(<<>>)) = {}
        BY <4>1, DistinctIsRight
      <4> QED  BY <4>2 DEF IsList, Range
    <3> QED  BY <2>1, <3>1
  <2>3. \A a \in Range(s.chats) : Serves(conf, s, a, a)
    BY <2>2, OwnIsServed DEF TargetRefs
  <2> DEFINE T == [a \in Range(s.chats) |-> a]
  <2>4. [n \in DOMAIN s.chats |-> T[s.chats[n]]] = s.chats
    <3>1. s.chats = [n \in DOMAIN s.chats |-> s.chats[n]]
      BY <1>1 DEF IsList
    <3>2. \A n \in DOMAIN s.chats : T[s.chats[n]] = s.chats[n]
      BY DEF Range
    <3> HIDE DEF T
    <3> QED  BY <3>1, <3>2, Zenon
  <2>5. \A a \in Range(s.chats) : Serves(conf, s, a, T[a])
    BY <2>3
  <2> HIDE DEF T, s, ts
  <2>6. StandsFor(conf, s, ts, Range(s.chats))
    BY <1>1, <2>1, <2>4, <2>5, DistinctStandsFor
  <2> QED  BY <1>3, <2>6 DEF AskedBy, s, ts
<1>4. CASE q = Missing /\ s.routes # <<>>
  <2>1. ts = EvaluateRoutes(CompiledRoutes(conf, s), p)
    BY <1>4 DEF Decision, BadRequest
  <2>2. AskedBy(s, p, q) = UNION {Range(s.routes[n].chats) : n \in HitBy(s, p)}
    BY <1>4 DEF AskedBy
  <2>3. StandsFor(conf, s, EvaluateRoutes(CompiledRoutes(conf, s), p),
                  UNION {Range(s.routes[n].chats) : n \in HitBy(s, p)})
    BY RoutesStandFor
  <2> HIDE DEF s, ts
  <2> QED  BY <2>1, <2>2, <2>3 DEF s, ts
<1> QED
  BY <1>2, <1>3, <1>4

(* Targets that stand for what is asked are as many as the chats asked     *)
(* for, and what is delivered to them is in the scope.                     *)
LEMMA StandingForIsOnce ==
    ASSUME NEW c, NEW s, Builds(c, s), NEW ts, NEW asked, StandsFor(c, s, ts, asked)
    PROVE  Len(ts) = Cardinality({r.id : r \in UNION {Resolved(c, a) : a \in asked}})
<1> DEFINE ids == {r.id : r \in UNION {Resolved(c, a) : a \in asked}}
<1>1. PICK n \in Nat : n = Len(ts) /\ DOMAIN ts = 1..n
  BY DEF StandsFor, IsList
<1> DEFINE f == [k \in 1..n |-> OfflineId(c, ts[k])]
<1>2. \A k \in 1..n : ts[k] \in Range(ts)
  BY <1>1 DEF Range
<1>3. ASSUME NEW k \in 1..n
      PROVE  /\ [target |-> ts[k], id |-> f[k], bot |-> OfflineBot(c, ts[k])] \in Scope(c, s)
             /\ f[k] \in ids
  <2>1. PICK a \in asked : Serves(c, s, a, ts[k])
    BY <1>2 DEF StandsFor
  <2>2. PICK e \in Scope(c, s), r \in Resolved(c, a) : e.target = ts[k] /\ e.id = r.id
    BY <2>1 DEF Serves
  <2>3. e = [target |-> ts[k], id |-> OfflineId(c, ts[k]), bot |-> OfflineBot(c, ts[k])]
    BY <2>2, ScopeEntries
  <2>4. r.id \in ids
    OBVIOUS
  <2> HIDE DEF ids
  <2> QED  BY <2>2, <2>3, <2>4
<1>4. ASSUME NEW k \in 1..n, NEW m \in 1..n, f[k] = f[m] PROVE k = m
  <2> DEFINE d == [target |-> ts[k], id |-> f[k], bot |-> OfflineBot(c, ts[k])]
             e == [target |-> ts[m], id |-> f[m], bot |-> OfflineBot(c, ts[m])]
  <2>1. d \in Scope(c, s) /\ e \in Scope(c, s) /\ d.id = e.id
    BY <1>3, <1>4
  <2>2. d = e
    BY <2>1 DEF Builds
  <2>3. ts[k] = ts[m]
    BY <2>2
  <2> QED  BY <1>1, <2>3 DEF StandsFor, IsInjective
<1>5. ASSUME NEW i \in ids PROVE \E k \in 1..n : f[k] = i
  <2>1. PICK a \in asked : \E r \in Resolved(c, a) : r.id = i
    BY <1>5
  <2>2. PICK k \in 1..n : Serves(c, s, a, ts[k])
    BY <1>1 DEF StandsFor, Range
  <2>3. PICK e \in Scope(c, s), r \in Resolved(c, a) : e.target = ts[k] /\ e.id = r.id
    BY <2>2 DEF Serves
  <2> HIDE DEF f, ids
  <2>4. e = [target |-> ts[k], id |-> OfflineId(c, ts[k]), bot |-> OfflineBot(c, ts[k])]
    BY <2>3, ScopeEntries
  <2>5. r.id = i
    BY <2>1, ResolvedIffKnown
  <2>6. f[k] = i
    BY <2>3, <2>4, <2>5 DEF f
  <2> QED  BY <2>6
<1> HIDE DEF ids
<1>6. f \in Bijection(1..n, ids)
  <2>1. f \in [1..n -> ids]
    BY <1>3
  <2> HIDE DEF f
  <2>2. f \in Injection(1..n, ids)
    BY <1>4, <2>1, Zenon DEF Injection, IsInjective
  <2>3. f \in Surjection(1..n, ids)
    BY <1>5, <2>1, Zenon DEF Surjection
  <2> QED  BY <2>2, <2>3 DEF Bijection
<1>7. Cardinality(ids) = n
  <2>1. ExistsBijection(1..n, ids)
    BY <1>6 DEF ExistsBijection
  <2> QED  BY <2>1, FS_CountingElements
<1> QED
  BY <1>1, <1>7 DEF ids

(* One message that is delivered, or that another is of another chat.      *)
Delivers(c, ts, n, res) ==
    \E k \in 1..n : \E r \in Resolved(c, ts[k]) :
        res = [target |-> ts[k], id |-> r.id, bot |-> r.bot]

LEMMA DeliveredIsAsked ==
    ASSUME NEW c, NEW s, Builds(c, s), NEW ts, NEW asked, StandsFor(c, s, ts, asked),
           NEW n, n = Len(ts), NEW res, Delivers(c, ts, n, res)
    PROVE  /\ res = [target |-> res.target, id |-> res.id, bot |-> res.bot]
           /\ res \in Scope(c, s)
           /\ res.id \in {r.id : r \in UNION {Resolved(c, a) : a \in asked}}
           /\ [id |-> res.id, bot |-> res.bot] \in UNION {Resolved(c, t) : t \in TargetRefs(s)}
           /\ \A a \in asked : \A r \in Resolved(c, a) :
                  r.id = res.id /\ r.bot # Missing /\ res.bot # Missing => res.bot = r.bot
<1>1. PICK k \in 1..n : \E r \in Resolved(c, ts[k]) :
          res = [target |-> ts[k], id |-> r.id, bot |-> r.bot]
  BY DEF Delivers
<1>2. ts[k] \in Range(ts)
  BY DEF StandsFor, IsList, Range
<1>3. PICK a \in asked : Serves(c, s, a, ts[k])
  BY <1>2 DEF StandsFor
<1>4. PICK e \in Scope(c, s), x \in Resolved(c, a) : e.target = ts[k] /\ e.id = x.id
  BY <1>3 DEF Serves
<1>5. PICK r \in Resolved(c, ts[k]) : res = [target |-> ts[k], id |-> r.id, bot |-> r.bot]
  BY <1>1
<1>6. e = res
  <2>1. e = [target |-> ts[k], id |-> OfflineId(c, ts[k]), bot |-> OfflineBot(c, ts[k])]
    BY <1>4, ScopeEntries
  <2>2. r = [id |-> OfflineId(c, ts[k]), bot |-> OfflineBot(c, ts[k])]
    BY ResolvedIffKnown
  <2>3. r.id = OfflineId(c, ts[k]) /\ r.bot = OfflineBot(c, ts[k])
    BY <2>2
  <2> QED  BY <1>5, <2>1, <2>3
<1>7. ts[k] \in TargetRefs(s)
  BY <1>4, ScopeEntries
<1>8. r = [id |-> res.id, bot |-> res.bot]
  <2>1. r = [id |-> r.id, bot |-> r.bot]
    BY ResolvedIffKnown
  <2> QED  BY <1>5, <2>1
<1>9. ASSUME NEW b \in asked, NEW y \in Resolved(c, b),
             y.id = res.id, y.bot # Missing, res.bot # Missing
      PROVE  res.bot = y.bot
  <2>1. PICK t \in Range(ts) : Serves(c, s, b, t)
    BY DEF StandsFor
  <2>2. PICK d \in Scope(c, s), z \in Resolved(c, b) :
            d.target = t /\ d.id = z.id /\ ~BotConflict(d, b, z.bot)
    BY <2>1 DEF Serves
  <2>3. z = y
    BY ResolvedIffKnown
  <2>4. d = res
    BY <1>6, <1>9, <2>2, <2>3 DEF Builds
  <2>5. CASE b # d.target
    BY <1>9, <2>2, <2>3, <2>4, <2>5 DEF BotConflict
  <2>6. CASE b = d.target
    <3>1. d = [target |-> b, id |-> OfflineId(c, b), bot |-> OfflineBot(c, b)]
      BY <2>6, ScopeEntries
    <3>2. y = [id |-> OfflineId(c, b), bot |-> OfflineBot(c, b)]
      BY ResolvedIffKnown
    <3> QED  BY <2>4, <3>1, <3>2
  <2> QED  BY <2>5, <2>6
<1> QED
  BY <1>4, <1>5, <1>6, <1>7, <1>8, <1>9

(* The request was decided by the sender it authenticated; every message   *)
(* delivered is to a target already dealt with, none to a target twice.    *)
EventInv ==
    /\ req = NoRequest => targets = <<>>
    /\ targets = <<>> => results = <<>> /\ errors = <<>>
    /\ targets # <<>> =>
           /\ up = "up"
           /\ \E k \in DOMAIN conf.senders, p \in Payloads, q \in Queries :
                  /\ req = [sender |-> k, payload |-> p, query |-> q]
                  /\ targets = Decision(conf, conf.senders[k], p, q).to
    /\ IsList(results) /\ IsList(errors)
    /\ Len(results) + Len(errors) <= Len(targets)
    /\ \A k \in DOMAIN results : Delivers(conf, targets, Len(results) + Len(errors), results[k])
    /\ \A k, m \in DOMAIN results : results[k].target = results[m].target => k = m

(* What is asked of it.                                                    *)
LEMMA TargetsStandFor ==
    ASSUME BootInv, EventInv, targets # <<>>
    PROVE  /\ Builds(conf, Sender)
           /\ StandsFor(conf, Sender, targets, Asked)
<1>1. PICK k \in DOMAIN conf.senders, p \in Payloads, q \in Queries :
          /\ req = [sender |-> k, payload |-> p, query |-> q]
          /\ targets = Decision(conf, conf.senders[k], p, q).to
  BY DEF EventInv
<1>2. Sender = conf.senders[k] /\ req.payload = p /\ req.query = q
  BY <1>1 DEF Sender
<1>3. Builds(conf, conf.senders[k])
  BY DEF BootInv, EventInv, Starts
<1>4. StandsFor(conf, conf.senders[k], targets, AskedBy(conf.senders[k], p, q))
  BY <1>1, <1>3, DecisionStandsFor DEF BootInv
<1>5. Asked = AskedBy(conf.senders[k], p, q)
  BY <1>2 DEF Asked, AskedBy, HitBy
<1> QED
  BY <1>2, <1>3, <1>4, <1>5

LEMMA ListGrows ==
    ASSUME NEW l, IsList(l), NEW x
    PROVE  /\ IsList(Append(l, x)) /\ Len(l) \in Nat
           /\ Len(Append(l, x)) = Len(l) + 1 /\ DOMAIN l = 1..Len(l)
           /\ DOMAIN Append(l, x) = 1..Len(l) + 1
           /\ \A k \in 1..Len(l) : Append(l, x)[k] = l[k]
           /\ Append(l, x)[Len(l) + 1] = x
<1> DEFINE S == Range(l) \cup {x}
           c == Append(l, x)
<1>1. l \in Seq(S) /\ x \in S
  <2>1. l \in Seq(Range(l)) /\ Range(l) \subseteq S
    BY DEF IsList
  <2> HIDE DEF S
  <2>2. l \in Seq(S)
    BY <2>1, SeqOfMore
  <2> QED  BY <2>2 DEF S
<1>2. /\ c \in Seq(S) /\ Len(l) \in Nat
      /\ Len(c) = Len(l) + 1 /\ DOMAIN l = 1..Len(l)
      /\ DOMAIN c = 1..Len(l) + 1
      /\ \A k \in 1..Len(l) : c[k] = l[k]
      /\ c[Len(l) + 1] = x
  <2> HIDE DEF S
  <2> QED  BY <1>1
<1> HIDE DEF c, S
<1>3. c \in Seq(Range(c))
  <2>1. PICK n \in Nat : n = Len(c) /\ DOMAIN c = 1..n /\ c = [k \in 1..n |-> c[k]]
    BY <1>2
  <2>2. \A k \in 1..n : c[k] \in Range(c)
    BY <2>1 DEF Range
  <2> QED  BY <2>1, <2>2
<1> QED
  BY <1>2, <1>3 DEF IsList, c

LEMMA EventInit == GitlabInit => EventInv
<1> SUFFICES ASSUME GitlabInit PROVE EventInv  OBVIOUS
<1>1. targets = <<>> /\ results = <<>> /\ errors = <<>>
  BY DEF GitlabInit
<1>2. IsList(<<>>) /\ DOMAIN <<>> = {} /\ Len(<<>>) = 0
  BY DEF IsList
<1>3. Len(results) + Len(errors) <= Len(targets)
  BY <1>1, <1>2
<1>4. DOMAIN results = {}
  BY <1>1, <1>2
<1> QED
  BY <1>1, <1>2, <1>3, <1>4 DEF EventInv

LEMMA EventKept ==
    ASSUME EventInv, UNCHANGED <<conf, req, targets, results, errors>>, up = "up" => up' = "up"
    PROVE  EventInv'
BY DEF EventInv

LEMMA ReceiveInv ==
    ASSUME BootInv, EventInv, NEW token, NEW p \in Payloads, NEW q \in Queries, Receive(token, p, q)
    PROVE  EventInv'
<1>1. /\ targets = <<>> /\ results = <<>> /\ errors = <<>>
      /\ up = "up" /\ UNCHANGED <<conf, up, results, errors>>
  BY DEF Receive, EventInv
<1>2. IsList(<<>>) /\ DOMAIN <<>> = {} /\ Len(<<>>) = 0
  BY DEF IsList
<1>3. CASE targets' = <<>>
  <2>1. DOMAIN results' = {} /\ Len(results') + Len(errors') <= Len(targets')
    BY <1>1, <1>2, <1>3
  <2> QED  BY <1>1, <1>2, <1>3, <2>1 DEF EventInv
<1>4. CASE targets' # <<>>
  <2>1. PICK k \in SendersOf(token) :
            /\ req' = [sender |-> k, payload |-> p, query |-> q]
            /\ targets' = Decision(conf, conf.senders[k], p, q).to
    <3>1. BadRequest.to = <<>>
      BY DEF BadRequest
    <3> QED  BY <1>1, <1>4, <3>1 DEF Receive
  <2>2. k \in DOMAIN conf.senders
    BY DEF SendersOf
  <2>3. req' # NoRequest
    <3>1. "sender" \in DOMAIN req' /\ "sender" \notin DOMAIN NoRequest
      BY <2>1 DEF NoRequest
    <3> QED  BY <3>1
  <2>4. DOMAIN results' = {} /\ Len(results') + Len(errors') = 0
    BY <1>1, <1>2
  <2>5. Len(targets') >= 0
    <3>1. Builds(conf, conf.senders[k])
      BY <1>1, <2>2 DEF BootInv, Starts
    <3>2. StandsFor(conf, conf.senders[k], targets', AskedBy(conf.senders[k], p, q))
      <4>1. Decision(conf, conf.senders[k], p, q).to # <<>>
        BY <1>4, <2>1
      <4> QED  BY <2>1, <2>2, <3>1, <4>1, DecisionStandsFor DEF BootInv
    <3>3. IsList(targets')
      BY <3>2 DEF StandsFor
    <3> QED  BY <3>3 DEF IsList
  <2> QED  BY <1>1, <1>2, <2>1, <2>2, <2>3, <2>4, <2>5 DEF EventInv
<1> QED
  BY <1>3, <1>4

LEMMA DeliverInv ==
    ASSUME BootInv, EventInv, Deliver
    PROVE  EventInv'
<1> DEFINE N == Len(results) + Len(errors)
           t == targets[N + 1]
<1>1. /\ IsList(results) /\ IsList(errors)
      /\ UNCHANGED <<conf, up, req, targets, response>>
      /\ N < Len(targets)
  BY DEF EventInv, Deliver
<1>2. Len(results) \in Nat /\ Len(errors) \in Nat /\ N \in Nat
  BY <1>1, ListGrows
<1>3. targets # <<>>
  <2>1. Len(<<>>) = 0  OBVIOUS
  <2> QED  BY <1>1, <1>2, <2>1
<1>4. IsList(targets) /\ IsInjective(targets)
  BY <1>3, TargetsStandFor DEF StandsFor
<1>5. Len(targets) \in Nat /\ DOMAIN targets = 1..Len(targets)
  BY <1>4, ListGrows
<1> HIDE DEF N, t
<1>6. N + 1 \in 1..Len(targets)
  BY <1>1, <1>2, <1>5
<1>7. \A k \in 1..N : targets[k] # t
  <2>1. \A k \in 1..N : k \in DOMAIN targets /\ k # N + 1
    BY <1>2, <1>5, <1>6
  <2> QED  BY <1>4, <1>5, <1>6, <2>1 DEF IsInjective, t
<1>8. \A k \in DOMAIN results : Delivers(conf, targets, N, results[k])
  BY DEF EventInv, N
<1>9. \A k \in DOMAIN results : results[k].target # t
  BY <1>7, <1>8 DEF Delivers
<1>10. \A res : Delivers(conf, targets, N, res) => Delivers(conf, targets, N + 1, res)
  <2>1. \A k \in 1..N : k \in 1..N + 1
    BY <1>2
  <2> QED  BY <2>1 DEF Delivers
<1>11. CASE errors' = Append(errors, t) /\ UNCHANGED results
  <2>1. IsList(errors') /\ Len(errors') = Len(errors) + 1
    BY <1>1, <1>11, ListGrows
  <2>2. Len(results') + Len(errors') = N + 1
    BY <1>2, <1>11, <2>1 DEF N
  <2>3. N + 1 <= Len(targets)
    BY <1>5, <1>6
  <2> QED
    BY <1>1, <1>3, <1>8, <1>10, <1>11, <2>1, <2>2, <2>3 DEF EventInv
<1>12. CASE \E c \in Resolved(conf, t) :
               /\ results' = Append(results, [target |-> t, id |-> c.id, bot |-> c.bot])
               /\ UNCHANGED errors
  <2>1. PICK c \in Resolved(conf, t) :
            /\ results' = Append(results, [target |-> t, id |-> c.id, bot |-> c.bot])
            /\ errors' = errors
    BY <1>12
  <2> DEFINE res == [target |-> t, id |-> c.id, bot |-> c.bot]
             L == Len(results)
  <2>2. /\ IsList(results') /\ L \in Nat /\ Len(results') = L + 1
        /\ DOMAIN results = 1..L /\ DOMAIN results' = 1..L + 1
        /\ \A k \in 1..L : results'[k] = results[k]
        /\ results'[L + 1] = res
    BY <1>1, <2>1, ListGrows
  <2>3. Delivers(conf, targets, N + 1, res)
    <3>1. N + 1 \in 1..N + 1  BY <1>2
    <3> QED  BY <3>1 DEF Delivers, t
  <2>4. res.target = t
    OBVIOUS
  <2> HIDE DEF res
  <2>5. L + 1 + Len(errors) = N + 1
    BY <1>2, <2>2 DEF N
  <2> HIDE DEF L
  <2>6. \A k \in 1..L + 1 : k \in 1..L \/ k = L + 1
    BY <2>2
  <2>7. \A k \in DOMAIN results' : Delivers(conf, targets, N + 1, results'[k])
    BY <1>8, <1>10, <2>2, <2>3, <2>6
  <2>8. \A k, m \in DOMAIN results' : results'[k].target = results'[m].target => k = m
    <3>1. \A k, m \in 1..L : results[k].target = results[m].target => k = m
      BY <2>2 DEF EventInv
    <3> QED  BY <1>9, <2>2, <2>4, <2>6, <3>1
  <2>9. Len(results') + Len(errors') = N + 1 /\ N + 1 <= Len(targets)
    BY <1>5, <1>6, <2>1, <2>2, <2>5
  <2> QED
    BY <1>1, <1>3, <2>1, <2>2, <2>7, <2>8, <2>9 DEF EventInv
<1> QED
  BY <1>11, <1>12 DEF Deliver, t, N

LEMMA EventNext == BootInv /\ EventInv /\ [GitlabNext]_gitlabVars => EventInv'
<1> SUFFICES ASSUME BootInv, EventInv, [GitlabNext]_gitlabVars PROVE EventInv'
  OBVIOUS
<1>1. CASE Boot
  BY <1>1, EventKept DEF Boot
<1>2. CASE \E t \in Tokens, p \in Payloads, q \in Queries : Receive(t, p, q)
  BY <1>2, ReceiveInv
<1>3. CASE Deliver
  BY <1>3, DeliverInv
<1>4. CASE Respond
  BY <1>4, EventKept DEF Respond
<1>5. CASE UNCHANGED gitlabVars
  BY <1>5, EventKept DEF gitlabVars
<1> QED
  BY <1>1, <1>2, <1>3, <1>4, <1>5 DEF GitlabNext

(* An event reaches the chats it is for, each once, none outside the       *)
(* sender's scope, and from the bot of the alias it is asked for (the      *)
(* routing of handleGitlab, compiled by buildGitlabSender).                *)
THEOREM RoutedSafe == GitlabSpec => []RoutedOnce
<1>1. ASSUME BootInv, EventInv PROVE RoutedOnce
  <2> SUFFICES ASSUME targets # <<>>, Len(results) + Len(errors) = Len(targets)
               PROVE  LET ids == {c.id : c \in UNION {Resolved(conf, a) : a \in Asked}}
                          scope == UNION {Resolved(conf, t) : t \in TargetRefs(Sender)}
                      IN  /\ Len(targets) = Cardinality(ids)
                          /\ {results[k].id : k \in DOMAIN results} \subseteq ids
                          /\ \A k, m \in DOMAIN results : results[k].id = results[m].id => k = m
                          /\ \A k \in DOMAIN results :
                                 /\ [id |-> results[k].id, bot |-> results[k].bot] \in scope
                                 /\ \A a \in Asked \ ChatIds : \A c \in Resolved(conf, a) :
                                        c.id = results[k].id /\ c.bot # Missing
                                            /\ results[k].bot # Missing
                                            => results[k].bot = c.bot
    BY DEF RoutedOnce
  <2>1. Builds(conf, Sender) /\ StandsFor(conf, Sender, targets, Asked)
    BY <1>1, TargetsStandFor
  <2> DEFINE ids == {c.id : c \in UNION {Resolved(conf, a) : a \in Asked}}
             scope == UNION {Resolved(conf, t) : t \in TargetRefs(Sender)}
  <2>2. Len(targets) = Cardinality(ids)
    BY <2>1, StandingForIsOnce
  <2>3. ASSUME NEW k \in DOMAIN results
        PROVE  /\ results[k] \in Scope(conf, Sender)
               /\ results[k].id \in ids
               /\ [id |-> results[k].id, bot |-> results[k].bot] \in scope
               /\ \A a \in Asked : \A c \in Resolved(conf, a) :
                      c.id = results[k].id /\ c.bot # Missing /\ results[k].bot # Missing
                          => results[k].bot = c.bot
    <3>1. Delivers(conf, targets, Len(targets), results[k])
      BY <1>1 DEF EventInv
    <3> QED  BY <2>1, <3>1, DeliveredIsAsked
  <2>4. ASSUME NEW k \in DOMAIN results, NEW m \in DOMAIN results, results[k].id = results[m].id
        PROVE  k = m
    <3>1. results[k] = results[m]
      BY <2>1, <2>3, <2>4 DEF Builds
    <3> QED  BY <1>1, <3>1 DEF EventInv
  <2> HIDE DEF ids, scope
  <2>5. {results[k].id : k \in DOMAIN results} \subseteq ids
    BY <2>3
  <2> QED  BY <2>2, <2>3, <2>4, <2>5 DEF ids, scope
<1>2. GitlabInit => EventInv
  BY EventInit
<1>3. BootInv /\ EventInv /\ [GitlabNext]_gitlabVars => EventInv'
  BY EventNext
<1> QED
  BY <1>1, <1>2, <1>3, Boots, PTL DEF GitlabSpec
================================================================================
