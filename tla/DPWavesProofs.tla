--------------------------- MODULE DPWavesProofs ---------------------------
(***************************************************************************)
(* For every number of engines, of front ends, of requests and of steps    *)
(* between two all-reduces: the engines never meet in different            *)
(* collectives, the state stays well typed, and once nothing is on its way *)
(* the coordinator knows the wave and whether the engines run.             *)
(***************************************************************************)
EXTENDS DPWaves, TLAPS

\* The counters of all engines agree, although a paused engine joins a wave that
\* others have begun, and the all-reduce is entered and left by all at once.
Lockstep ==
  /\ step \in [Engine -> Int]
  /\ pc \in [Engine -> {"loop", "forward", "reduce"}]
  /\ \A e, f \in Engine : step[e] = step[f]
  /\ \A e, f \in Engine : pc[e] = "reduce" => pc[f] = "reduce"

\* Engines in lockstep are in the same collective.
LEMMA LockstepSameCollective == Lockstep => SameCollective
  BY DEF Lockstep, SameCollective

\* The engines start in lockstep.
LEMMA InitLockstep == Init => Lockstep
  BY DEF Init, Lockstep

\* Engines that agree on the step go on to the same one.
LEMMA NextStepAgrees ==
  ASSUME Lockstep, NEW e \in Engine, NEW f \in Engine
  PROVE  NextStep(e) = NextStep(f) /\ NextStep(e) \in Int
<1>1. step[e] = step[f] /\ step[e] \in Int
  BY DEF Lockstep
<1> QED
  BY <1>1, WaveAssumption DEF NextStep

\* Every step of a front end, of the coordinator or of an engine keeps them in it.
LEMMA NextLockstep == Lockstep /\ [Next]_vars => Lockstep'
<1> SUFFICES ASSUME Lockstep, [Next]_vars PROVE Lockstep'
  OBVIOUS
<1>1. ASSUME UNCHANGED <<step, pc>> PROVE Lockstep'
  BY <1>1 DEF Lockstep
<1>2. ASSUME NEW c \in Client, NEW r \in Request, NEW e \in Engine, SendRequest(c, r, e)
      PROVE  Lockstep'
  BY <1>1, <1>2 DEF SendRequest, engines
<1>3. ASSUME NEW c \in Client, FrontStep(c) \/ StartForFront(c) PROVE Lockstep'
  BY <1>1, <1>3 DEF FrontStep, ForwardFirst, ReceivePublished, StartForFront, engines
<1>4. ASSUME NEW e \in Engine, BeginStep(e) PROVE Lockstep'
  BY <1>4 DEF BeginStep, Lockstep
<1>5. ASSUME NEW e \in Engine, NEW r \in Request, AddRequest(e, r) \/ AbortRequest(e, r)
      PROVE  Lockstep'
  BY <1>1, <1>5 DEF AddRequest, AbortRequest, engines
<1>6. ASSUME NEW e \in Engine, StartWave(e) \/ HandleOutputs(e) PROVE Lockstep'
  BY <1>1, <1>6 DEF StartWave, HandleOutputs, engines
<1>7. CASE Forward
  <2>1. /\ step' = [e \in Engine |-> NextStep(e)]
        /\ pc' = [e \in Engine |-> IF NextStep(e) = 0 THEN "reduce" ELSE "loop"]
    BY <1>7 DEF Forward
  <2>2. \A e, f \in Engine : NextStep(e) = NextStep(f) /\ NextStep(e) \in Int
    BY NextStepAgrees
  <2> QED
    BY <2>1, <2>2 DEF Lockstep
<1>8. CASE GoOn
  BY <1>8 DEF GoOn, Lockstep
<1>9. CASE Pause
  BY <1>9 DEF Pause, Lockstep
<1>10. CASE PublishStats
  BY <1>1, <1>10 DEF PublishStats, engines
<1>11. CASE UNCHANGED vars
  BY <1>1, <1>11 DEF vars, engines
<1> QED
  BY <1>2, <1>3, <1>4, <1>5, <1>6, <1>7, <1>8, <1>9, <1>10, <1>11 DEF Next, EngineStep

\* Engines never meet in different collectives, however many there are and
\* however their messages cross.
THEOREM AlwaysSameCollective == Spec => []SameCollective
<1>1. Spec => []Lockstep
  BY InitLockstep, NextLockstep, PTL DEF Spec
<1> QED
  BY <1>1, LockstepSameCollective, PTL

----------------------------------------------------------------------------
(* The type invariant                                                      *)

\* A request that is not answered has a step left: the schedulers count down to
\* zero and no further.
TypeInv == TypeOK /\ \A r \in Request : place[r] # "done" => left[r] >= 1

FrontNotice == [engine : Engine, wave : Nat]
EngineNotice == [type : {"start", "complete"}, wave : Nat]
StartMessage == [wave : Nat, exclude : Int]

\* The types of what is read in a step, one by one.
LEMMA Typed ==
  ASSUME TypeInv
  PROVE  /\ wave \in [Engine -> Nat] /\ running \in [Engine -> BOOLEAN]
         /\ step \in [Engine -> 0 .. SyncPeriod - 1]
         /\ pc \in [Engine -> {"loop", "forward", "reduce"}]
         /\ place \in [Request -> {"new", "sent", "local", "done"}]
         /\ left \in [Request -> Nat] /\ sentWave \in [Request -> Nat]
         /\ target \in [Request -> Engine] /\ coord \in State /\ view \in [Client -> State]
         /\ first \in [Client -> Seq(Engine)] /\ front \in [Client -> Seq(FrontNotice)]
         /\ outputs \in [Engine -> Seq(EngineNotice)] /\ starts \in [Engine -> Seq(StartMessage)]
         /\ published \in [Client -> Seq(State)] /\ asked \subseteq Engine /\ withdrawn \in BOOLEAN
         /\ 0 \in Engine /\ Engine \subseteq Nat /\ NumEngines \in Nat
<1>1. 0 \in Engine /\ Engine \subseteq Nat /\ NumEngines \in Nat
  BY WaveAssumption DEF Engine
<1> QED
  BY <1>1 DEF TypeInv, TypeOK, FrontNotice, EngineNotice, StartMessage

\* Initially everything is typed.
LEMMA InitTyped == Init => TypeInv
<1> SUFFICES ASSUME Init PROVE TypeInv
  OBVIOUS
<1>1. 0 \in Engine /\ 0 \in 0 .. SyncPeriod - 1
  BY WaveAssumption DEF Engine
<1>2. \A S : <<>> \in Seq(S)
  OBVIOUS
<1>3. [wave |-> 0, running |-> FALSE] \in State
  BY DEF State
<1>4. Length \in [Request -> Nat] /\ \A r \in Request : Length[r] >= 1
  BY WaveAssumption
<1>5. TypeOK
  BY <1>1, <1>2, <1>3, <1>4 DEF Init, TypeOK
<1> QED
  BY <1>4, <1>5 DEF Init, TypeInv

\* A message appended to a channel, or its first one taken.
LEMMA ChannelTyped ==
  ASSUME NEW T, NEW q \in Seq(T)
  PROVE  /\ \A x \in T : Append(q, x) \in Seq(T)
         /\ q # <<>> => Head(q) \in T /\ Tail(q) \in Seq(T)
  OBVIOUS

\* What the coordinator sends to every engine and front end is typed.
LEMMA BroadcastTyped ==
  ASSUME TypeInv
  PROVE  /\ \A w \in Nat, x \in Int : SendStartWave(w, x) => starts' \in [Engine -> Seq(StartMessage)]
         /\ \A st \in State : Publish(st) => published' \in [Client -> Seq(State)]
<1>1. ASSUME NEW w \in Nat, NEW x \in Int, SendStartWave(w, x)
      PROVE  starts' \in [Engine -> Seq(StartMessage)]
  <2>1. [wave |-> w, exclude |-> x] \in StartMessage
    BY DEF StartMessage
  <2>2. \A e \in Engine : Append(starts[e], [wave |-> w, exclude |-> x]) \in Seq(StartMessage)
    BY <2>1, Typed, ChannelTyped
  <2> QED
    BY <1>1, <2>2 DEF SendStartWave
<1>2. ASSUME NEW st \in State, Publish(st) PROVE published' \in [Client -> Seq(State)]
  <2>1. \A c \in Client : Append(published[c], st) \in Seq(State)
    BY Typed, ChannelTyped
  <2> QED
    BY <1>2, <2>1 DEF Publish
<1> QED
  BY <1>1, <1>2

\* The requests an engine answers keep the types of what is known of them.
LEMMA FinishTyped ==
  ASSUME TypeInv, NEW R, Finish(R)
  PROVE  /\ place' \in [Request -> {"new", "sent", "local", "done"}]
         /\ sentWave' \in [Request -> Nat] /\ target' \in [Request -> Engine]
         /\ \A r \in Request : place'[r] # "done" => r \notin R /\ place[r] # "done"
  BY Typed DEF Finish

\* Every step keeps the types.
LEMMA NextTyped == TypeInv /\ [Next]_vars => TypeInv'
<1> SUFFICES ASSUME TypeInv, [Next]_vars PROVE TypeInv'
  OBVIOUS
<1>0. \A r \in Request : place[r] # "done" => left[r] >= 1
  BY DEF TypeInv
<1> USE DEF FrontNotice, EngineNotice, StartMessage, history
<1>1. ASSUME NEW c \in Client, NEW r \in Request, NEW e \in Engine, SendRequest(c, r, e)
      PROVE  TypeInv'
  <2>1. first' \in [Client -> Seq(Engine)]
    <3>1. Append(first[c], e) \in Seq(Engine)
      BY Typed, ChannelTyped
    <3> QED
      BY <1>1, <3>1, Typed DEF SendRequest
  <2>2. view[c].wave \in Nat
    BY Typed DEF State
  <2> QED
    BY <1>0, <1>1, <2>1, <2>2, Typed DEF SendRequest, TypeInv, TypeOK, engines
<1>2. ASSUME NEW c \in Client, ForwardFirst(c) PROVE TypeInv'
  <2>1. /\ first[c] # <<>> /\ Head(first[c]) \in Engine /\ Tail(first[c]) \in Seq(Engine)
    BY <1>2, Typed, ChannelTyped DEF ForwardFirst
  <2>2. view[c] \in State /\ view[c].wave \in Nat /\ [view[c] EXCEPT !.running = TRUE] \in State
    BY Typed DEF State
  <2>3. [engine |-> Head(first[c]), wave |-> view[c].wave] \in FrontNotice
    BY <2>1, <2>2
  <2>4. Append(front[c], [engine |-> Head(first[c]), wave |-> view[c].wave]) \in Seq(FrontNotice)
    BY <2>3, Typed, ChannelTyped
  <2>5. view' \in [Client -> State]
    BY <1>2, <2>2, Typed DEF ForwardFirst
  <2>6. first' \in [Client -> Seq(Engine)] /\ front' \in [Client -> Seq(FrontNotice)]
    BY <1>2, <2>1, <2>4, Typed DEF ForwardFirst
  <2> QED
    BY <1>0, <1>2, <2>5, <2>6, Typed DEF ForwardFirst, TypeInv, TypeOK, engines, requests
<1>3. ASSUME NEW c \in Client, ReceivePublished(c) PROVE TypeInv'
  <2>1. published[c] # <<>> /\ Head(published[c]) \in State /\ Tail(published[c]) \in Seq(State)
    BY <1>3, Typed, ChannelTyped DEF ReceivePublished
  <2>2. view' \in [Client -> State] /\ published' \in [Client -> Seq(State)]
    BY <1>3, <2>1, Typed DEF ReceivePublished
  <2> QED
    BY <1>0, <1>3, <2>2, Typed DEF ReceivePublished, TypeInv, TypeOK, engines, requests
<1>4. ASSUME NEW c \in Client, StartForFront(c) PROVE TypeInv'
  <2>1. /\ front[c] # <<>> /\ Head(front[c]) \in FrontNotice /\ Tail(front[c]) \in Seq(FrontNotice)
    BY <1>4, Typed, ChannelTyped DEF StartForFront
  <2>2. coord \in State /\ coord.wave \in Nat /\ [coord EXCEPT !.running = TRUE] \in State
    BY Typed DEF State
  <2>3. NoEngine \in Int /\ Identity(Head(front[c]).engine) \in Int
    <3>1. Head(front[c]).engine \in Engine
      BY <2>1
    <3>2. Head(front[c]).engine \in Nat /\ NumEngines \in Nat
      BY <3>1, Typed
    <3> QED
      BY <3>2 DEF NoEngine, Identity
  <2>4. /\ front' = [front EXCEPT ![c] = Tail(@)]
        /\ \/ UNCHANGED <<coord, starts, published>>
           \/ /\ coord' = [coord EXCEPT !.running = TRUE]
              /\ \E x \in Int : SendStartWave(coord.wave, x)
              /\ Publish(coord')
    BY <1>4, <2>3 DEF StartForFront
  <2>5. /\ coord' \in State /\ starts' \in [Engine -> Seq(StartMessage)]
        /\ published' \in [Client -> Seq(State)]
    BY <2>2, <2>4, Typed, BroadcastTyped
  <2>6. front' \in [Client -> Seq(FrontNotice)]
    BY <2>1, <2>4, Typed
  <2> QED
    BY <1>0, <1>4, <2>5, <2>6, Typed DEF StartForFront, TypeInv, TypeOK, engines, requests
<1>5. ASSUME NEW e \in Engine, HandleOutputs(e) PROVE TypeInv'
  <2>1. /\ outputs[e] # <<>> /\ Head(outputs[e]) \in EngineNotice /\ Tail(outputs[e]) \in Seq(EngineNotice)
    BY <1>5, Typed, ChannelTyped DEF HandleOutputs
  <2>2. PICK w \in Nat : w = Head(outputs[e]).wave
    BY <2>1
  <2>3. [wave |-> w + 1, running |-> FALSE] \in State /\ [wave |-> w, running |-> TRUE] \in State
    BY DEF State
  <2>4. /\ outputs' = [outputs EXCEPT ![e] = Tail(@)]
        /\ \/ /\ coord' = [wave |-> w + 1, running |-> FALSE]
              /\ Publish(coord') /\ UNCHANGED starts
           \/ /\ coord' = [wave |-> w, running |-> TRUE]
              /\ SendStartWave(w, e) /\ Publish(coord')
           \/ UNCHANGED <<coord, starts, published>>
    BY <1>5, <2>2 DEF HandleOutputs
  <2>5. e \in Int
    BY Typed
  <2>6. /\ coord' \in State /\ starts' \in [Engine -> Seq(StartMessage)]
        /\ published' \in [Client -> Seq(State)]
    BY <2>3, <2>4, <2>5, Typed, BroadcastTyped
  <2>7. outputs' \in [Engine -> Seq(EngineNotice)]
    BY <2>1, <2>4, Typed
  <2> QED
    BY <1>0, <1>5, <2>6, <2>7, Typed DEF HandleOutputs, TypeInv, TypeOK, engines, requests
<1>6. CASE PublishStats
  <2>1. published' \in [Client -> Seq(State)]
    BY <1>6, Typed, BroadcastTyped DEF PublishStats
  <2> QED
    BY <1>0, <1>6, <2>1, Typed DEF PublishStats, TypeInv, TypeOK, engines, requests
<1>7. ASSUME NEW e \in Engine, NEW r \in Request, AddRequest(e, r) PROVE TypeInv'
  <2>1. [type |-> "start", wave |-> wave[e]] \in EngineNotice
    BY Typed
  <2>2. Append(outputs[e], Notice("start", wave[e])) \in Seq(EngineNotice)
    BY <2>1, Typed, ChannelTyped DEF Notice
  <2>3. outputs' \in [Engine -> Seq(EngineNotice)]
    BY <1>7, <2>2, Typed DEF AddRequest
  <2>4. wave' \in [Engine -> Nat] /\ place' \in [Request -> {"new", "sent", "local", "done"}]
    BY <1>7, Typed DEF AddRequest
  <2>5. \A s \in Request : place'[s] # "done" => left'[s] >= 1
    BY <1>0, <1>7, Typed DEF AddRequest
  <2>6. asked' \subseteq Engine
    BY <1>7, Typed DEF AddRequest
  <2> QED
    BY <1>7, <2>3, <2>4, <2>5, <2>6, Typed DEF AddRequest, TypeInv, TypeOK
<1>8. ASSUME NEW e \in Engine, NEW r \in Request, AbortRequest(e, r) PROVE TypeInv'
  <2>1. Finish({r}) /\ left' = left /\ withdrawn' \in BOOLEAN
    BY <1>8 DEF AbortRequest
  <2> QED
    BY <1>0, <1>8, <2>1, FinishTyped, Typed DEF AbortRequest, TypeInv, TypeOK, engines, channels
<1>9. ASSUME NEW e \in Engine, StartWave(e) PROVE TypeInv'
  <2>1. starts[e] # <<>> /\ Head(starts[e]) \in StartMessage /\ Tail(starts[e]) \in Seq(StartMessage)
    BY <1>9, Typed, ChannelTyped DEF StartWave
  <2>2. PICK w \in Nat : w = Head(starts[e]).wave
    BY <2>1
  <2>3. starts' \in [Engine -> Seq(StartMessage)]
    BY <1>9, <2>1, Typed DEF StartWave
  <2>4. wave' \in [Engine -> Nat] /\ running' \in [Engine -> BOOLEAN]
    BY <1>9, <2>2, Typed DEF StartWave
  <2> QED
    BY <1>0, <1>9, <2>3, <2>4, Typed DEF StartWave, TypeInv, TypeOK, requests
<1>10. ASSUME NEW e \in Engine, BeginStep(e) PROVE TypeInv'
  BY <1>0, <1>10, Typed DEF BeginStep, TypeInv, TypeOK, requests, channels
<1>11. CASE Forward
  <2>. DEFINE R == {r \in Request : place[r] = "local" /\ left[r] = 1}
  <2>1. /\ Finish(R)
        /\ left' = [r \in Request |-> IF place[r] = "local" THEN left[r] - 1 ELSE left[r]]
        /\ step' = [e \in Engine |-> NextStep(e)]
        /\ running' = [e \in Engine |-> running[e] \/ NextStep(e) # 0]
        /\ pc' = [e \in Engine |-> IF NextStep(e) = 0 THEN "reduce" ELSE "loop"]
        /\ UNCHANGED <<wave, coord, view, channels, asked, withdrawn>>
    BY <1>11 DEF Forward
  <2>2. /\ place' \in [Request -> {"new", "sent", "local", "done"}]
        /\ sentWave' \in [Request -> Nat] /\ target' \in [Request -> Engine]
        /\ \A r \in Request : place'[r] # "done" => r \notin R /\ place[r] # "done"
    BY <2>1, FinishTyped
  <2>3. \A e \in Engine : NextStep(e) \in 0 .. SyncPeriod - 1
    <3>1. SyncPeriod \in Nat \ {0} /\ \A e \in Engine : step[e] \in Nat
      BY Typed, WaveAssumption
    <3> QED
      BY <3>1 DEF NextStep
  <2>4. left' \in [Request -> Nat]
    <3>1. ASSUME NEW r \in Request
          PROVE  left[r] \in Nat /\ (place[r] = "local" => left[r] - 1 \in Nat)
      <4>1. left[r] \in Nat /\ (place[r] = "local" => left[r] >= 1)
        BY <1>0, Typed
      <4> QED
        BY <4>1
    <3> QED
      BY <2>1, <3>1
  <2>5. ASSUME NEW r \in Request, place'[r] # "done" PROVE left'[r] >= 1
    <3>1. r \notin R /\ left[r] >= 1 /\ left[r] \in Nat
      BY <1>0, <2>2, <2>5, Typed
    <3> QED
      BY <2>1, <3>1
  <2>6. /\ step' \in [Engine -> 0 .. SyncPeriod - 1] /\ running' \in [Engine -> BOOLEAN]
        /\ pc' \in [Engine -> {"loop", "forward", "reduce"}]
    BY <2>1, <2>3
  <2> HIDE DEF R
  <2> QED
    BY <2>1, <2>2, <2>4, <2>5, <2>6, Typed DEF TypeInv, TypeOK, channels
<1>12. CASE GoOn
  BY <1>0, <1>12, Typed DEF GoOn, TypeInv, TypeOK, requests, channels
<1>13. CASE Pause
  <2>1. [type |-> "complete", wave |-> wave[0]] \in EngineNotice
    BY Typed
  <2>2. Append(outputs[0], Notice("complete", wave[0])) \in Seq(EngineNotice)
    BY <2>1, Typed, ChannelTyped DEF Notice
  <2>3. outputs' \in [Engine -> Seq(EngineNotice)]
    BY <1>13, <2>2, Typed DEF Pause
  <2>4. 0 \in 0 .. SyncPeriod - 1 /\ \A e \in Engine : wave[e] + 1 \in Nat
    BY Typed, WaveAssumption
  <2> QED
    BY <1>0, <1>13, <2>3, <2>4, Typed DEF Pause, TypeInv, TypeOK, requests
<1>14. CASE UNCHANGED vars
  BY <1>0, <1>14, Typed DEF vars, engines, requests, channels, TypeInv, TypeOK
<1> QED
  BY <1>1, <1>2, <1>3, <1>4, <1>5, <1>6, <1>7, <1>8, <1>9, <1>10, <1>11, <1>12, <1>13, <1>14
     DEF Next, EngineStep, FrontStep

\* Wave numbers, counters and messages keep their types; the counter of steps
\* stays below the period, and no request is stepped beyond its end.
THEOREM TypeCorrect == Spec => []TypeOK
<1>1. TypeInv => TypeOK
  BY DEF TypeInv
<1> QED
  BY <1>1, InitTyped, NextTyped, PTL DEF Spec
----------------------------------------------------------------------------
(* What the coordinator knows                                              *)
(*                                                                         *)
(* All engines are in the same wave, W below: they enter the next one      *)
(* together, and no message carries a later number than the coordinator    *)
(* knows. What the coordinator does not know yet is announced by something *)
(* on its way to it.                                                       *)

W == wave[0]

\* The messages of a channel.
Messages(q) == {q[i] : i \in 1 .. Len(q)}

\* No engine is ahead of another, and no number is ahead of its source.
WavesBounded ==
  /\ \A e \in Engine : wave[e] = W
  /\ coord.wave <= W
  /\ \A c \in Client : view[c].wave <= coord.wave
  /\ \A c \in Client : \A m \in Messages(published[c]) : m.wave <= coord.wave
  /\ \A r \in Request : sentWave[r] <= coord.wave
  /\ \A e \in Engine : \A m \in Messages(starts[e]) : m.wave <= coord.wave
  /\ \A e \in Engine : \A m \in Messages(outputs[e]) :
       m.wave <= W /\ (m.type = "complete" => m.wave < W)

\* A coordinator that lags behind will hear that the last wave is complete.
CompleteAnnounced ==
  coord.wave < W => Notice("complete", W - 1) \in Messages(outputs[0])

\* Only a coordinator that believes in this wave says that it runs.
OnlyIfRunning ==
  /\ \A c \in Client : \A m \in Messages(published[c]) : m.wave = W /\ m.running => coord.running
  /\ \A e \in Engine : \A m \in Messages(starts[e]) : m.wave = W => coord.running

\* An engine has asked for a start of this wave, and the coordinator does not know.
StartAsked == \E e \in Engine : Notice("start", W) \in Messages(outputs[e])

\* Something will tell a coordinator that believes this wave to be paused.
WakeUpPending == StartAsked \/ \E c \in Client : first[c] # <<>> \/ front[c] # <<>>

\* Somebody acts, or will act, as if this wave ran.
WaveUsed ==
  \/ \E e \in Engine : Awake(e)
  \/ \E c \in Client : view[c].wave = W /\ view[c].running
  \/ \E r \in Request : place[r] = "sent" /\ sentWave[r] = W

\* A coordinator that does not know that the engines run will be told.
RunAnnounced ==
  /\ coord.wave < W /\ (\E e \in Engine : Awake(e)) => StartAsked
  /\ coord.wave = W /\ ~coord.running /\ WaveUsed => WakeUpPending

\* An engine which asked for a start is noted, and awake unless its requests were
\* withdrawn.
AskedAwake ==
  /\ \A e \in Engine : Notice("start", W) \in Messages(outputs[e]) => e \in asked
  /\ \A e \in asked : withdrawn \/ Awake(e)

\* START_DP_WAVE for this wave is on its way to engine e.
StartPending(e) == \E m \in Messages(starts[e]) : m.wave = W /\ m.exclude # e

\* When the coordinator has started the wave, every engine runs, will be told to,
\* or is the one that asked.
AllStarted ==
  coord.wave = W /\ coord.running =>
    \A e \in Engine : running[e] \/ e \in asked \/ StartPending(e)

WaveInv ==
  /\ WavesBounded
  /\ CompleteAnnounced
  /\ OnlyIfRunning
  /\ RunAnnounced
  /\ AskedAwake
  /\ AllStarted

\* The messages of a channel after one is appended, or the first one is taken.
LEMMA MessagesOf ==
  ASSUME NEW T, NEW q \in Seq(T)
  PROVE  /\ q = <<>> => Messages(q) = {}
         /\ Messages(q) \subseteq T
         /\ \A x \in T : Messages(Append(q, x)) = Messages(q) \union {x}
         /\ q # <<>> => /\ Head(q) \in Messages(q)
                        /\ Messages(q) = Messages(Tail(q)) \union {Head(q)}
<1>1. q = <<>> => Messages(q) = {}
  BY DEF Messages
<1>2. Messages(q) \subseteq T
  BY DEF Messages
<1>3. ASSUME NEW x \in T PROVE Messages(Append(q, x)) = Messages(q) \union {x}
  <2>1. /\ Len(q) \in Nat /\ Len(Append(q, x)) = Len(q) + 1
        /\ \A i \in 1 .. Len(q) : Append(q, x)[i] = q[i]
        /\ Append(q, x)[Len(q) + 1] = x
    OBVIOUS
  <2>2. \A i : i \in 1 .. Len(q) + 1 <=> i \in 1 .. Len(q) \/ i = Len(q) + 1
    BY <2>1
  <2> QED
    BY <2>1, <2>2 DEF Messages
<1>4. ASSUME q # <<>>
      PROVE  Head(q) \in Messages(q) /\ Messages(q) = Messages(Tail(q)) \union {Head(q)}
  <2>1. /\ Len(q) \in Nat /\ Len(q) >= 1 /\ Len(Tail(q)) = Len(q) - 1 /\ Head(q) = q[1]
        /\ \A i \in 1 .. Len(q) - 1 : Tail(q)[i] = q[i + 1]
    BY <1>4
  <2>2. /\ 1 \in 1 .. Len(q)
        /\ \A i \in 1 .. Len(q) - 1 : i + 1 \in 1 .. Len(q)
        /\ \A i \in 1 .. Len(q) : i = 1 \/ (i - 1 \in 1 .. Len(q) - 1 /\ (i - 1) + 1 = i)
    BY <2>1
  <2>3. Messages(Tail(q)) = {Tail(q)[i] : i \in 1 .. Len(q) - 1}
    BY <2>1 DEF Messages
  <2>4. ASSUME NEW m \in Messages(q) PROVE m \in Messages(Tail(q)) \union {Head(q)}
    <3>1. PICK i \in 1 .. Len(q) : m = q[i]
      BY <2>4 DEF Messages
    <3>2. CASE i = 1
      BY <2>1, <3>1, <3>2
    <3>3. CASE i # 1
      <4>1. i - 1 \in 1 .. Len(q) - 1 /\ Tail(q)[i - 1] = q[i]
        BY <2>1, <2>2, <3>3
      <4> QED
        BY <2>3, <3>1, <4>1
    <3> QED
      BY <3>2, <3>3
  <2>5. ASSUME NEW m \in Messages(Tail(q)) PROVE m \in Messages(q)
    <3>1. PICK i \in 1 .. Len(q) - 1 : m = Tail(q)[i]
      BY <2>3, <2>5
    <3>2. i + 1 \in 1 .. Len(q) /\ m = q[i + 1]
      BY <2>1, <2>2, <3>1
    <3> QED
      BY <3>2 DEF Messages
  <2>6. Head(q) \in Messages(q)
    BY <2>1, <2>2 DEF Messages
  <2> QED
    BY <2>4, <2>5, <2>6
<1> QED
  BY <1>1, <1>2, <1>3, <1>4

\* The invariant says nothing but what is asked of the coordinator.
LEMMA WaveInvAgrees == TypeInv /\ WaveInv => CoordinatorAgrees
<1> SUFFICES ASSUME TypeInv, WaveInv, Quiet, ~withdrawn, NEW e \in Engine
             PROVE  coord = [wave |-> wave[e], running |-> Awake(e)]
  BY DEF CoordinatorAgrees
<1>1. /\ \A f \in Engine : Messages(outputs[f]) = {} /\ Messages(starts[f]) = {}
  BY Typed, MessagesOf DEF Quiet
<1>2. coord.wave = wave[e]
  <2>1. coord.wave \in Nat /\ W \in Nat /\ coord.wave <= W /\ wave[e] = W
    BY Typed DEF WaveInv, WavesBounded, State, W
  <2>2. ~(coord.wave < W)
    BY <1>1, Typed DEF WaveInv, CompleteAnnounced
  <2> QED
    BY <2>1, <2>2
<1>3. wave[e] = W
  BY DEF WaveInv, WavesBounded
<1>4. ~WakeUpPending
  BY <1>1 DEF WakeUpPending, StartAsked, Quiet
<1>5. CASE coord.running
  <2>1. running[e] \/ e \in asked
    BY <1>1, <1>2, <1>3, <1>5 DEF WaveInv, AllStarted, StartPending
  <2>2. Awake(e)
    BY <2>1 DEF WaveInv, AskedAwake, Awake, HasWork
  <2> QED
    BY <1>2, <1>5, <2>2, Typed DEF State, Awake, HasWork
<1>6. CASE ~coord.running
  <2>1. ~Awake(e)
    BY <1>2, <1>3, <1>4, <1>6 DEF WaveInv, RunAnnounced, WaveUsed
  <2> QED
    BY <1>2, <1>6, <2>1, Typed DEF State, Awake, HasWork
<1> QED
  BY <1>5, <1>6

\* Nothing is sent and nobody runs in the beginning.
LEMMA InitWaves == Init => WaveInv
<1> SUFFICES ASSUME Init PROVE WaveInv
  OBVIOUS
<1>1. 0 \in Engine
  BY WaveAssumption DEF Engine
<1>2. /\ \A e \in Engine : Messages(outputs[e]) = {} /\ Messages(starts[e]) = {}
      /\ \A c \in Client : Messages(published[c]) = {}
  BY DEF Init, Messages
<1>3. W = 0 /\ coord.wave = 0 /\ coord.running = FALSE
  BY <1>1 DEF Init, W
<1>4. \A e \in Engine : ~Awake(e)
  BY DEF Init, Awake, HasWork, Unfinished
<1>5. WavesBounded /\ OnlyIfRunning
  BY <1>2, <1>3 DEF Init, WavesBounded, OnlyIfRunning
<1>6. ~WaveUsed
  BY <1>4 DEF WaveUsed, Init
<1>7. CompleteAnnounced /\ RunAnnounced /\ AskedAwake /\ AllStarted
  BY <1>2, <1>3, <1>4, <1>6 DEF Init, CompleteAnnounced, RunAnnounced, AskedAwake, AllStarted
<1> QED
  BY <1>5, <1>7 DEF WaveInv

\* What every step may use: the numbers compared are numbers.
LEMMA WaveTypes ==
  ASSUME TypeInv
  PROVE  /\ W \in Nat /\ coord.wave \in Nat /\ coord.running \in BOOLEAN
         /\ \A c \in Client : view[c].wave \in Nat /\ view[c].running \in BOOLEAN
         /\ \A r \in Request : sentWave[r] \in Nat
         /\ \A c \in Client : Messages(published[c]) \subseteq State
         /\ \A e \in Engine : /\ Messages(starts[e]) \subseteq StartMessage
                              /\ Messages(outputs[e]) \subseteq EngineNotice
<1>1. \A c \in Client : Messages(published[c]) \subseteq State
  BY Typed, MessagesOf
<1>2. \A e \in Engine : /\ Messages(starts[e]) \subseteq StartMessage
                        /\ Messages(outputs[e]) \subseteq EngineNotice
  BY Typed, MessagesOf
<1> QED
  BY <1>1, <1>2, Typed DEF W, State

\* A step of the engines which neither sends nor receives anything: nobody is
\* woken, and whoever asked for a start stays awake.
LEMMA EnginesAlone ==
  ASSUME TypeInv, WaveInv, UNCHANGED <<wave, coord, view, channels, asked>>,
         withdrawn => withdrawn',
         \A e \in Engine : running[e] => running'[e],
         (\E e \in Engine : Awake(e)') => \E e \in Engine : Awake(e),
         \A e \in asked : Awake(e) => withdrawn' \/ Awake(e)',
         \A r \in Request : /\ sentWave'[r] \in {0, sentWave[r]}
                            /\ place'[r] = "sent" => place[r] = "sent" /\ sentWave'[r] = sentWave[r]
  PROVE  WaveInv'
<1>1. UNCHANGED <<wave, coord, view, first, front, outputs, starts, published, asked>>
  BY DEF channels
<1>2. W' = W /\ StartAsked' = StartAsked /\ WakeUpPending' = WakeUpPending
  BY <1>1 DEF W, StartAsked, WakeUpPending
<1>3. WavesBounded'
  <2>1. \A r \in Request : sentWave'[r] <= coord.wave
    <3>1. coord.wave \in Nat /\ \A r \in Request : sentWave[r] <= coord.wave
      BY WaveTypes DEF WaveInv, WavesBounded
    <3> QED
      BY <3>1
  <2> QED
    BY <1>1, <1>2, <2>1 DEF WaveInv, WavesBounded
<1>4. CompleteAnnounced' /\ OnlyIfRunning'
  BY <1>1, <1>2 DEF WaveInv, CompleteAnnounced, OnlyIfRunning
<1>5. WaveUsed' => WaveUsed
  BY <1>1, <1>2 DEF WaveUsed
<1>6. RunAnnounced'
  BY <1>1, <1>2, <1>5 DEF WaveInv, RunAnnounced
<1>7. AskedAwake'
  BY <1>1, <1>2 DEF WaveInv, AskedAwake
<1>8. AllStarted'
  BY <1>1, <1>2 DEF WaveInv, AllStarted, StartPending
<1> QED
  BY <1>3, <1>4, <1>6, <1>7, <1>8 DEF WaveInv

\* A channel that has just been written to is not empty.
LEMMA AppendNotEmpty ==
  ASSUME NEW T, NEW q \in Seq(T), NEW x \in T
  PROVE  Append(q, x) # <<>>
<1>1. Len(Append(q, x)) = Len(q) + 1 /\ Len(q) \in Nat /\ Len(<<>>) = 0
  OBVIOUS
<1> QED
  BY <1>1

\* A front end sends a request: it tells the coordinator, or somebody has before.
LEMMA SendRequestWaves ==
  ASSUME TypeInv, WaveInv, NEW c \in Client, NEW r \in Request, NEW e \in Engine,
         SendRequest(c, r, e)
  PROVE  WaveInv'
<1>1. /\ UNCHANGED <<wave, running, pc, coord, view, front, outputs, starts, published, asked, withdrawn>>
      /\ place[r] = "new" /\ place' = [place EXCEPT ![r] = "sent"]
      /\ target' = [target EXCEPT ![r] = e] /\ sentWave' = [sentWave EXCEPT ![r] = view[c].wave]
      /\ first' = IF view[c].running THEN first ELSE [first EXCEPT ![c] = Append(@, e)]
  BY DEF SendRequest, engines, history
<1>2. W' = W /\ StartAsked' = StartAsked
  BY <1>1 DEF W, StartAsked
<1>3. \A f \in Engine : Awake(f)' = Awake(f)
  <2>1. \A f \in Engine : Unfinished(f)' = Unfinished(f)
    BY <1>1, Typed DEF Unfinished
  <2> QED
    BY <1>1, <2>1 DEF Awake, HasWork
<1>4. WavesBounded'
  <2>1. \A s \in Request : sentWave'[s] <= coord.wave
    BY <1>1, Typed DEF WaveInv, WavesBounded
  <2> QED
    BY <1>1, <1>2, <2>1 DEF WaveInv, WavesBounded
<1>5. CompleteAnnounced' /\ OnlyIfRunning' /\ AllStarted'
  BY <1>1, <1>2 DEF WaveInv, CompleteAnnounced, OnlyIfRunning, AllStarted, StartPending
<1>6. AskedAwake'
  BY <1>1, <1>2, <1>3, Typed DEF WaveInv, AskedAwake
<1>7. Append(first[c], e) # <<>>
  BY Typed, AppendNotEmpty
<1>8. (WakeUpPending => WakeUpPending') /\ (~view[c].running => WakeUpPending')
  <2>1. /\ ~view[c].running => first'[c] # <<>>
        /\ \A d \in Client : first[d] # <<>> => first'[d] # <<>>
    BY <1>1, <1>7, Typed
  <2> QED
    BY <1>1, <1>2, <2>1 DEF WakeUpPending
<1>9. WaveUsed' => WaveUsed \/ ~view[c].running
  <2>1. ASSUME NEW s \in Request, place'[s] = "sent", sentWave'[s] = W, view[c].running
        PROVE  WaveUsed
    <3>1. CASE s = r
      BY <1>1, <2>1, <3>1, Typed DEF WaveUsed
    <3>2. CASE s # r
      BY <1>1, <2>1, <3>2, Typed DEF WaveUsed
    <3> QED
      BY <3>1, <3>2
  <2> QED
    BY <1>1, <1>2, <1>3, <2>1 DEF WaveUsed
<1>10. RunAnnounced'
  BY <1>1, <1>2, <1>3, <1>8, <1>9 DEF WaveInv, RunAnnounced
<1> QED
  BY <1>4, <1>5, <1>6, <1>10 DEF WaveInv

\* The stats task of a front end passes the notice on.
LEMMA ForwardFirstWaves ==
  ASSUME TypeInv, WaveInv, NEW c \in Client, ForwardFirst(c)
  PROVE  WaveInv'
<1>1. /\ UNCHANGED <<wave, running, pc, place, target, sentWave, coord, outputs, starts, published, asked, withdrawn>>
      /\ view' = [view EXCEPT ![c].running = TRUE]
      /\ front' = [front EXCEPT ![c] = Append(@, [engine |-> Head(first[c]), wave |-> view[c].wave])]
  BY DEF ForwardFirst, engines, requests, history
<1>2. W' = W /\ StartAsked' = StartAsked
  BY <1>1 DEF W, StartAsked
<1>3. \A f \in Engine : Awake(f)' = Awake(f)
  BY <1>1 DEF Awake, HasWork, Unfinished
<1>4. \A d \in Client : view'[d].wave = view[d].wave
  BY <1>1, Typed DEF State
<1>5. WavesBounded'
  BY <1>1, <1>2, <1>4 DEF WaveInv, WavesBounded
<1>6. CompleteAnnounced' /\ OnlyIfRunning' /\ AllStarted'
  BY <1>1, <1>2 DEF WaveInv, CompleteAnnounced, OnlyIfRunning, AllStarted, StartPending
<1>7. AskedAwake'
  BY <1>1, <1>2, <1>3, Typed DEF WaveInv, AskedAwake
<1>8. WakeUpPending'
  <2>1. Head(first[c]) \in Engine /\ view[c].wave \in Nat
    BY Typed, ChannelTyped DEF ForwardFirst, State
  <2>2. [engine |-> Head(first[c]), wave |-> view[c].wave] \in FrontNotice
    BY <2>1 DEF FrontNotice
  <2>3. Append(front[c], [engine |-> Head(first[c]), wave |-> view[c].wave]) # <<>>
    <3>1. front[c] \in Seq(FrontNotice)
      BY Typed
    <3> QED
      BY <2>2, <3>1, AppendNotEmpty
  <2>4. front'[c] # <<>>
    BY <1>1, <2>3, Typed
  <2> QED
    BY <2>4 DEF WakeUpPending
<1>9. RunAnnounced'
  BY <1>1, <1>2, <1>3, <1>8 DEF WaveInv, RunAnnounced
<1> QED
  BY <1>5, <1>6, <1>7, <1>9 DEF WaveInv

\* A front end hears from the coordinator; what it hears of this wave is still so.
LEMMA ReceivePublishedWaves ==
  ASSUME TypeInv, WaveInv, NEW c \in Client, ReceivePublished(c)
  PROVE  WaveInv'
<1>1. /\ UNCHANGED <<wave, running, pc, place, target, sentWave, coord, first, front, outputs, starts, asked, withdrawn>>
      /\ published[c] # <<>> /\ published' = [published EXCEPT ![c] = Tail(@)]
      /\ view' = [view EXCEPT ![c] = Head(published[c])]
  BY DEF ReceivePublished, engines, requests, history
<1>2. W' = W /\ StartAsked' = StartAsked /\ WakeUpPending' = WakeUpPending
  BY <1>1 DEF W, StartAsked, WakeUpPending
<1>3. \A f \in Engine : Awake(f)' = Awake(f)
  BY <1>1 DEF Awake, HasWork, Unfinished
<1>4. /\ Head(published[c]) \in Messages(published[c])
      /\ \A d \in Client : Messages(published'[d]) \subseteq Messages(published[d])
  <2>1. /\ Head(published[c]) \in Messages(published[c])
        /\ Messages(Tail(published[c])) \subseteq Messages(published[c])
    BY <1>1, Typed, MessagesOf
  <2> QED
    BY <1>1, <2>1, Typed
<1>5. /\ \A d \in Client : d # c => view'[d] = view[d]
      /\ view'[c] = Head(published[c])
  BY <1>1, Typed
<1>6. WavesBounded' /\ OnlyIfRunning'
  BY <1>1, <1>2, <1>4, <1>5 DEF WaveInv, WavesBounded, OnlyIfRunning
<1>7. CompleteAnnounced' /\ AllStarted'
  BY <1>1, <1>2 DEF WaveInv, CompleteAnnounced, AllStarted, StartPending
<1>8. AskedAwake'
  BY <1>1, <1>2, <1>3, Typed DEF WaveInv, AskedAwake
<1>9. WaveUsed' => WaveUsed \/ coord.running
  BY <1>1, <1>2, <1>3, <1>4, <1>5 DEF WaveInv, OnlyIfRunning, WaveUsed
<1>10. RunAnnounced'
  BY <1>1, <1>2, <1>3, <1>9 DEF WaveInv, RunAnnounced
<1> QED
  BY <1>6, <1>7, <1>8, <1>10 DEF WaveInv

\* The periodic statistics repeat what the coordinator believes.
LEMMA PublishStatsWaves ==
  ASSUME TypeInv, WaveInv, PublishStats
  PROVE  WaveInv'
<1>1. /\ UNCHANGED <<wave, running, pc, place, target, sentWave, coord, view, first, front, outputs, starts, asked, withdrawn>>
      /\ published' = [c \in Client |-> Append(published[c], coord)]
  BY DEF PublishStats, Publish, engines, requests, history
<1>2. W' = W /\ StartAsked' = StartAsked /\ WakeUpPending' = WakeUpPending
  BY <1>1 DEF W, StartAsked, WakeUpPending
<1>3. \A f \in Engine : Awake(f)' = Awake(f)
  BY <1>1 DEF Awake, HasWork, Unfinished
<1>4. \A c \in Client : Messages(published'[c]) = Messages(published[c]) \union {coord}
  BY <1>1, Typed, MessagesOf
<1>5. coord.wave <= coord.wave
  BY WaveTypes
<1>6. WavesBounded' /\ OnlyIfRunning'
  BY <1>1, <1>2, <1>4, <1>5 DEF WaveInv, WavesBounded, OnlyIfRunning
<1>7. CompleteAnnounced' /\ AllStarted'
  BY <1>1, <1>2 DEF WaveInv, CompleteAnnounced, AllStarted, StartPending
<1>8. AskedAwake'
  BY <1>1, <1>2, <1>3, Typed DEF WaveInv, AskedAwake
<1>9. RunAnnounced'
  BY <1>1, <1>2, <1>3 DEF WaveInv, RunAnnounced, WaveUsed
<1> QED
  BY <1>6, <1>7, <1>8, <1>9 DEF WaveInv

\* What the coordinator sends to all of them.
LEMMA BroadcastMessages ==
  ASSUME TypeInv
  PROVE  /\ \A w \in Nat, x \in Int : SendStartWave(w, x) =>
              \A e \in Engine : Messages(starts'[e]) = Messages(starts[e]) \union {[wave |-> w, exclude |-> x]}
         /\ \A st \in State : Publish(st) =>
              \A c \in Client : Messages(published'[c]) = Messages(published[c]) \union {st}
<1>1. ASSUME NEW w \in Nat, NEW x \in Int, SendStartWave(w, x), NEW e \in Engine
      PROVE  Messages(starts'[e]) = Messages(starts[e]) \union {[wave |-> w, exclude |-> x]}
  <2>1. [wave |-> w, exclude |-> x] \in StartMessage
    BY DEF StartMessage
  <2>2. starts'[e] = Append(starts[e], [wave |-> w, exclude |-> x])
    BY <1>1 DEF SendStartWave
  <2> QED
    BY <2>1, <2>2, Typed, MessagesOf
<1>2. ASSUME NEW st \in State, Publish(st), NEW c \in Client
      PROVE  Messages(published'[c]) = Messages(published[c]) \union {st}
  <2>1. published'[c] = Append(published[c], st)
    BY <1>2 DEF Publish
  <2> QED
    BY <2>1, Typed, MessagesOf
<1> QED
  BY <1>1, <1>2

\* The coordinator hears of a request that a front end sent to paused engines: it
\* starts the wave it knows of, and leaves no engine out.
LEMMA StartForFrontWaves ==
  ASSUME TypeInv, WaveInv, NEW c \in Client, StartForFront(c)
  PROVE  WaveInv'
<1>1. /\ UNCHANGED <<wave, running, pc, place, target, sentWave, view, first, outputs, asked, withdrawn>>
      /\ front[c] # <<>> /\ front' = [front EXCEPT ![c] = Tail(@)]
  BY DEF StartForFront, engines, requests, history
<1>2. W' = W /\ StartAsked' = StartAsked
  BY <1>1 DEF W, StartAsked
<1>3. \A f \in Engine : Awake(f)' = Awake(f)
  BY <1>1 DEF Awake, HasWork, Unfinished
<1>4. AskedAwake'
  BY <1>1, <1>2, <1>3, Typed DEF WaveInv, AskedAwake
<1>5. CASE coord.running
  <2>1. UNCHANGED <<coord, starts, published>>
    BY <1>5 DEF StartForFront
  <2>2. WavesBounded' /\ OnlyIfRunning' /\ CompleteAnnounced' /\ AllStarted'
    BY <1>1, <1>2, <2>1
       DEF WaveInv, WavesBounded, OnlyIfRunning, CompleteAnnounced, AllStarted, StartPending
  <2>3. RunAnnounced'
    BY <1>2, <1>3, <1>5, <2>1 DEF WaveInv, RunAnnounced
  <2> QED
    BY <1>4, <2>2, <2>3 DEF WaveInv
<1>6. CASE ~coord.running
  <2>. DEFINE m == Head(front[c])
              x == IF m.wave < coord.wave THEN NoEngine ELSE Identity(m.engine)
  <2>1. coord' = [coord EXCEPT !.running = TRUE] /\ SendStartWave(coord.wave, x) /\ Publish(coord')
    BY <1>6 DEF StartForFront
  <2>2. x \in Int /\ x \notin Engine
    <3>1. Head(front[c]) \in FrontNotice
      BY <1>1, Typed, ChannelTyped
    <3>2. m.engine \in Engine /\ m.engine \in Nat /\ NumEngines \in Nat
      BY <3>1, Typed DEF FrontNotice
    <3> QED
      BY <3>2 DEF NoEngine, Identity, Engine
  <2> HIDE DEF x, m
  <2>3. coord.wave \in Nat /\ coord' \in State /\ coord'.wave = coord.wave /\ coord'.running
    BY <2>1, Typed DEF State
  <2>4. \A e \in Engine : Messages(starts'[e]) = Messages(starts[e]) \union {[wave |-> coord.wave, exclude |-> x]}
    BY <2>1, <2>2, <2>3, BroadcastMessages
  <2>5. \A d \in Client : Messages(published'[d]) = Messages(published[d]) \union {coord'}
    BY <2>1, <2>3, BroadcastMessages
  <2>6. coord.wave <= coord.wave
    BY <2>3
  <2>7. WavesBounded'
    <3>1. \A e \in Engine : \A n \in Messages(starts'[e]) : n.wave <= coord.wave
      BY <2>4, <2>6 DEF WaveInv, WavesBounded
    <3>2. \A d \in Client : \A n \in Messages(published'[d]) : n.wave <= coord.wave
      BY <2>3, <2>5, <2>6 DEF WaveInv, WavesBounded
    <3> QED
      BY <1>1, <1>2, <2>3, <3>1, <3>2 DEF WaveInv, WavesBounded
  <2>8. OnlyIfRunning' /\ CompleteAnnounced'
    BY <1>1, <1>2, <2>3 DEF WaveInv, OnlyIfRunning, CompleteAnnounced
  <2>9. AllStarted'
    <3>1. ASSUME NEW e \in Engine, coord.wave = W PROVE StartPending(e)'
      <4>1. [wave |-> coord.wave, exclude |-> x] \in Messages(starts'[e]) /\ x # e
        BY <2>2, <2>4
      <4> QED
        BY <1>2, <3>1, <4>1 DEF StartPending
    <3> QED
      BY <1>2, <2>3, <3>1 DEF AllStarted
  <2>10. RunAnnounced'
    BY <1>2, <1>3, <2>3 DEF WaveInv, RunAnnounced
  <2> QED
    BY <1>4, <2>7, <2>8, <2>9, <2>10 DEF WaveInv
<1> QED
  BY <1>5, <1>6

\* The coordinator takes a notice of an engine. A late report or request of an
\* earlier wave changes nothing that matters now.
LEMMA HandleOutputsWaves ==
  ASSUME TypeInv, WaveInv, NEW e \in Engine, HandleOutputs(e)
  PROVE  WaveInv'
<1>1. /\ UNCHANGED <<wave, running, pc, place, target, sentWave, view, first, front, asked, withdrawn>>
      /\ outputs[e] # <<>> /\ outputs' = [outputs EXCEPT ![e] = Tail(@)]
  BY DEF HandleOutputs, engines, requests, history
<1>2. W' = W
  BY <1>1 DEF W
<1>3. \A f \in Engine : Awake(f)' = Awake(f)
  BY <1>1 DEF Awake, HasWork, Unfinished
<1>4. PICK m : m = Head(outputs[e])
  OBVIOUS
<1>5. /\ m \in Messages(outputs[e]) /\ m \in EngineNotice
      /\ \A f \in Engine : /\ Messages(outputs'[f]) \subseteq Messages(outputs[f])
                           /\ \A n \in Messages(outputs[f]) : n # m => n \in Messages(outputs'[f])
  <2>1. /\ m \in Messages(outputs[e]) /\ Messages(outputs[e]) = Messages(Tail(outputs[e])) \union {m}
    BY <1>1, <1>4, Typed, MessagesOf
  <2>2. \A f \in Engine : outputs'[f] = IF f = e THEN Tail(outputs[e]) ELSE outputs[f]
    BY <1>1, Typed
  <2>3. m \in EngineNotice
    BY <2>1, WaveTypes
  <2> QED
    BY <2>1, <2>2, <2>3
<1>6. PICK w \in Nat : w = m.wave
  BY <1>5 DEF EngineNotice
<1>7. /\ m.type \in {"start", "complete"} /\ m = Notice(m.type, w)
      /\ w <= W /\ (m.type = "complete" => w < W)
  BY <1>5, <1>6 DEF EngineNotice, Notice, WaveInv, WavesBounded
<1>8. /\ W \in Nat /\ coord.wave \in Nat /\ coord.wave <= W /\ 0 \in Engine
  BY WaveTypes, Typed DEF WaveInv, WavesBounded
<1>9. AskedAwake'
  BY <1>1, <1>2, <1>3, <1>5, Typed DEF WaveInv, AskedAwake
<1>10. m # Notice("start", W) => (StartAsked => StartAsked')
  BY <1>2, <1>5 DEF StartAsked
<1>11. m # Notice("complete", W - 1) /\ coord.wave < W => Notice("complete", W - 1) \in Messages(outputs'[0])
  BY <1>5, <1>8 DEF WaveInv, CompleteAnnounced
<1>12. /\ \A f \in Engine : \A n \in Messages(outputs'[f]) : n.wave <= W /\ (n.type = "complete" => n.wave < W)
  BY <1>5 DEF WaveInv, WavesBounded
<1>13. /\ \A n \in State : n.wave \in Nat
       /\ \A n \in StartMessage : n.wave \in Nat
  BY DEF State, StartMessage
<1>14. ASSUME coord'.wave \in Nat, coord.wave <= coord'.wave, coord'.wave <= W,
              \A c \in Client : \A n \in Messages(published'[c]) : n \in Messages(published[c]) \/ n = coord',
              \A f \in Engine : \A n \in Messages(starts'[f]) : n \in Messages(starts[f]) \/ n.wave = coord'.wave
       PROVE  WavesBounded'
  <2>1. \A c \in Client : view[c].wave <= coord'.wave
    BY <1>8, <1>14, WaveTypes DEF WaveInv, WavesBounded
  <2>2. \A r \in Request : sentWave[r] <= coord'.wave
    BY <1>8, <1>14, WaveTypes DEF WaveInv, WavesBounded
  <2>3. ASSUME NEW c \in Client, NEW n \in Messages(published'[c]) PROVE n.wave <= coord'.wave
    <3>1. n = coord' \/ (n.wave \in Nat /\ n.wave <= coord.wave)
      BY <1>13, <1>14, <2>3, WaveTypes DEF WaveInv, WavesBounded
    <3> QED
      BY <1>8, <1>14, <3>1
  <2>4. ASSUME NEW f \in Engine, NEW n \in Messages(starts'[f]) PROVE n.wave <= coord'.wave
    <3>1. n.wave = coord'.wave \/ (n.wave \in Nat /\ n.wave <= coord.wave)
      BY <1>13, <1>14, <2>4, WaveTypes DEF WaveInv, WavesBounded
    <3> QED
      BY <1>8, <1>14, <3>1
  <2> QED
    BY <1>1, <1>2, <1>12, <1>14, <2>1, <2>2, <2>3, <2>4 DEF WaveInv, WavesBounded
<1>15. CASE CompletesWave(m) /\ coord' = [wave |-> m.wave + 1, running |-> FALSE] /\ Publish(coord') /\ UNCHANGED starts
  <2>1. /\ m = Notice("complete", w) /\ coord.wave <= w /\ w < W
        /\ coord'.wave = w + 1 /\ coord'.running = FALSE /\ coord' \in State
    BY <1>6, <1>7, <1>15 DEF CompletesWave, State
  <2>2. \A c \in Client : Messages(published'[c]) = Messages(published[c]) \union {coord'}
    BY <1>15, <2>1, BroadcastMessages
  <2>3. coord'.wave \in Nat /\ coord.wave <= coord'.wave /\ coord'.wave <= W /\ coord.wave < W
    BY <1>8, <2>1
  <2>4. WavesBounded'
    BY <1>14, <1>15, <2>2, <2>3
  <2>5. m # Notice("start", W)
    BY <2>1 DEF Notice
  <2>6. CompleteAnnounced'
    <3>1. coord'.wave < W => m # Notice("complete", W - 1)
      <4>1. w + 1 < W => w # W - 1
        BY <1>8
      <4> QED
        BY <2>1, <4>1 DEF Notice
    <3> QED
      BY <1>2, <1>11, <2>3, <3>1 DEF CompleteAnnounced
  <2>7. OnlyIfRunning'
    <3>1. ASSUME NEW c \in Client, NEW n \in Messages(published'[c]), n.wave = W, n.running PROVE FALSE
      <4>1. n \in Messages(published[c])
        BY <2>1, <2>2, <3>1
      <4>2. n.wave <= coord.wave
        BY <4>1 DEF WaveInv, WavesBounded
      <4> QED
        BY <1>8, <2>3, <3>1, <4>2
    <3>2. ASSUME NEW f \in Engine, NEW n \in Messages(starts[f]), n.wave = W PROVE FALSE
      <4>1. n.wave <= coord.wave
        BY <3>2 DEF WaveInv, WavesBounded
      <4> QED
        BY <1>8, <2>3, <3>2, <4>1
    <3> QED
      BY <1>2, <1>15, <3>1, <3>2 DEF OnlyIfRunning
  <2>8. AllStarted'
    BY <2>1 DEF AllStarted
  <2>9. RunAnnounced'
    <3>1. (\E f \in Engine : Awake(f)') => StartAsked'
      BY <1>3, <1>10, <2>3, <2>5 DEF WaveInv, RunAnnounced
    <3>2. \A c \in Client : view[c].wave # W
      BY <1>8, <2>3, WaveTypes DEF WaveInv, WavesBounded
    <3>3. \A r \in Request : sentWave[r] # W
      BY <1>8, <2>3, WaveTypes DEF WaveInv, WavesBounded
    <3>4. WaveUsed' => \E f \in Engine : Awake(f)'
      BY <1>1, <1>2, <3>2, <3>3 DEF WaveUsed
    <3> QED
      BY <3>1, <3>4 DEF RunAnnounced, WakeUpPending
  <2> QED
    BY <1>9, <2>4, <2>6, <2>7, <2>8, <2>9 DEF WaveInv
<1>16. CASE /\ StartsWave(m) /\ coord' = [wave |-> m.wave, running |-> TRUE]
            /\ SendStartWave(m.wave, e) /\ Publish(coord')
  <2>1. /\ m = Notice("start", w) /\ w >= coord.wave /\ coord'.wave = w /\ coord'.running /\ coord' \in State
    BY <1>6, <1>7, <1>8, <1>16 DEF StartsWave, State
  <2>2. \A c \in Client : Messages(published'[c]) = Messages(published[c]) \union {coord'}
    BY <1>16, <2>1, BroadcastMessages
  <2>3. \A f \in Engine : Messages(starts'[f]) = Messages(starts[f]) \union {[wave |-> w, exclude |-> e]}
    <3>1. e \in Int /\ SendStartWave(w, e)
      BY <1>6, <1>16, Typed
    <3> QED
      BY <3>1, BroadcastMessages
  <2>4. WavesBounded'
    <3>1. coord.wave <= w
      BY <1>8, <2>1
    <3> QED
      BY <1>7, <1>14, <2>1, <2>2, <2>3, <3>1
  <2>5. CompleteAnnounced'
    <3>1. m # Notice("complete", W - 1)
      BY <2>1 DEF Notice
    <3>2. w < W => coord.wave < W
      BY <1>8, <2>1
    <3> QED
      BY <1>2, <1>11, <2>1, <3>1, <3>2 DEF CompleteAnnounced
  <2>6. OnlyIfRunning'
    BY <2>1 DEF OnlyIfRunning
  <2>7. RunAnnounced'
    <3>1. ASSUME w < W PROVE m # Notice("start", W) /\ coord.wave < W
      BY <1>8, <2>1, <3>1 DEF Notice
    <3> QED
      BY <1>2, <1>3, <1>10, <2>1, <3>1 DEF WaveInv, RunAnnounced
  <2>8. AllStarted'
    <3>1. ASSUME w = W, NEW f \in Engine, f # e PROVE StartPending(f)'
      <4>1. [wave |-> w, exclude |-> e] \in Messages(starts'[f])
        BY <2>3
      <4> QED
        BY <1>2, <3>1, <4>1 DEF StartPending
    <3>2. w = W => e \in asked
      BY <1>5, <2>1 DEF WaveInv, AskedAwake
    <3> QED
      BY <1>1, <1>2, <2>1, <3>1, <3>2 DEF AllStarted
  <2> QED
    BY <1>9, <2>4, <2>5, <2>6, <2>7, <2>8 DEF WaveInv
<1>17. CASE ~CompletesWave(m) /\ ~StartsWave(m) /\ UNCHANGED <<coord, starts, published>>
  <2>1. coord.wave <= coord.wave
    BY <1>8
  <2>2. WavesBounded'
    BY <1>8, <1>14, <1>17, <2>1
  <2>3. OnlyIfRunning'
    BY <1>2, <1>17 DEF WaveInv, OnlyIfRunning
  <2>4. AllStarted'
    BY <1>1, <1>2, <1>17 DEF WaveInv, AllStarted, StartPending
  <2>5. CompleteAnnounced'
    <3>1. m = Notice("complete", W - 1) => ~(coord.wave < W)
      <4>1. m = Notice("complete", W - 1) => m.type = "complete" /\ m.wave = W - 1
        BY DEF Notice
      <4>2. m.type = "complete" => ~(coord.wave <= m.wave)
        BY <1>17 DEF CompletesWave
      <4> QED
        BY <1>8, <4>1, <4>2
    <3> QED
      BY <1>2, <1>11, <1>17, <3>1 DEF CompleteAnnounced
  <2>6. RunAnnounced'
    <3>1. m = Notice("start", W) => coord.wave = W /\ coord.running
      <4>1. m = Notice("start", W) => m.type = "start" /\ m.wave = W
        BY DEF Notice
      <4>2. m.type = "start" => ~(m.wave > coord.wave) /\ ~(m.wave = coord.wave /\ ~coord.running)
        BY <1>17 DEF StartsWave
      <4> QED
        BY <1>8, <4>1, <4>2
    <3>2. CASE m = Notice("start", W)
      BY <1>2, <1>8, <1>17, <3>1, <3>2 DEF RunAnnounced
    <3>3. CASE m # Notice("start", W)
      BY <1>1, <1>2, <1>3, <1>10, <1>17, <3>3 DEF WaveInv, RunAnnounced, WaveUsed, WakeUpPending
    <3> QED
      BY <3>2, <3>3
  <2> QED
    BY <1>9, <2>2, <2>3, <2>4, <2>5, <2>6 DEF WaveInv
<1> QED
  BY <1>4, <1>15, <1>16, <1>17 DEF HandleOutputs

\* An engine takes a request. A request of an earlier wave that finds it paused
\* makes it ask for a start; one of this wave was announced by its front end.
LEMMA AddRequestWaves ==
  ASSUME TypeInv, WaveInv, NEW e \in Engine, NEW r \in Request, AddRequest(e, r)
  PROVE  WaveInv'
<1>. DEFINE stale == sentWave[r] < wave[e] /\ ~running[e]
<1>1. /\ UNCHANGED <<running, pc, target, sentWave, coord, view, first, front, starts, published, withdrawn>>
      /\ place[r] = "sent" /\ target[r] = e /\ place' = [place EXCEPT ![r] = "local"]
      /\ wave' = [wave EXCEPT ![e] = IF sentWave[r] > @ THEN sentWave[r] ELSE @]
      /\ outputs' = IF stale THEN [outputs EXCEPT ![e] = Append(@, Notice("start", wave[e]))] ELSE outputs
      /\ asked' = IF stale THEN asked \union {e} ELSE asked
  BY DEF AddRequest
<1>2. /\ W \in Nat /\ coord.wave \in Nat /\ coord.wave <= W /\ wave[e] = W
      /\ sentWave[r] \in Nat /\ sentWave[r] <= coord.wave
  BY WaveTypes DEF WaveInv, WavesBounded
<1>3. wave' = wave /\ W' = W
  <2>1. ~(sentWave[r] > wave[e])
    BY <1>2
  <2>2. wave' = wave
    BY <1>1, <2>1, Typed
  <2> QED
    BY <2>2 DEF W
<1>4. /\ stale <=> sentWave[r] < W /\ ~running[e]
      /\ stale => Messages(outputs'[e]) = Messages(outputs[e]) \union {Notice("start", W)}
      /\ \A f \in Engine : f # e \/ ~stale => outputs'[f] = outputs[f]
  <2>1. Notice("start", W) \in EngineNotice
    BY <1>2 DEF Notice, EngineNotice
  <2>2. outputs[e] \in Seq(EngineNotice)
    BY Typed
  <2>3. Messages(Append(outputs[e], Notice("start", W))) = Messages(outputs[e]) \union {Notice("start", W)}
    BY <2>1, <2>2, MessagesOf
  <2> QED
    BY <1>1, <1>2, <2>3, Typed
<1> HIDE DEF stale
<1>5. \A f \in Engine : /\ Messages(outputs[f]) \subseteq Messages(outputs'[f])
                        /\ \A n \in Messages(outputs'[f]) :
                             n \in Messages(outputs[f]) \/ (n = Notice("start", W) /\ f = e /\ stale)
  BY <1>4
<1>6. \A f \in Engine : (Awake(f) => Awake(f)') /\ (Awake(f)' => Awake(f) \/ f = e)
  <2>1. \A f \in Engine : /\ Unfinished(f) \subseteq Unfinished(f)'
                          /\ Unfinished(f)' # {} => Unfinished(f) # {} \/ f = e
    BY <1>1, Typed DEF Unfinished
  <2> QED
    BY <1>1, <2>1 DEF Awake, HasWork
<1>7. Awake(e)'
  <2>1. r \in Unfinished(e)'
    BY <1>1, Typed DEF Unfinished
  <2> QED
    BY <2>1 DEF Awake, HasWork
<1>8. /\ StartAsked => StartAsked'
      /\ WakeUpPending => WakeUpPending'
      /\ stale => StartAsked'
  <2>1. (StartAsked => StartAsked') /\ (stale => StartAsked')
    BY <1>3, <1>4, <1>5 DEF StartAsked
  <2> QED
    BY <1>1, <2>1 DEF WakeUpPending
<1>9. WavesBounded'
  <2>1. ASSUME NEW f \in Engine, NEW n \in Messages(outputs'[f])
        PROVE  n.wave <= W /\ (n.type = "complete" => n.wave < W)
    <3>1. CASE n = Notice("start", W)
      BY <1>2, <3>1 DEF Notice
    <3>2. CASE n # Notice("start", W)
      BY <1>5, <2>1, <3>2 DEF WaveInv, WavesBounded
    <3> QED
      BY <3>1, <3>2
  <2> QED
    BY <1>1, <1>3, <2>1 DEF WaveInv, WavesBounded
<1>10. CompleteAnnounced' /\ OnlyIfRunning'
  BY <1>1, <1>3, <1>5, Typed DEF WaveInv, CompleteAnnounced, OnlyIfRunning
<1>11. AskedAwake'
  <2>1. ASSUME NEW f \in Engine, Notice("start", W) \in Messages(outputs'[f]) PROVE f \in asked'
    BY <1>1, <1>5, <2>1 DEF WaveInv, AskedAwake
  <2>2. ASSUME NEW f \in asked' PROVE withdrawn' \/ Awake(f)'
    BY <1>1, <1>6, <1>7, <2>2, Typed DEF WaveInv, AskedAwake
  <2> QED
    BY <1>3, <2>1, <2>2 DEF AskedAwake
<1>12. AllStarted'
  BY <1>1, <1>3 DEF WaveInv, AllStarted, StartPending
<1>13. RunAnnounced'
  <2>1. running[e] => Awake(e)
    BY DEF Awake, HasWork
  <2>2. ASSUME coord.wave < W PROVE StartAsked'
    <3>1. stale \/ running[e]
      BY <1>2, <1>4, <2>2
    <3> QED
      BY <1>8, <2>1, <2>2, <3>1 DEF WaveInv, RunAnnounced
  <2>3. ASSUME coord.wave = W, ~coord.running PROVE WakeUpPending'
    <3>1. stale \/ running[e] \/ sentWave[r] = W
      BY <1>2, <1>4
    <3>2. CASE stale
      BY <1>8, <3>2 DEF WakeUpPending
    <3>3. CASE running[e] \/ sentWave[r] = W
      <4>1. WaveUsed
        BY <1>1, <2>1, <3>3 DEF WaveUsed
      <4> QED
        BY <1>8, <2>3, <4>1 DEF WaveInv, RunAnnounced
    <3> QED
      BY <3>1, <3>2, <3>3
  <2> QED
    BY <1>1, <1>3, <2>2, <2>3 DEF RunAnnounced
<1> QED
  BY <1>9, <1>10, <1>11, <1>12, <1>13 DEF WaveInv

\* An engine takes START_DP_WAVE. It joins only a wave that the coordinator started.
LEMMA StartWaveWaves ==
  ASSUME TypeInv, WaveInv, NEW e \in Engine, StartWave(e)
  PROVE  WaveInv'
<1>1. PICK m : m = Head(starts[e])
  OBVIOUS
<1>. DEFINE join == m.exclude # e /\ m.wave >= wave[e]
<1>2. /\ UNCHANGED <<pc, place, target, sentWave, coord, view, first, front, outputs, published, asked, withdrawn>>
      /\ starts[e] # <<>> /\ starts' = [starts EXCEPT ![e] = Tail(@)]
      /\ wave' = [wave EXCEPT ![e] = IF join THEN m.wave ELSE @]
      /\ running' = [running EXCEPT ![e] = @ \/ join]
  BY <1>1 DEF StartWave, requests, history
<1>3. /\ m \in Messages(starts[e]) /\ m \in StartMessage
      /\ \A f \in Engine : /\ Messages(starts'[f]) \subseteq Messages(starts[f])
                           /\ \A n \in Messages(starts[f]) : n \in Messages(starts'[f]) \/ (n = m /\ f = e)
  <2>1. /\ m \in Messages(starts[e]) /\ Messages(starts[e]) = Messages(Tail(starts[e])) \union {m}
    BY <1>1, <1>2, Typed, MessagesOf
  <2>2. \A f \in Engine : starts'[f] = IF f = e THEN Tail(starts[e]) ELSE starts[f]
    BY <1>2, Typed
  <2>3. m \in StartMessage
    BY <2>1, WaveTypes
  <2> QED
    BY <2>1, <2>2, <2>3
<1>4. /\ W \in Nat /\ coord.wave \in Nat /\ coord.wave <= W /\ wave[e] = W
      /\ m.wave \in Nat /\ m.wave <= coord.wave
  BY <1>3, WaveTypes DEF WaveInv, WavesBounded, StartMessage
<1>5. join => m.wave = W /\ coord.wave = W /\ coord.running
  <2>1. join => m.wave = W /\ coord.wave = W
    BY <1>4
  <2> QED
    BY <1>3, <2>1 DEF WaveInv, OnlyIfRunning
<1>6. m.wave = W /\ m.exclude # e => join
  BY <1>4
<1>7. wave' = wave /\ W' = W
  <2>1. wave' = wave
    BY <1>2, <1>4, <1>5, Typed
  <2> QED
    BY <2>1 DEF W
<1> HIDE DEF join
<1>8. StartAsked' = StartAsked /\ WakeUpPending' = WakeUpPending
  BY <1>2, <1>7 DEF StartAsked, WakeUpPending
<1>9. /\ \A f \in Engine : running'[f] = (running[f] \/ (f = e /\ join))
  BY <1>2, Typed
<1>10. \A f \in Engine : (Awake(f) => Awake(f)') /\ (Awake(f)' => Awake(f) \/ join)
  BY <1>2, <1>9 DEF Awake, HasWork, Unfinished
<1>11. WavesBounded' /\ OnlyIfRunning'
  BY <1>2, <1>3, <1>7 DEF WaveInv, WavesBounded, OnlyIfRunning
<1>12. CompleteAnnounced'
  BY <1>2, <1>7 DEF WaveInv, CompleteAnnounced
<1>13. AskedAwake'
  BY <1>2, <1>7, <1>10, Typed DEF WaveInv, AskedAwake
<1>14. AllStarted'
  <2>1. ASSUME NEW f \in Engine, StartPending(f) PROVE running'[f] \/ StartPending(f)'
    <3>1. PICK n \in Messages(starts[f]) : n.wave = W /\ n.exclude # f
      BY <2>1 DEF StartPending
    <3>2. CASE n = m /\ f = e
      BY <1>6, <1>9, <3>1, <3>2
    <3>3. CASE n \in Messages(starts'[f])
      BY <1>7, <3>1, <3>3 DEF StartPending
    <3> QED
      BY <1>3, <3>2, <3>3
  <2> QED
    BY <1>2, <1>7, <1>9, <2>1 DEF WaveInv, AllStarted
<1>15. RunAnnounced'
  <2>1. CASE join
    BY <1>2, <1>4, <1>5, <1>7, <2>1 DEF RunAnnounced
  <2>2. CASE ~join
    BY <1>2, <1>7, <1>8, <1>10, <2>2 DEF WaveInv, RunAnnounced, WaveUsed
  <2> QED
    BY <2>1, <2>2
<1> QED
  BY <1>11, <1>12, <1>13, <1>14, <1>15 DEF WaveInv

\* The engines pause: the coordinator lags behind until it has read the report.
LEMMA PauseWaves ==
  ASSUME TypeInv, WaveInv, Pause
  PROVE  WaveInv'
<1>1. /\ UNCHANGED <<place, target, sentWave, coord, view, first, front, starts, published, withdrawn>>
      /\ \A e \in Engine : Unfinished(e) = {}
      /\ running' = [e \in Engine |-> FALSE] /\ pc' = [e \in Engine |-> "loop"]
      /\ wave' = [e \in Engine |-> wave[e] + 1]
      /\ outputs' = [outputs EXCEPT ![0] = Append(@, Notice("complete", wave[0]))]
      /\ asked' = {}
  BY DEF Pause, requests
<1>2. 0 \in Engine /\ W \in Nat /\ coord.wave \in Nat /\ coord.wave <= W
  BY Typed, WaveTypes DEF WaveInv, WavesBounded
<1>3. W' = W + 1 /\ \A e \in Engine : wave'[e] = W + 1
  BY <1>1, <1>2 DEF W, WaveInv, WavesBounded
<1>4. W < W + 1 /\ coord.wave < W + 1 /\ (W + 1) - 1 = W
  BY <1>2
<1>5. /\ Messages(outputs'[0]) = Messages(outputs[0]) \union {Notice("complete", W)}
      /\ \A e \in Engine : e # 0 => outputs'[e] = outputs[e]
  <2>1. Notice("complete", W) \in EngineNotice
    BY <1>2 DEF Notice, EngineNotice
  <2>2. outputs[0] \in Seq(EngineNotice)
    BY <1>2, Typed
  <2>3. Messages(Append(outputs[0], Notice("complete", W))) = Messages(outputs[0]) \union {Notice("complete", W)}
    BY <2>1, <2>2, MessagesOf
  <2> QED
    BY <1>1, <2>3, Typed DEF W
<1>6. ASSUME NEW e \in Engine, NEW n \in Messages(outputs'[e])
      PROVE  n = Notice("complete", W) \/ (n.wave \in Nat /\ n.wave <= W)
  <2>1. n = Notice("complete", W) \/ n \in Messages(outputs[e])
    BY <1>5, <1>6
  <2> QED
    BY <2>1, WaveTypes DEF EngineNotice, WaveInv, WavesBounded
<1>7. \A e \in Engine : ~Awake(e)'
  BY <1>1 DEF Awake, HasWork, Unfinished
<1>8. WavesBounded'
  <2>1. ASSUME NEW e \in Engine, NEW n \in Messages(outputs'[e])
        PROVE  n.wave <= W + 1 /\ (n.type = "complete" => n.wave < W + 1)
    <3>1. n.wave \in Nat /\ n.wave <= W
      BY <1>2, <1>6, <2>1 DEF Notice
    <3> QED
      BY <1>2, <3>1
  <2>2. coord.wave <= W + 1
    BY <1>2
  <2> QED
    BY <1>1, <1>3, <2>1, <2>2 DEF WaveInv, WavesBounded
<1>9. CompleteAnnounced'
  BY <1>3, <1>4, <1>5 DEF CompleteAnnounced
<1>10. OnlyIfRunning'
  <2>1. ASSUME NEW c \in Client, NEW n \in Messages(published[c]) PROVE n.wave # W + 1
    <3>1. n.wave \in Nat /\ n.wave <= coord.wave
      BY <2>1, WaveTypes DEF WaveInv, WavesBounded, State
    <3> QED
      BY <1>2, <3>1
  <2>2. ASSUME NEW e \in Engine, NEW n \in Messages(starts[e]) PROVE n.wave # W + 1
    <3>1. n.wave \in Nat /\ n.wave <= coord.wave
      BY <2>2, WaveTypes DEF WaveInv, WavesBounded, StartMessage
    <3> QED
      BY <1>2, <3>1
  <2> QED
    BY <1>1, <1>3, <2>1, <2>2 DEF OnlyIfRunning
<1>11. coord'.wave # W'
  BY <1>1, <1>2, <1>3
<1>12. RunAnnounced' /\ AllStarted'
  BY <1>7, <1>11 DEF RunAnnounced, AllStarted
<1>13. AskedAwake'
  <2>1. ASSUME NEW e \in Engine PROVE Notice("start", W + 1) \notin Messages(outputs'[e])
    <3>1. Notice("start", W + 1) # Notice("complete", W) /\ Notice("start", W + 1).wave = W + 1
      BY DEF Notice
    <3>2. ~(W + 1 <= W)
      BY <1>2
    <3> QED
      BY <1>6, <3>1, <3>2
  <2> QED
    BY <1>1, <1>3, <2>1 DEF AskedAwake
<1> QED
  BY <1>8, <1>9, <1>10, <1>12, <1>13 DEF WaveInv

\* An abort: an engine that asked for a start and sleeps again is recorded.
LEMMA AbortRequestWaves ==
  ASSUME TypeInv, WaveInv, NEW e \in Engine, NEW r \in Request, AbortRequest(e, r)
  PROVE  WaveInv'
<1>1. /\ UNCHANGED <<wave, running, pc, coord, view, channels, asked>>
      /\ r \in Unfinished(e) /\ pc[e] \in {"loop", "forward"}
      /\ withdrawn' = (withdrawn \/ (pc[e] = "loop" /\ ~running[e] /\ Unfinished(e) = {r} /\ e \in asked))
      /\ place' = [s \in Request |-> IF s = r THEN "done" ELSE place[s]]
      /\ sentWave' = [s \in Request |-> IF s = r THEN 0 ELSE sentWave[s]]
      /\ target' = [s \in Request |-> IF s = r THEN 0 ELSE target[s]]
  BY DEF AbortRequest, Finish, engines
<1>2. \A f \in Engine : Unfinished(f)' = Unfinished(f) \ {r}
  BY <1>1 DEF Unfinished
<1>3. \A f \in Engine : f # e => r \notin Unfinished(f)
  BY <1>1 DEF Unfinished
<1>4. \A f \in Engine : Awake(f)' => Awake(f)
  BY <1>1, <1>2 DEF Awake, HasWork
<1>5. ASSUME NEW f \in asked, Awake(f) PROVE withdrawn' \/ Awake(f)'
  <2>1. f \in Engine
    BY <1>5, Typed
  <2>2. CASE f # e
    BY <1>1, <1>2, <1>3, <1>5, <2>1, <2>2 DEF Awake, HasWork
  <2>3. CASE f = e /\ Unfinished(e) = {r}
    BY <1>1, <1>5, <2>3, Typed DEF Awake, HasWork
  <2>4. CASE f = e /\ Unfinished(e) # {r}
    <3>1. Unfinished(e)' # {}
      BY <1>1, <1>2, <2>4
    <3> QED
      BY <2>4, <3>1 DEF Awake, HasWork
  <2> QED
    BY <2>2, <2>3, <2>4
<1>6. \A s \in Request : /\ sentWave'[s] \in {0, sentWave[s]}
                         /\ place'[s] = "sent" => place[s] = "sent" /\ sentWave'[s] = sentWave[s]
  BY <1>1
<1>7. withdrawn => withdrawn'
  BY <1>1
<1> QED
  BY <1>1, <1>4, <1>5, <1>6, <1>7, EnginesAlone

\* Every step keeps the invariant.
LEMMA NextWaves == TypeInv /\ WaveInv /\ [Next]_vars => WaveInv'
<1> SUFFICES ASSUME TypeInv, WaveInv, [Next]_vars PROVE WaveInv'
  OBVIOUS
<1>1. ASSUME NEW e \in Engine, BeginStep(e) PROVE WaveInv'
  <2>1. /\ UNCHANGED <<wave, running, place, target, sentWave, coord, view, channels, asked, withdrawn>>
        /\ HasWork(e) /\ pc' = [pc EXCEPT ![e] = "forward"]
    BY <1>1 DEF BeginStep, requests, history
  <2>2. \A f \in Engine : Awake(f)' = Awake(f)
    BY <2>1, Typed DEF Awake, HasWork, Unfinished
  <2> QED
    BY <2>1, <2>2, Typed, EnginesAlone
<1>2. CASE Forward
  <2>1. /\ UNCHANGED <<wave, coord, view, channels, asked, withdrawn>>
        /\ \A e \in Engine : pc[e] = "forward"
        /\ Finish({r \in Request : place[r] = "local" /\ left[r] = 1})
        /\ running' = [e \in Engine |-> running[e] \/ NextStep(e) # 0]
        /\ pc' = [e \in Engine |-> IF NextStep(e) = 0 THEN "reduce" ELSE "loop"]
    BY <1>2 DEF Forward, history
  <2>2. \A r \in Request : /\ sentWave'[r] \in {0, sentWave[r]}
                           /\ place'[r] = "sent" => place[r] = "sent" /\ sentWave'[r] = sentWave[r]
    BY <2>1 DEF Finish
  <2>3. \A e \in Engine : Awake(e) /\ Awake(e)'
    BY <2>1 DEF Awake, HasWork
  <2>4. \A e \in Engine : running[e] => running'[e]
    BY <2>1
  <2> QED
    BY <2>1, <2>2, <2>3, <2>4, Typed, EnginesAlone
<1>3. CASE GoOn
  <2>1. /\ UNCHANGED <<wave, place, target, sentWave, coord, view, channels, asked, withdrawn>>
        /\ \A e \in Engine : pc[e] = "reduce"
        /\ running' = [e \in Engine |-> TRUE]
    BY <1>3 DEF GoOn, requests, history
  <2>2. \A e \in Engine : Awake(e) /\ Awake(e)'
    BY <2>1 DEF Awake, HasWork
  <2> QED
    BY <2>1, <2>2, Typed, EnginesAlone
<1>4. CASE UNCHANGED vars
  <2>1. UNCHANGED <<wave, running, pc, place, target, sentWave, coord, view, channels, asked, withdrawn>>
    BY <1>4 DEF vars, engines, requests, history
  <2>2. \A e \in Engine : Awake(e)' = Awake(e)
    BY <2>1 DEF Awake, HasWork, Unfinished
  <2> QED
    BY <2>1, <2>2, Typed, EnginesAlone
<1> QED
  BY <1>1, <1>2, <1>3, <1>4, SendRequestWaves, ForwardFirstWaves, ReceivePublishedWaves,
     PublishStatsWaves, StartForFrontWaves, HandleOutputsWaves, AddRequestWaves,
     StartWaveWaves, PauseWaves, AbortRequestWaves DEF Next, EngineStep, FrontStep

\* Whatever crosses on its way, once nothing is on its way the coordinator knows
\* the wave and whether the engines run, and they all run or all pause.
THEOREM CoordinatorAlwaysAgrees == Spec => []CoordinatorAgrees
<1>1. Init => TypeInv /\ WaveInv
  BY InitTyped, InitWaves
<1>2. (TypeInv /\ WaveInv) /\ [Next]_vars => (TypeInv /\ WaveInv)'
  BY NextTyped, NextWaves
<1> QED
  BY <1>1, <1>2, WaveInvAgrees, PTL DEF Spec
=============================================================================
