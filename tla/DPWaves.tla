------------------------------ MODULE DPWaves ------------------------------
(***************************************************************************)
(* Data-parallel engines, their coordinator and the front ends.            *)
(*                                                                         *)
(* The engines of a mixture-of-experts model run every forward pass        *)
(* together: an engine without requests runs a dummy batch. Every          *)
(* SyncPeriod steps an all-reduce finds out whether any engine has work    *)
(* left; if none has, all pause and a "wave" of requests is complete. A    *)
(* request that arrives while the engines are paused must wake all of      *)
(* them, or its engine waits in the forward pass for ever. The wake-up is  *)
(* the coordinator's job (engine/coordinator.py); a front end tells it     *)
(* when it believes the engines to be paused, and an engine when it        *)
(* receives a request of a wave that is over. All of them act on what they *)
(* heard last.                                                             *)
(***************************************************************************)
EXTENDS Integers, Sequences

CONSTANTS NumEngines,
          Client,         \* the front ends
          Request,        \* bound: each request is sent once
          Length,         \* Length[r]: number of steps request r needs
          Abortable,      \* bound: the requests a client may abort
          SyncPeriod      \* steps between two all-reduces (32)

ASSUME WaveAssumption ==
  /\ NumEngines \in Nat \ {0, 1}
  /\ Length \in [Request -> Nat \ {0}]
  /\ Abortable \subseteq Request
  /\ SyncPeriod \in Nat \ {0}

Engine == 0 .. NumEngines - 1

VARIABLES
  wave, running, step, pc,\* the engines: current_wave, engines_running,
                          \* step_counter modulo SyncPeriod, place in the loop
  place, left, sentWave,  \* the requests: where, steps left, wave when sent
  target,                 \* and the engine it was sent to
  coord,                  \* current_wave and engines_running of the coordinator
  view,                   \* view[c]: the same as front end c knows them
  first,                  \* first[c]: FIRST_REQ notices waiting for the stats task
  front,                  \* front[c]: notices on their way to the coordinator
  outputs,                \* outputs[e]: notices of engine e on their way to it
  starts,                 \* starts[e]: START_DP_WAVE messages on their way to e
  published,              \* published[c]: states on their way to front end c
  asked,                  \* history: the engines that asked for a start of this wave
  withdrawn               \* history: see AbortRequest

engines == <<wave, running, step, pc>>
requests == <<place, left, sentWave, target>>
channels == <<first, front, outputs, starts, published>>
history == <<asked, withdrawn>>
vars == <<engines, requests, coord, view, channels, history>>

Init ==
  /\ wave = [e \in Engine |-> 0]
  /\ running = [e \in Engine |-> FALSE]
  /\ step = [e \in Engine |-> 0]
  /\ pc = [e \in Engine |-> "loop"]
  /\ place = [r \in Request |-> "new"]
  /\ left = Length
  /\ sentWave = [r \in Request |-> 0]
  /\ target = [r \in Request |-> 0]
  /\ coord = [wave |-> 0, running |-> FALSE]
  /\ view = [c \in Client |-> [wave |-> 0, running |-> FALSE]]
  /\ first = [c \in Client |-> <<>>]
  /\ front = [c \in Client |-> <<>>]
  /\ outputs = [e \in Engine |-> <<>>]
  /\ starts = [e \in Engine |-> <<>>]
  /\ published = [c \in Client |-> <<>>]
  /\ asked = {}
  /\ withdrawn = FALSE

\* The requests the scheduler of engine e has not finished.
Unfinished(e) == {r \in Request : place[r] = "local" /\ target[r] = e}

HasWork(e) == running[e] \/ Unfinished(e) # {}

-----------------------------------------------------------------------------
(* The front ends                                                          *)

\* Any engine may be the least loaded one. The client is under the impression of
\* its view; the stats task hears of the request only if the engines seem paused.
SendRequest(c, r, e) ==
  /\ place[r] = "new"
  /\ place' = [place EXCEPT ![r] = "sent"]
  /\ target' = [target EXCEPT ![r] = e]
  /\ sentWave' = [sentWave EXCEPT ![r] = view[c].wave]
  /\ first' = IF view[c].running THEN first ELSE [first EXCEPT ![c] = Append(@, e)]
  /\ UNCHANGED <<engines, left, coord, view, front, outputs, starts, published, history>>

ForwardFirst(c) ==
  /\ first[c] # <<>>
  /\ first' = [first EXCEPT ![c] = Tail(@)]
  /\ view' = [view EXCEPT ![c].running = TRUE]
  /\ front' = [front EXCEPT ![c] = Append(@, [engine |-> Head(first[c]), wave |-> view[c].wave])]
  /\ UNCHANGED <<engines, requests, coord, outputs, starts, published, history>>

ReceivePublished(c) ==
  /\ published[c] # <<>>
  /\ published' = [published EXCEPT ![c] = Tail(@)]
  /\ view' = [view EXCEPT ![c] = Head(published[c])]
  /\ UNCHANGED <<engines, requests, coord, first, front, outputs, starts, history>>

-----------------------------------------------------------------------------
(* The coordinator                                                         *)

\* An engine is told apart by its index, but a front end names it by the identity
\* of its socket, which is never equal to an index.
NoEngine == -1

Identity(e) == NumEngines + e

SendStartWave(w, exclude) ==
  starts' = [e \in Engine |-> Append(starts[e], [wave |-> w, exclude |-> exclude])]

Publish(state) == published' = [c \in Client |-> Append(published[c], state)]

\* A front end has sent a request while it believed the engines to be paused.
StartForFront(c) ==
  LET m == Head(front[c])
      exclude == IF m.wave < coord.wave THEN NoEngine ELSE Identity(m.engine)
  IN  /\ front[c] # <<>>
      /\ front' = [front EXCEPT ![c] = Tail(@)]
      /\ IF coord.running THEN UNCHANGED <<coord, starts, published>>
         ELSE /\ coord' = [coord EXCEPT !.running = TRUE]
              /\ SendStartWave(coord.wave, exclude)
              /\ Publish(coord')
      /\ UNCHANGED <<engines, requests, view, first, outputs, history>>

\* Mutant: a report that comes late is applied as well.
CompletesAnyWave(m) == m.type = "complete"

\* Rank 0 reports that the engines have paused.
CompletesWave(m) == m.type = "complete" /\ coord.wave <= m.wave

\* Mutant: a start is refused while the last wave is not known to be complete.
StartsKnownWave(m) == m.type = "start" /\ m.wave = coord.wave /\ ~coord.running

\* An engine has received a request of a wave that is over.
StartsWave(m) ==
  /\ m.type = "start"
  /\ m.wave > coord.wave \/ (m.wave = coord.wave /\ ~coord.running)

HandleOutputs(e) ==
  LET m == Head(outputs[e])
  IN  /\ outputs[e] # <<>>
      /\ outputs' = [outputs EXCEPT ![e] = Tail(@)]
      /\ \/ /\ CompletesWave(m)
            /\ coord' = [wave |-> m.wave + 1, running |-> FALSE]
            /\ Publish(coord')
            /\ UNCHANGED starts
         \/ /\ StartsWave(m)
            /\ coord' = [wave |-> m.wave, running |-> TRUE]
            /\ SendStartWave(m.wave, e)
            /\ Publish(coord')
         \/ /\ ~CompletesWave(m) /\ ~StartsWave(m)
            /\ UNCHANGED <<coord, starts, published>>
      /\ UNCHANGED <<engines, requests, view, first, front, history>>

\* The periodic statistics repeat the state. Bound: one copy on its way, and only
\* while a request is left that a front end may send.
PublishStats ==
  /\ \E r \in Request : place[r] = "new"
  /\ \A c \in Client : published[c] = <<>>
  /\ Publish(coord)
  /\ UNCHANGED <<engines, requests, coord, view, first, front, outputs, starts, history>>

-----------------------------------------------------------------------------
(* The engines                                                             *)

Notice(type, w) == [type |-> type, wave |-> w]

AddRequest(e, r) ==
  LET stale == sentWave[r] < wave[e] /\ ~running[e]
  IN  /\ pc[e] = "loop" /\ place[r] = "sent" /\ target[r] = e
      /\ place' = [place EXCEPT ![r] = "local"]
      /\ wave' = [wave EXCEPT ![e] = IF sentWave[r] > @ THEN sentWave[r] ELSE @]
      /\ outputs' = IF stale THEN [outputs EXCEPT ![e] = Append(@, Notice("start", wave[e]))]
                    ELSE outputs
      /\ asked' = IF stale THEN asked \union {e} ELSE asked
      /\ UNCHANGED <<running, step, pc, left, sentWave, target, coord, view,
                     first, front, starts, published, withdrawn>>

\* The requests are answered; what is known of them is forgotten.
Finish(R) ==
  /\ place' = [r \in Request |-> IF r \in R THEN "done" ELSE place[r]]
  /\ sentWave' = [r \in Request |-> IF r \in R THEN 0 ELSE sentWave[r]]
  /\ target' = [r \in Request |-> IF r \in R THEN 0 ELSE target[r]]

\* The client gives the request up. The abort follows the request through the same
\* socket and has no effect before it is handled: with the input, or eagerly at
\* the end of a step (an abort in the forward pass stands for that). withdrawn
\* records that a paused engine which asked for a start lost its last request: the
\* coordinator leaves it out of START_DP_WAVE and the others wait for it.
AbortRequest(e, r) ==
  /\ pc[e] \in {"loop", "forward"} /\ r \in Unfinished(e) /\ r \in Abortable
  /\ Finish({r})
  /\ withdrawn' = \/ withdrawn
                  \/ /\ pc[e] = "loop" /\ ~running[e]
                     /\ Unfinished(e) = {r} /\ e \in asked
  /\ UNCHANGED <<engines, left, coord, view, channels, asked>>

StartWave(e) ==
  LET m == Head(starts[e])
      join == m.exclude # e /\ m.wave >= wave[e]
  IN  /\ pc[e] = "loop" /\ starts[e] # <<>>
      /\ starts' = [starts EXCEPT ![e] = Tail(@)]
      /\ wave' = [wave EXCEPT ![e] = IF join THEN m.wave ELSE @]
      /\ running' = [running EXCEPT ![e] = @ \/ join]
      /\ UNCHANGED <<step, pc, requests, coord, view, first, front, outputs, published, history>>

\* The engine begins a step, with its requests or with a dummy batch.
BeginStep(e) ==
  /\ pc[e] = "loop" /\ HasWork(e)
  /\ pc' = [pc EXCEPT ![e] = "forward"]
  /\ UNCHANGED <<wave, running, step, requests, coord, view, channels, history>>

\* Mutant: an engine without requests of its own does not count its steps.
NextStepOfBusy(e) == IF Unfinished(e) = {} THEN step[e] ELSE (step[e] + 1) % SyncPeriod

\* Mutant: the counter goes on past the all-reduce.
NextStepUnbounded(e) == step[e] + 1

NextStep(e) == (step[e] + 1) % SyncPeriod

\* The forward pass is collective. What an engine does between the pass and its
\* next look at the input queue is its own affair and part of the same action:
\* every request has come one step further, and the step is counted.
Forward ==
  /\ \A e \in Engine : pc[e] = "forward"
  /\ left' = [r \in Request |-> IF place[r] = "local" THEN left[r] - 1 ELSE left[r]]
  /\ Finish({r \in Request : place[r] = "local" /\ left[r] = 1})
  /\ step' = [e \in Engine |-> NextStep(e)]
  /\ running' = [e \in Engine |-> running[e] \/ NextStep(e) # 0]
  /\ pc' = [e \in Engine |-> IF NextStep(e) = 0 THEN "reduce" ELSE "loop"]
  /\ UNCHANGED <<wave, coord, view, channels, history>>

GoOn ==
  /\ \A e \in Engine : pc[e] = "reduce"
  /\ \E e \in Engine : Unfinished(e) # {}
  /\ running' = [e \in Engine |-> TRUE]
  /\ pc' = [e \in Engine |-> "loop"]
  /\ UNCHANGED <<wave, step, requests, coord, view, channels, history>>

\* has_unfinished_dp finds no work: all engines pause, rank 0 reports it.
Pause ==
  /\ \A e \in Engine : pc[e] = "reduce"
  /\ \A e \in Engine : Unfinished(e) = {}
  /\ running' = [e \in Engine |-> FALSE]
  /\ pc' = [e \in Engine |-> "loop"]
  /\ wave' = [e \in Engine |-> wave[e] + 1]
  /\ step' = [e \in Engine |-> 0]
  /\ outputs' = [outputs EXCEPT ![0] = Append(@, Notice("complete", wave[0]))]
  /\ asked' = {}
  /\ UNCHANGED <<requests, coord, view, first, front, starts, published, withdrawn>>

-----------------------------------------------------------------------------
EngineStep(e) ==
  \/ BeginStep(e) \/ StartWave(e)
  \/ \E r \in Request : AddRequest(e, r) \/ AbortRequest(e, r)

FrontStep(c) == ForwardFirst(c) \/ ReceivePublished(c)

Next ==
  \/ \E c \in Client, r \in Request, e \in Engine : SendRequest(c, r, e)
  \/ \E c \in Client : FrontStep(c) \/ StartForFront(c)
  \/ \E e \in Engine : EngineStep(e) \/ HandleOutputs(e)
  \/ Forward \/ GoOn \/ Pause \/ PublishStats

Spec == Init /\ [][Next]_vars

\* Every process serves its sockets and goes on with its loop, a collective ends
\* when all have entered it. No client has to send or to abort anything.
Fairness ==
  /\ \A e \in Engine : /\ WF_vars(BeginStep(e)) /\ SF_vars(StartWave(e))
                       /\ SF_vars(\E r \in Request : AddRequest(e, r))
                       /\ WF_vars(HandleOutputs(e))
  /\ \A c \in Client : /\ WF_vars(ForwardFirst(c)) /\ WF_vars(ReceivePublished(c))
                       /\ WF_vars(StartForFront(c))
  /\ WF_vars(Forward) /\ WF_vars(GoOn \/ Pause)

FairSpec == Spec /\ Fairness

-----------------------------------------------------------------------------
(* Properties                                                              *)

State == [wave : Nat, running : BOOLEAN]

\* The type of the state.
TypeOK ==
  /\ wave \in [Engine -> Nat]
  /\ running \in [Engine -> BOOLEAN]
  /\ step \in [Engine -> 0 .. SyncPeriod - 1]
  /\ pc \in [Engine -> {"loop", "forward", "reduce"}]
  /\ place \in [Request -> {"new", "sent", "local", "done"}]
  /\ left \in [Request -> Nat]
  /\ sentWave \in [Request -> Nat]
  /\ target \in [Request -> Engine]
  /\ coord \in State
  /\ view \in [Client -> State]
  /\ first \in [Client -> Seq(Engine)]
  /\ front \in [Client -> Seq([engine : Engine, wave : Nat])]
  /\ outputs \in [Engine -> Seq([type : {"start", "complete"}, wave : Nat])]
  /\ starts \in [Engine -> Seq([wave : Nat, exclude : Int])]
  /\ published \in [Client -> Seq(State)]
  /\ asked \subseteq Engine
  /\ withdrawn \in BOOLEAN

\* Nothing is on its way that could wake an engine or change the coordinator.
Quiet ==
  /\ \A c \in Client : first[c] = <<>> /\ front[c] = <<>>
  /\ \A e \in Engine : starts[e] = <<>> /\ outputs[e] = <<>>
  /\ \A r \in Request : place[r] # "sent"

Awake(e) == pc[e] # "loop" \/ HasWork(e)

\* Once nothing is on its way, the engines take all part in the steps or none,
\* and the coordinator knows which wave they are in and whether they run: it
\* neither sleeps through a wave nor holds back a start because it believes in
\* one that is over. An engine that asked for a start and then lost its requests
\* to aborts is the exception (AbortRequest).
CoordinatorAgrees ==
  Quiet /\ ~withdrawn => \A e \in Engine : coord = [wave |-> wave[e], running |-> Awake(e)]

\* Engines never meet in different collectives: the step counters agree, although
\* engines join a wave at different times and through different messages.
SameCollective == \A e, f \in Engine : ~(pc[e] = "forward" /\ pc[f] = "reduce")

\* A request is served although it may arrive while the engines pause, with the
\* number of a wave that is over, or behind the back of the coordinator.
EveryRequestServed ==
  []<>(withdrawn \/ \A r \in Request : place[r] \in {"new", "done"})
=============================================================================
