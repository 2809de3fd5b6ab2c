--------------------------- MODULE BroadcastQueue ---------------------------
(***************************************************************************)
(* What a MessageQueue promises its callers: one process enqueues, every   *)
(* reader dequeues every message once and in order, and no local reader    *)
(* is ever more than Capacity messages behind.                             *)
(***************************************************************************)
EXTENDS Naturals, Sequences

CONSTANTS Local,          \* readers on the node of the writer
          Remote,         \* readers behind a socket
          Message,
          Capacity

VARIABLES log,            \* the messages enqueued
          got             \* got[p]: the messages reader p has dequeued

BQvars == <<log, got>>

BQInit == log = <<>> /\ got = [p \in Local \cup Remote |-> <<>>]

Enqueue(m) ==
  /\ \A p \in Local : Len(log) - Len(got[p]) < Capacity
  /\ log' = Append(log, m)
  /\ UNCHANGED got

Dequeue(p) ==
  /\ Len(got[p]) < Len(log)
  /\ got' = [got EXCEPT ![p] = Append(@, log[Len(@) + 1])]
  /\ UNCHANGED log

BQNext == (\E m \in Message : Enqueue(m)) \/ (\E p \in Local \cup Remote : Dequeue(p))

BQSpec == BQInit /\ [][BQNext]_BQvars
=============================================================================
