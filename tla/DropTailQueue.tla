--------------------------- MODULE DropTailQueue ---------------------------
(***************************************************************************)
(* What a ring between an interrupt and the main loop promises: a queue    *)
(* that is first in, first out, and that drops what arrives while it is    *)
(* full, and only then.                                                    *)
(***************************************************************************)
EXTENDS Naturals, Sequences

CONSTANTS
  Items,      \* what is queued
  Nothing,    \* no item
  Capacity    \* how many of them at once

VARIABLES
  queue,      \* the items waiting, oldest first
  got,        \* the item taken last
  kept        \* the last item that arrived found room

queueVars == <<queue, got, kept>>

QueueInit == queue = <<>> /\ got = Nothing /\ kept = TRUE

Put(x) ==
  /\ kept' = (Len(queue) < Capacity)
  /\ queue' = IF kept' THEN Append(queue, x) ELSE queue
  /\ UNCHANGED got

TakeFirst ==
  /\ queue # <<>>
  /\ got' = Head(queue)
  /\ queue' = Tail(queue)
  /\ UNCHANGED kept

QueueNext == (\E x \in Items : Put(x)) \/ TakeFirst

QueueSpec == QueueInit /\ [][QueueNext]_queueVars
=============================================================================
