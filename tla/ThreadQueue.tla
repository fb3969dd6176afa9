------------------------------ MODULE ThreadQueue ------------------------------
(***************************************************************************)
(* The queue between the thread that runs a command and the muxer thread   *)
(* (thread_queue.c): a bounded FIFO of packets of several streams, each of *)
(* which either side can finish.  One sender and one receiver.             *)
(*                                                                         *)
(* Every function runs under the lock of the queue, so each is an operator *)
(* that takes a queue and gives the next one.  pthread_cond_wait puts a    *)
(* side to sleep until the other broadcasts; it then tries again.          *)
(***************************************************************************)
EXTENDS Naturals, Sequences

CONSTANTS
  NStreams,     \* nb_streams
  QueueSize     \* queue_size

ASSUME ThreadQueueAssumption ==
  /\ NStreams \in Nat \ {0}
  /\ QueueSize \in Nat \ {0}

Streams == 1..NStreams

(* Packets are numbered; no packet stands for the end of its stream. *)
NULL == 0
Items == [ost: Streams, pkt: Nat]
Sides == {"sender", "receiver"}

Queues == [fifo: Seq(Items), sendFinished: SUBSET Streams, recvFinished: SUBSET Streams,
           asleep: SUBSET Sides]

First(S) == CHOOSE s \in S : \A t \in S : s <= t

Sleep(q, side) == [q EXCEPT !.asleep = q.asleep \union {side}]
Broadcast(q) == [q EXCEPT !.asleep = {}]

tq_alloc == [fifo |-> <<>>, sendFinished |-> {}, recvFinished |-> {}, asleep |-> {}]

tq_send_finish(q, s) == Broadcast([q EXCEPT !.sendFinished = q.sendFinished \union {s}])

(* Fault: the other side is not told. *)
quietReceiveFinish(q, s) == [q EXCEPT !.recvFinished = q.recvFinished \union {s}]

tq_receive_finish(q, s) == Broadcast([q EXCEPT !.recvFinished = q.recvFinished \union {s}])

(* What tq_send answers for a packet of stream s. *)
sendAnswer(q, s) ==
  CASE s \in q.sendFinished -> "EINVAL"
    [] s \notin q.sendFinished /\ s \in q.recvFinished -> "EOF"
    [] s \notin q.sendFinished \union q.recvFinished /\ Len(q.fifo) < QueueSize -> "ok"
    [] OTHER -> "wait"

tq_send(q, s, pkt) ==
  CASE sendAnswer(q, s) = "ok" ->
         Broadcast([q EXCEPT !.fifo = Append(q.fifo, [ost |-> s, pkt |-> pkt])])
    [] sendAnswer(q, s) = "EOF" -> [q EXCEPT !.sendFinished = q.sendFinished \union {s}]
    [] sendAnswer(q, s) = "EINVAL" -> q
    [] OTHER -> Sleep(q, "sender")

(* The streams whose end the receiver has still to be told, lowest first,  *)
(* once nothing is left to read.                                           *)
Unreported(q) == q.sendFinished \ q.recvFinished

receiveAnswer(q) ==
  CASE q.fifo # <<>> -> "ok"
    [] q.fifo = <<>> /\ Unreported(q) # {} -> "EOF"
    [] q.fifo = <<>> /\ Unreported(q) = {} /\ q.sendFinished = Streams -> "finished"
    [] OTHER -> "wait"

received(q) == IF receiveAnswer(q) = "ok" THEN Head(q.fifo)
               ELSE [ost |-> First(Unreported(q)), pkt |-> NULL]

(* Fault: a sender that waits for room is not woken. *)
quietReceive(q) ==
  CASE receiveAnswer(q) = "ok" -> [q EXCEPT !.fifo = Tail(q.fifo)]
    [] receiveAnswer(q) = "EOF" ->
         [q EXCEPT !.recvFinished = q.recvFinished \union {First(Unreported(q))}]
    [] receiveAnswer(q) = "finished" -> q
    [] OTHER -> Sleep(q, "receiver")

(* Only a packet makes the receiver broadcast. *)
tq_receive(q) ==
  CASE receiveAnswer(q) = "ok" -> Broadcast([q EXCEPT !.fifo = Tail(q.fifo)])
    [] receiveAnswer(q) = "EOF" ->
         [q EXCEPT !.recvFinished = q.recvFinished \union {First(Unreported(q))}]
    [] receiveAnswer(q) = "finished" -> q
    [] OTHER -> Sleep(q, "receiver")
================================================================================
