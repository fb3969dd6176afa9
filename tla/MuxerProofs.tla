------------------------------ MODULE MuxerProofs ------------------------------
(***************************************************************************)
(* Theorems about Muxer, for any number of streams and any sizes of the    *)
(* queues: it keeps its types, its queue outlives its thread, no call of   *)
(* tq_send is invalid, no wake-up is lost, and the file is what            *)
(* MuxContract promises.  And the lemmas that TranscodeProofs takes for a  *)
(* run: where a packet that was given is, until the trailer is written.    *)
(***************************************************************************)
EXTENDS Muxer, WellFoundedInduction, TLAPS

USE ThreadQueueAssumption, MuxerAssumption

(***************************************************************************)
(* The queue between the threads.                                          *)
(***************************************************************************)

(* A set of numbers has a least one. *)
LEMMA LeastNumber ==
  ASSUME NEW S, S \subseteq Nat, S # {}
  PROVE  First(S) \in S /\ \A t \in S : First(S) <= t
  <1>1. S \subseteq Nat
    OBVIOUS
  <1>2. OpToRel(<, Nat) = {p \in Nat \X Nat : p[1] < p[2]}
    BY Zenon DEF OpToRel
  <1>3. IsWellFoundedOn({p \in Nat \X Nat : p[1] < p[2]}, Nat)
    BY <1>2, NatLessThanWellFounded, Zenon
  <1>4. PICK s \in S : \A t \in S : ~ (<<t, s>> \in {p \in Nat \X Nat : p[1] < p[2]})
    <2> DEFINE R == {p \in Nat \X Nat : p[1] < p[2]}
    <2>1. IsWellFoundedOn(R, Nat)
      BY <1>3
    <2> HIDE DEF R
    <2>2. \E s \in S : \A t \in S : ~ (<<t, s>> \in R)
      BY <1>1, <2>1, WFMin, Zenon
    <2> QED BY <2>2 DEF R
  <1>5. \A t \in S : s <= t
    <2> TAKE t \in S
    <2>1. ~ (<<t, s>> \in {p \in Nat \X Nat : p[1] < p[2]})
      BY <1>4
    <2>2. s \in Nat /\ t \in Nat /\ <<t, s>> \in Nat \X Nat
      BY <1>1, <1>4
    <2>3. ~ (t < s)
      BY <2>1, <2>2
    <2> QED BY <2>2, <2>3
  <1> QED BY <1>5 DEF First

LEMMA FirstIsMember ==
  ASSUME NEW S, S \subseteq Streams, S # {}
  PROVE  First(S) \in S
  <1>1. S \subseteq Nat
    BY DEF Streams
  <1> QED BY <1>1, LeastNumber

LEMMA QueueFields ==
  ASSUME NEW q \in Queues
  PROVE  /\ q.fifo \in Seq(Items) /\ q.sendFinished \subseteq Streams
         /\ q.recvFinished \subseteq Streams /\ q.asleep \subseteq Sides
         /\ q = [fifo |-> q.fifo, sendFinished |-> q.sendFinished,
                 recvFinished |-> q.recvFinished, asleep |-> q.asleep]
  BY DEF Queues

(* The queue with one of its fields replaced. *)
LEMMA QueueUpdates ==
  ASSUME NEW q \in Queues, NEW v
  PROVE  /\ [q EXCEPT !.fifo = v] =
              [fifo |-> v, sendFinished |-> q.sendFinished,
               recvFinished |-> q.recvFinished, asleep |-> q.asleep]
         /\ [q EXCEPT !.sendFinished = v] =
              [fifo |-> q.fifo, sendFinished |-> v,
               recvFinished |-> q.recvFinished, asleep |-> q.asleep]
         /\ [q EXCEPT !.recvFinished = v] =
              [fifo |-> q.fifo, sendFinished |-> q.sendFinished,
               recvFinished |-> v, asleep |-> q.asleep]
         /\ [q EXCEPT !.asleep = v] =
              [fifo |-> q.fifo, sendFinished |-> q.sendFinished,
               recvFinished |-> q.recvFinished, asleep |-> v]
  BY DEF Queues

LEMMA BroadcastFifo ==
  ASSUME NEW q \in Queues, NEW v
  PROVE  Broadcast([q EXCEPT !.fifo = v]) =
           [fifo |-> v, sendFinished |-> q.sendFinished,
            recvFinished |-> q.recvFinished, asleep |-> {}]
  <1> DEFINE w == [fifo |-> v, sendFinished |-> q.sendFinished,
                   recvFinished |-> q.recvFinished, asleep |-> q.asleep]
  <1>1. [q EXCEPT !.fifo = v] = w
    BY QueueUpdates
  <1>2. Broadcast(w) = [fifo |-> v, sendFinished |-> q.sendFinished,
                        recvFinished |-> q.recvFinished, asleep |-> {}]
    BY DEF Broadcast
  <1> HIDE DEF w
  <1>3. Broadcast([q EXCEPT !.fifo = v]) = Broadcast(w)
    BY <1>1, Zenon
  <1> QED BY <1>2, <1>3

LEMMA AllocIsQueue == tq_alloc \in Queues
  <1>1. <<>> \in Seq(Items)
    OBVIOUS
  <1> QED BY <1>1 DEF tq_alloc, Queues

(* What each function of the queue leaves in it. *)
LEMMA SendFinishEffect ==
  ASSUME NEW q \in Queues, NEW s \in Streams
  PROVE  /\ tq_send_finish(q, s) \in Queues
         /\ tq_send_finish(q, s).fifo = q.fifo
         /\ tq_send_finish(q, s).sendFinished = q.sendFinished \union {s}
         /\ tq_send_finish(q, s).recvFinished = q.recvFinished
         /\ tq_send_finish(q, s).asleep = {}
  BY QueueFields DEF tq_send_finish, Broadcast, Queues

LEMMA ReceiveFinishEffect ==
  ASSUME NEW q \in Queues, NEW s \in Streams
  PROVE  /\ tq_receive_finish(q, s) \in Queues
         /\ tq_receive_finish(q, s).fifo = q.fifo
         /\ tq_receive_finish(q, s).sendFinished = q.sendFinished
         /\ tq_receive_finish(q, s).recvFinished = q.recvFinished \union {s}
         /\ tq_receive_finish(q, s).asleep = {}
  BY QueueFields DEF tq_receive_finish, Broadcast, Queues

LEMMA SendEffect ==
  ASSUME NEW q \in Queues, NEW s \in Streams, NEW pkt \in Nat
  PROVE  /\ tq_send(q, s, pkt) \in Queues
         /\ sendAnswer(q, s) \in {"ok", "EOF", "EINVAL", "wait"}
         /\ tq_send(q, s, pkt).recvFinished = q.recvFinished
         /\ sendAnswer(q, s) = "ok" =>
              /\ tq_send(q, s, pkt).fifo = Append(q.fifo, [ost |-> s, pkt |-> pkt])
              /\ tq_send(q, s, pkt).sendFinished = q.sendFinished
              /\ tq_send(q, s, pkt).asleep = {}
              /\ s \notin q.recvFinished /\ s \notin q.sendFinished
         /\ sendAnswer(q, s) # "ok" => tq_send(q, s, pkt).fifo = q.fifo
         /\ sendAnswer(q, s) = "EOF" =>
              /\ s \in q.recvFinished /\ s \notin q.sendFinished
              /\ tq_send(q, s, pkt).sendFinished = q.sendFinished \union {s}
              /\ tq_send(q, s, pkt).asleep = q.asleep
         /\ sendAnswer(q, s) = "EINVAL" => s \in q.sendFinished /\ tq_send(q, s, pkt) = q
         /\ sendAnswer(q, s) = "wait" =>
              /\ s \notin q.sendFinished /\ s \notin q.recvFinished
              /\ tq_send(q, s, pkt).sendFinished = q.sendFinished
              /\ tq_send(q, s, pkt).asleep = q.asleep \union {"sender"}
  <1> DEFINE item == [ost |-> s, pkt |-> pkt]
  <1>1. item \in Items
    BY DEF Items
  <1>2. Append(q.fifo, item) \in Seq(Items)
    BY <1>1, QueueFields
  <1>3. CASE sendAnswer(q, s) = "ok"
    <2>1. tq_send(q, s, pkt) = [fifo |-> Append(q.fifo, item), sendFinished |-> q.sendFinished,
                                recvFinished |-> q.recvFinished, asleep |-> {}]
      <3>1. tq_send(q, s, pkt) = Broadcast([q EXCEPT !.fifo = Append(q.fifo, item)])
        BY <1>3, Zenon DEF tq_send
      <3> QED BY <3>1, BroadcastFifo
    <2>2. s \notin q.recvFinished /\ s \notin q.sendFinished
      BY <1>3 DEF sendAnswer
    <2> QED BY <1>2, <1>3, <2>1, <2>2, QueueFields DEF Queues
  <1>4. CASE sendAnswer(q, s) = "EOF"
    <2>1. tq_send(q, s, pkt) = [fifo |-> q.fifo, sendFinished |-> q.sendFinished \union {s},
                                recvFinished |-> q.recvFinished, asleep |-> q.asleep]
      BY <1>4, QueueUpdates DEF tq_send
    <2>2. s \in q.recvFinished /\ s \notin q.sendFinished
      BY <1>4 DEF sendAnswer
    <2> QED BY <1>4, <2>1, <2>2, QueueFields DEF Queues
  <1>5. CASE sendAnswer(q, s) = "EINVAL"
    BY <1>5, QueueFields DEF tq_send, sendAnswer
  <1>6. CASE sendAnswer(q, s) = "wait"
    <2>1. tq_send(q, s, pkt) = [fifo |-> q.fifo, sendFinished |-> q.sendFinished,
                                recvFinished |-> q.recvFinished,
                                asleep |-> q.asleep \union {"sender"}]
      BY <1>6, QueueUpdates DEF tq_send, Sleep
    <2>2. s \notin q.recvFinished /\ s \notin q.sendFinished
      BY <1>6 DEF sendAnswer
    <2> QED BY <1>6, <2>1, <2>2, QueueFields DEF Queues, Sides
  <1>7. sendAnswer(q, s) \in {"ok", "EOF", "EINVAL", "wait"}
    BY DEF sendAnswer
  <1> QED BY <1>3, <1>4, <1>5, <1>6, <1>7

LEMMA SendWaits ==
  ASSUME NEW q \in Queues, NEW s \in Streams, NEW pkt \in Nat, sendAnswer(q, s) = "wait"
  PROVE  /\ tq_send(q, s, pkt).fifo = q.fifo
         /\ tq_send(q, s, pkt).sendFinished = q.sendFinished
         /\ tq_send(q, s, pkt).recvFinished = q.recvFinished
         /\ tq_send(q, s, pkt).asleep = q.asleep \union {"sender"}
  <1>1. tq_send(q, s, pkt) = [q EXCEPT !.asleep = q.asleep \union {"sender"}]
    BY Zenon DEF tq_send, Sleep
  <1> QED BY <1>1, QueueUpdates

LEMMA RefusedLeavesFifo ==
  ASSUME NEW q \in Queues, NEW s \in Streams, NEW pkt \in Nat, sendAnswer(q, s) # "ok"
  PROVE  tq_send(q, s, pkt).fifo = q.fifo
  <1>1. CASE sendAnswer(q, s) = "wait"
    BY <1>1, SendWaits
  <1>2. CASE sendAnswer(q, s) = "EOF"
    <2>1. tq_send(q, s, pkt) = [q EXCEPT !.sendFinished = q.sendFinished \union {s}]
      BY <1>2, Zenon DEF tq_send
    <2> QED BY <2>1, QueueUpdates
  <1>3. CASE sendAnswer(q, s) = "EINVAL"
    <2>1. tq_send(q, s, pkt) = q
      BY <1>3, Zenon DEF tq_send
    <2> QED BY <2>1
  <1> QED BY <1>1, <1>2, <1>3, SendEffect

(* A send finishes no stream but its own, and changes nothing for one that *)
(* is finished.                                                            *)
LEMMA SendMarks ==
  ASSUME NEW q \in Queues, NEW s \in Streams, NEW pkt \in Nat
  PROVE  /\ tq_send(q, s, pkt).recvFinished = q.recvFinished
         /\ q.sendFinished \subseteq tq_send(q, s, pkt).sendFinished
         /\ tq_send(q, s, pkt).sendFinished \subseteq q.sendFinished \union {s}
         /\ s \in q.sendFinished => tq_send(q, s, pkt) = q
         /\ sendAnswer(q, s) = "wait" => tq_send(q, s, pkt).fifo = q.fifo
  <1>1. CASE sendAnswer(q, s) = "ok"
    <2> DEFINE fifo == Append(q.fifo, [ost |-> s, pkt |-> pkt])
    <2>1. s \notin q.sendFinished
      BY <1>1 DEF sendAnswer
    <2>2. tq_send(q, s, pkt) = Broadcast([q EXCEPT !.fifo = fifo])
      BY <1>1, Zenon DEF tq_send
    <2> HIDE DEF fifo
    <2>3. tq_send(q, s, pkt) = [fifo |-> fifo, sendFinished |-> q.sendFinished,
                                recvFinished |-> q.recvFinished, asleep |-> {}]
      BY <2>2, BroadcastFifo
    <2>4. /\ tq_send(q, s, pkt).recvFinished = q.recvFinished
          /\ tq_send(q, s, pkt).sendFinished = q.sendFinished
      BY <2>3
    <2> QED BY <1>1, <2>1, <2>4
  <1>2. CASE sendAnswer(q, s) = "wait"
    <2>1. s \notin q.sendFinished
      BY <1>2 DEF sendAnswer
    <2> QED BY <1>2, <2>1, SendWaits
  <1>3. CASE sendAnswer(q, s) = "EOF"
    <2>1. s \notin q.sendFinished
      BY <1>3 DEF sendAnswer
    <2>2. tq_send(q, s, pkt) = [q EXCEPT !.sendFinished = q.sendFinished \union {s}]
      BY <1>3, Zenon DEF tq_send
    <2>3. /\ tq_send(q, s, pkt).recvFinished = q.recvFinished
          /\ tq_send(q, s, pkt).sendFinished = q.sendFinished \union {s}
      BY <2>2, QueueUpdates
    <2> QED BY <1>3, <2>1, <2>3
  <1>4. CASE sendAnswer(q, s) = "EINVAL"
    <2>1. tq_send(q, s, pkt) = q
      BY <1>4, Zenon DEF tq_send
    <2> QED BY <1>4, <2>1
  <1>5. sendAnswer(q, s) \in {"ok", "EOF", "EINVAL", "wait"}
    BY DEF sendAnswer
  <1> QED BY <1>1, <1>2, <1>3, <1>4, <1>5

LEMMA ReceiveEffect ==
  ASSUME NEW q \in Queues
  PROVE  /\ tq_receive(q) \in Queues
         /\ receiveAnswer(q) \in {"ok", "EOF", "finished", "wait"}
         /\ tq_receive(q).sendFinished = q.sendFinished
         /\ receiveAnswer(q) = "ok" =>
              /\ q.fifo # <<>> /\ received(q) = Head(q.fifo) /\ received(q) \in Items
              /\ tq_receive(q).fifo = Tail(q.fifo)
              /\ tq_receive(q).recvFinished = q.recvFinished
              /\ tq_receive(q).asleep = {}
         /\ receiveAnswer(q) # "ok" => tq_receive(q).fifo = q.fifo /\ q.fifo = <<>>
         /\ receiveAnswer(q) = "EOF" =>
              /\ tq_receive(q).recvFinished \ q.recvFinished \subseteq q.sendFinished
              /\ q.recvFinished \subseteq tq_receive(q).recvFinished
              /\ tq_receive(q).asleep = q.asleep
         /\ receiveAnswer(q) = "finished" => tq_receive(q) = q
         /\ receiveAnswer(q) = "wait" =>
              /\ tq_receive(q).recvFinished = q.recvFinished
              /\ tq_receive(q).asleep = q.asleep \union {"receiver"}
  <1>1. CASE receiveAnswer(q) = "ok"
    <2>1. q.fifo # <<>>
      BY <1>1 DEF receiveAnswer
    <2>2. Head(q.fifo) \in Items /\ Tail(q.fifo) \in Seq(Items)
      BY <2>1, QueueFields
    <2>3. tq_receive(q) = [fifo |-> Tail(q.fifo), sendFinished |-> q.sendFinished,
                           recvFinished |-> q.recvFinished, asleep |-> {}]
      <3>1. tq_receive(q) = Broadcast([q EXCEPT !.fifo = Tail(q.fifo)])
        BY <1>1, Zenon DEF tq_receive
      <3> QED BY <3>1, BroadcastFifo
    <2>4. received(q) = Head(q.fifo)
      BY <1>1 DEF received
    <2> QED BY <1>1, <2>1, <2>2, <2>3, <2>4, QueueFields DEF Queues
  <1>2. CASE receiveAnswer(q) = "EOF"
    <2>1. Unreported(q) # {} /\ q.fifo = <<>>
      BY <1>2 DEF receiveAnswer
    <2>2. First(Unreported(q)) \in Unreported(q)
      BY <2>1, FirstIsMember, QueueFields DEF Unreported
    <2>3. tq_receive(q) = [fifo |-> q.fifo, sendFinished |-> q.sendFinished,
                           recvFinished |-> q.recvFinished \union {First(Unreported(q))},
                           asleep |-> q.asleep]
      BY <1>2, QueueUpdates DEF tq_receive
    <2>4. First(Unreported(q)) \in q.sendFinished
      BY <2>2 DEF Unreported
    <2> QED BY <1>2, <2>1, <2>3, <2>4, QueueFields DEF Queues
  <1>3. CASE receiveAnswer(q) = "finished"
    <2>1. q.fifo = <<>> /\ tq_receive(q) = q
      BY <1>3 DEF receiveAnswer, tq_receive
    <2> QED BY <1>3, <2>1
  <1>4. CASE receiveAnswer(q) = "wait"
    <2>1. q.fifo = <<>>
      BY <1>4 DEF receiveAnswer
    <2>2. tq_receive(q) = [fifo |-> q.fifo, sendFinished |-> q.sendFinished,
                           recvFinished |-> q.recvFinished,
                           asleep |-> q.asleep \union {"receiver"}]
      BY <1>4, QueueUpdates DEF tq_receive, Sleep
    <2> QED BY <1>4, <2>1, <2>2, QueueFields DEF Queues, Sides
  <1>5. receiveAnswer(q) \in {"ok", "EOF", "finished", "wait"}
    BY DEF receiveAnswer
  <1> QED BY <1>1, <1>2, <1>3, <1>4, <1>5
(***************************************************************************)
(* The inductive invariant.                                                *)
(***************************************************************************)

(* The calls of the main thread, and the life of the thread and its queue. *)
Phases ==
  /\ running => muxPc # "none" /\ trailer = "none" /\ at # "closed"
  /\ QueueOutlivesThread
  /\ muxPc # "none" => initialized = Streams
  /\ flushing => running /\ at \in {"idle", "send", "refused"}
  /\ at \in {"send", "refused", "stop", "join"} => running
  /\ ~running => tq = tq_alloc

(* FINISHED_SEND is set for a stream that is not MUXER_FINISHED only when  *)
(* thread_submit_packet is about to set that too, or nothing is sent any   *)
(* more.                                                                   *)
Marks ==
  /\ at = "idle" => tq.sendFinished \subseteq muxerFinished
  /\ at = "send" => /\ tq.sendFinished \subseteq muxerFinished
                    /\ cargo.ost \notin muxerFinished
  /\ at = "refused" => tq.sendFinished \subseteq muxerFinished \union {cargo.ost}

(* A side that sleeps is in its own call.  Until the thread is done, it    *)
(* finishes only the streams that the sender has finished.                 *)
Sleepers ==
  /\ "sender" \in tq.asleep => at = "send"
  /\ "receiver" \in tq.asleep => muxPc = "receive"
  /\ muxPc \in {"none", "receive"} => tq.recvFinished \subseteq tq.sendFinished

Inv == MuxerTypeOK /\ Phases /\ Marks /\ Sleepers

LEMMA MuxerInitInv == MuxerInit => Inv
  <1> SUFFICES ASSUME MuxerInit PROVE Inv
    OBVIOUS
  <1>1. Nothing \in Items
    BY DEF Nothing, Items, Streams, NULL
  <1>2. [s \in Streams |-> <<>>] \in [Streams -> Seq(Nat)] /\ [s \in Streams |-> 0] \in [Streams -> Nat]
    OBVIOUS
  <1>3. MuxerTypeOK
    BY <1>1, <1>2, AllocIsQueue DEF MuxerInit, MuxerTypeOK, Answers
  <1>4. tq.sendFinished = {} /\ tq.recvFinished = {} /\ tq.asleep = {}
    BY DEF MuxerInit, tq_alloc
  <1>5. Phases
    BY DEF MuxerInit, Phases, QueueOutlivesThread
  <1>6. Marks /\ Sleepers
    BY <1>4 DEF MuxerInit, Marks, Sleepers
  <1> QED BY <1>3, <1>5, <1>6 DEF Inv

(***************************************************************************)
(* What the steps need of the packets that wait.                           *)
(***************************************************************************)

LEMMA WaitingStream ==
  ASSUME MuxerTypeOK, {s \in Streams : muxingQueue[s] # <<>>} # {}
  PROVE  LET s == First({t \in Streams : muxingQueue[t] # <<>>})
         IN  /\ s \in Streams /\ muxingQueue[s] # <<>>
             /\ muxingQueue[s] \in Seq(Nat)
             /\ Head(muxingQueue[s]) \in Nat
             /\ [muxingQueue EXCEPT ![s] = Tail(muxingQueue[s])] \in [Streams -> Seq(Nat)]
  <1> DEFINE W == {t \in Streams : muxingQueue[t] # <<>>}
  <1>1. First(W) \in W
    BY FirstIsMember
  <1>2. First(W) \in Streams /\ muxingQueue[First(W)] # <<>>
    BY <1>1
  <1> DEFINE f == First(W)
  <1> HIDE DEF f
  <1>3. f \in Streams /\ muxingQueue[f] # <<>>
    BY <1>2 DEF f
  <1>4. muxingQueue[f] \in Seq(Nat) /\ muxingQueue \in [Streams -> Seq(Nat)]
    BY <1>3 DEF MuxerTypeOK
  <1>5. Head(muxingQueue[f]) \in Nat /\ Tail(muxingQueue[f]) \in Seq(Nat)
    BY <1>3, <1>4
  <1>6. [muxingQueue EXCEPT ![f] = Tail(muxingQueue[f])] \in [Streams -> Seq(Nat)]
    BY <1>4, <1>5
  <1> QED BY <1>3, <1>4, <1>5, <1>6 DEF f

(***************************************************************************)
(* The steps.                                                              *)
(***************************************************************************)

LEMMA of_stream_init_Inv ==
  ASSUME Inv, NEW s \in Streams, NEW result, of_stream_init(s, result)
  PROVE  Inv'
  <1>1. muxPc = "none" /\ ~running /\ ~flushing /\ at = "idle" /\ trailer = "none"
    BY DEF Inv, Phases, QueueOutlivesThread, of_stream_init, Writable, Free
  <1>2. tq = tq_alloc /\ tq' = tq_alloc
    BY <1>1 DEF Inv, Phases, of_stream_init
  <1>3. MuxerTypeOK'
    BY <1>2, AllocIsQueue DEF Inv, MuxerTypeOK, of_stream_init
  <1>4. Phases'
    BY <1>1, <1>2 DEF Inv, Phases, QueueOutlivesThread, of_stream_init
  <1>5. Marks' /\ Sleepers'
    BY <1>1, <1>2 DEF Inv, Marks, Sleepers, of_stream_init, tq_alloc
  <1> QED BY <1>3, <1>4, <1>5 DEF Inv

LEMMA of_output_packet_Inv ==
  ASSUME Inv, NEW s \in Streams, NEW eof \in BOOLEAN, of_output_packet(s, eof)
  PROVE  Inv'
  <1> DEFINE pkt == IF eof THEN NULL ELSE given'[s]
  <1>1. given' \in [Streams -> Nat] /\ pkt \in Nat
    BY DEF of_output_packet, Inv, MuxerTypeOK, NULL
  <1>2. /\ at = "idle" /\ ~flushing /\ submit_packet(s, pkt)
        /\ UNCHANGED <<threadVars, initialized, tq, running, muxerFinished, flushing,
                       closing, trailer, main_return_code>>
    BY DEF of_output_packet, Writable, Free
  <1> HIDE DEF pkt
  <1>3. CASE running
    <2>1. /\ cargo' = [ost |-> s, pkt |-> pkt]
          /\ at' = IF pkt = NULL \/ s \in muxerFinished THEN "refused" ELSE "send"
          /\ UNCHANGED <<muxingQueue, refusals>>
      BY <1>2, <1>3 DEF submit_packet, thread_submit_packet
    <2>2. cargo' \in Items /\ cargo'.ost = s
      BY <1>1, <2>1 DEF Items
    <2>3. MuxerTypeOK'
      BY <1>1, <1>2, <2>1, <2>2 DEF Inv, MuxerTypeOK, threadVars
    <2>4. Phases'
      BY <1>2, <1>3, <2>1 DEF Inv, Phases, QueueOutlivesThread, threadVars
    <2>5. Marks' /\ Sleepers'
      BY <1>2, <2>1, <2>2 DEF Inv, Marks, Sleepers, threadVars
    <2> QED BY <2>3, <2>4, <2>5 DEF Inv
  <1>4. CASE ~running
    <2>1. queue_packet(s, pkt) /\ UNCHANGED <<at, cargo>>
      BY <1>2, <1>4 DEF submit_packet
    <2>2. Append(muxingQueue[s], pkt) \in Seq(Nat) /\ muxingQueue \in [Streams -> Seq(Nat)]
      BY <1>1 DEF Inv, MuxerTypeOK
    <2>3. [muxingQueue EXCEPT ![s] = Append(muxingQueue[s], pkt)] \in [Streams -> Seq(Nat)]
      BY <2>2
    <2>4. muxingQueue' \in [Streams -> Seq(Nat)] /\ refusals' \subseteq {"ENOSPC", "EINVAL"}
      BY <2>1, <2>2, <2>3 DEF queue_packet, Inv, MuxerTypeOK
    <2>5. MuxerTypeOK'
      BY <1>1, <1>2, <2>1, <2>4 DEF Inv, MuxerTypeOK, threadVars
    <2>6. Phases' /\ Marks' /\ Sleepers'
      BY <1>2, <2>1 DEF Inv, Phases, QueueOutlivesThread, Marks, Sleepers, threadVars
    <2> QED BY <2>5, <2>6 DEF Inv
  <1> QED BY <1>3, <1>4

LEMMA flushMuxingQueue_Inv ==
  ASSUME Inv, flushMuxingQueue
  PROVE  Inv'
  <1> DEFINE waiting == {s \in Streams : muxingQueue[s] # <<>>}
             s == First(waiting)
  <1>1. /\ flushing /\ at = "idle" /\ running
        /\ UNCHANGED <<threadVars, initialized, tq, running, muxerFinished, closing, trailer,
                       given, refusals, main_return_code>>
    BY DEF flushMuxingQueue, Inv, Phases
  <1>2. CASE waiting = {}
    <2>1. flushing' = FALSE /\ UNCHANGED <<at, cargo, muxingQueue>>
      BY <1>2 DEF flushMuxingQueue
    <2> QED BY <1>1, <2>1 DEF Inv, MuxerTypeOK, Phases, QueueOutlivesThread, Marks, Sleepers,
                              threadVars
  <1>3. CASE waiting # {}
    <2>1. /\ cargo' = [ost |-> s, pkt |-> Head(muxingQueue[s])]
          /\ at' = IF Head(muxingQueue[s]) = NULL \/ s \in muxerFinished
                     THEN "refused" ELSE "send"
          /\ muxingQueue' = [muxingQueue EXCEPT ![s] = Tail(muxingQueue[s])]
          /\ UNCHANGED flushing
      BY <1>3 DEF flushMuxingQueue, thread_submit_packet
    <2>2. /\ s \in Streams /\ Head(muxingQueue[s]) \in Nat
          /\ [muxingQueue EXCEPT ![s] = Tail(muxingQueue[s])] \in [Streams -> Seq(Nat)]
      BY <1>3, WaitingStream DEF Inv
    <2> HIDE DEF s
    <2>3. cargo' \in Items /\ cargo'.ost = s
      BY <2>1, <2>2 DEF Items
    <2>4. MuxerTypeOK'
      BY <1>1, <2>1, <2>2, <2>3 DEF Inv, MuxerTypeOK, threadVars
    <2>5. Phases'
      BY <1>1, <2>1 DEF Inv, Phases, QueueOutlivesThread, threadVars
    <2>6. Marks' /\ Sleepers'
      BY <1>1, <2>1, <2>3 DEF Inv, Marks, Sleepers, threadVars
    <2> QED BY <2>4, <2>5, <2>6 DEF Inv
  <1> QED BY <1>2, <1>3

LEMMA sendToThread_Inv ==
  ASSUME Inv, sendToThread
  PROVE  Inv' /\ refusals' = refusals
  <1> DEFINE s == cargo.ost
             answer == sendAnswer(tq, s)
  <1>1. /\ at = "send" /\ "sender" \notin tq.asleep /\ running
        /\ tq.sendFinished \subseteq muxerFinished /\ s \notin muxerFinished
        /\ tq' = tq_send(tq, s, cargo.pkt)
        /\ at' = CASE answer = "ok" -> "idle" [] answer = "wait" -> "send" [] OTHER -> "refused"
        /\ cargo' = IF answer = "ok" THEN Nothing ELSE cargo
        /\ refusals' = IF answer = "EINVAL" THEN refusals \union {"EINVAL"} ELSE refusals
        /\ UNCHANGED <<threadVars, initialized, running, muxingQueue, muxerFinished, flushing,
                       closing, trailer, given, main_return_code>>
    BY DEF sendToThread, Inv, Phases, Marks
  <1>2. s \in Streams /\ cargo.pkt \in Nat /\ tq \in Queues /\ cargo \in Items
    BY DEF Inv, MuxerTypeOK, Items
  <1> HIDE DEF s
  <1>3. answer \in {"ok", "EOF", "wait"}
    BY <1>1, <1>2, SendEffect
  <1>4. tq' \in Queues
    BY <1>1, <1>2, SendEffect
  <1>5. Nothing \in Items
    BY DEF Nothing, Items, Streams, NULL
  <1>6. refusals' = refusals
    BY <1>1, <1>3
  <1>7. MuxerTypeOK'
    BY <1>1, <1>2, <1>3, <1>4, <1>5, <1>6 DEF Inv, MuxerTypeOK, threadVars
  <1>8. Phases'
    BY <1>1, <1>3 DEF Inv, Phases, QueueOutlivesThread, threadVars
  <1>9. CASE answer = "ok"
    <2>1. /\ tq'.sendFinished = tq.sendFinished /\ tq'.recvFinished = tq.recvFinished
          /\ tq'.asleep = {} /\ at' = "idle"
      BY <1>1, <1>2, <1>9, SendEffect
    <2> QED BY <1>1, <1>6, <1>7, <1>8, <2>1 DEF Inv, Marks, Sleepers, threadVars
  <1>10. CASE answer = "EOF"
    <2>1. /\ tq'.sendFinished = tq.sendFinished \union {s}
          /\ tq'.recvFinished = tq.recvFinished
          /\ tq'.asleep = tq.asleep /\ at' = "refused" /\ cargo' = cargo
      BY <1>1, <1>2, <1>10, SendEffect
    <2>2. Marks'
      BY <1>1, <2>1 DEF Marks, s
    <2>3. Sleepers'
      BY <1>1, <2>1 DEF Inv, Sleepers, threadVars
    <2> QED BY <1>6, <1>7, <1>8, <2>2, <2>3 DEF Inv
  <1>11. CASE answer = "wait"
    <2>1. /\ tq'.sendFinished = tq.sendFinished /\ tq'.recvFinished = tq.recvFinished
          /\ tq'.asleep = tq.asleep \union {"sender"}
      BY <1>1, <1>2, <1>11, SendWaits
    <2>2. at' = "send" /\ cargo' = cargo
      BY <1>1, <1>11
    <2>3. Marks'
      BY <1>1, <2>1, <2>2 DEF Marks, s
    <2>4. Sleepers'
      BY <1>1, <2>1, <2>2 DEF Inv, Sleepers, threadVars
    <2> QED BY <1>6, <1>7, <1>8, <2>3, <2>4 DEF Inv
  <1> QED BY <1>3, <1>9, <1>10, <1>11

LEMMA finishStream_Inv ==
  ASSUME Inv, finishStream
  PROVE  Inv'
  <1>1. /\ at = "refused" /\ at' = "idle" /\ running
        /\ tq.sendFinished \subseteq muxerFinished \union {cargo.ost}
        /\ muxerFinished' = muxerFinished \union {cargo.ost}
        /\ tq' = tq_send_finish(tq, cargo.ost) /\ cargo' = Nothing
        /\ UNCHANGED <<threadVars, initialized, running, muxingQueue, flushing, closing,
                       trailer, given, refusals, main_return_code>>
    BY DEF finishStream, Inv, Phases, Marks
  <1>2. cargo.ost \in Streams /\ tq \in Queues /\ Nothing \in Items
    BY DEF Inv, MuxerTypeOK, Nothing, Items, Streams, NULL
  <1>3. /\ tq' \in Queues /\ tq'.sendFinished = tq.sendFinished \union {cargo.ost}
        /\ tq'.recvFinished = tq.recvFinished /\ tq'.asleep = {}
    BY <1>1, <1>2, SendFinishEffect
  <1>4. MuxerTypeOK'
    BY <1>1, <1>2, <1>3 DEF Inv, MuxerTypeOK, threadVars
  <1>5. Phases'
    BY <1>1 DEF Inv, Phases, QueueOutlivesThread, threadVars
  <1>6. Marks' /\ Sleepers'
    BY <1>1, <1>3 DEF Inv, Marks, Sleepers, threadVars
  <1> QED BY <1>4, <1>5, <1>6 DEF Inv

LEMMA EndCalls_Inv ==
  ASSUME Inv, of_write_trailer \/ of_close
  PROVE  Inv'
  <1>1. /\ at = "idle" /\ at' \in {"idle", "stop", "closed"}
        /\ at' = "stop" => running
        /\ at' = "closed" => ~running
        /\ running => trailer' = trailer
        /\ closing' \in {"no", "trailer", "close"}
        /\ trailer' \in {"none", "nothing", "written", "failed"}
        /\ ~flushing
        /\ UNCHANGED <<threadVars, initialized, tq, running, muxingQueue, muxerFinished,
                       cargo, flushing, given, refusals, main_return_code>>
    BY DEF of_write_trailer, of_close, Writable, Free, Inv, MuxerTypeOK
  <1>2. MuxerTypeOK'
    BY <1>1 DEF Inv, MuxerTypeOK, threadVars
  <1>3. Phases'
    BY <1>1 DEF Inv, Phases, QueueOutlivesThread, threadVars
  <1>4. Marks' /\ Sleepers'
    BY <1>1 DEF Inv, Marks, Sleepers, threadVars
  <1> QED BY <1>2, <1>3, <1>4 DEF Inv

LEMMA stopStreams_Inv ==
  ASSUME Inv, stopStreams
  PROVE  Inv'
  <1> DEFINE open == Streams \ tq.sendFinished
  <1>1. /\ at = "stop" /\ running /\ ~flushing /\ tq \in Queues
        /\ UNCHANGED <<threadVars, initialized, running, muxingQueue, muxerFinished, cargo,
                       flushing, closing, trailer, given, refusals, main_return_code>>
    BY DEF stopStreams, Inv, Phases, MuxerTypeOK
  <1>2. \/ at' = "join" /\ UNCHANGED tq
        \/ open # {} /\ tq' = tq_send_finish(tq, First(open)) /\ UNCHANGED at
    BY DEF stopStreams
  <1>3. /\ at' \in {"stop", "join"} /\ tq' \in Queues
        /\ tq'.sendFinished = tq.sendFinished \/ tq.sendFinished \subseteq tq'.sendFinished
        /\ tq'.recvFinished = tq.recvFinished /\ tq'.asleep \subseteq tq.asleep
    <2>1. open # {} => First(open) \in Streams
      BY FirstIsMember
    <2> QED BY <1>1, <1>2, <2>1, SendFinishEffect
  <1>4. MuxerTypeOK'
    BY <1>1, <1>3 DEF Inv, MuxerTypeOK, threadVars
  <1>5. Phases'
    BY <1>1, <1>3 DEF Inv, Phases, QueueOutlivesThread, threadVars
  <1>6. Marks' /\ Sleepers'
    BY <1>1, <1>3 DEF Inv, Marks, Sleepers, threadVars
  <1> QED BY <1>4, <1>5, <1>6 DEF Inv

LEMMA joinThread_Inv ==
  ASSUME Inv, NEW result \in {"written", "failed"}, joinThread(result)
  PROVE  Inv'
  <1>1. /\ at = "join" /\ muxPc = "ended" /\ ~flushing
        /\ tq' = tq_alloc /\ running' = FALSE
        /\ at' \in {"idle", "closed"}
        /\ trailer' \in {trailer, result} /\ main_return_code' \in {muxRet, main_return_code}
        /\ closing' = "no"
        /\ UNCHANGED <<threadVars, initialized, muxingQueue, muxerFinished, cargo, flushing,
                       given, refusals>>
    BY DEF joinThread, Inv, Phases
  <1>2. tq' \in Queues /\ tq'.sendFinished = {} /\ tq'.recvFinished = {} /\ tq'.asleep = {}
    BY <1>1, AllocIsQueue DEF tq_alloc
  <1>3. MuxerTypeOK'
    BY <1>1, <1>2 DEF Inv, MuxerTypeOK, threadVars, Answers
  <1>4. Phases'
    BY <1>1 DEF Inv, Phases, QueueOutlivesThread, threadVars
  <1>5. Marks' /\ Sleepers'
    BY <1>1, <1>2 DEF Marks, Sleepers, threadVars
  <1> QED BY <1>3, <1>4, <1>5 DEF Inv

LEMMA receivePacket_Inv ==
  ASSUME Inv, NEW result \in Answers, receivePacket(result)
  PROVE  Inv'
  <1>1. /\ muxPc = "receive" /\ "receiver" \notin tq.asleep /\ tq' = tq_receive(tq)
        /\ tq \in Queues /\ running /\ UNCHANGED mainVars
    BY DEF receivePacket, Inv, MuxerTypeOK, Phases, QueueOutlivesThread
  <1>2. /\ tq' \in Queues /\ tq'.sendFinished = tq.sendFinished
        /\ tq'.recvFinished \subseteq tq'.sendFinished
        /\ tq'.asleep \subseteq tq.asleep \union {"receiver"}
        /\ receiveAnswer(tq) # "wait" => tq'.asleep \subseteq tq.asleep
    BY <1>1, ReceiveEffect DEF Inv, Sleepers
  <1>3. muxPc' \in {"receive", "finish"} /\ muxRet' \in Answers
    BY <1>1 DEF receivePacket, write_packet, Inv, MuxerTypeOK
  <1>4. receiveAnswer(tq) = "wait" => muxPc' = "receive"
    BY DEF receivePacket
  <1>5. file' \in [Streams -> Seq(Nat)]
    <2>1. CASE receiveAnswer(tq) = "ok"
      <3>1. received(tq).ost \in Streams /\ received(tq).pkt \in Nat
        BY <1>1, <2>1, ReceiveEffect DEF Items
      <3>2. write_packet(received(tq).ost, received(tq).pkt, result)
        BY <2>1 DEF receivePacket
      <3> DEFINE s == received(tq).ost
                 p == received(tq).pkt
      <3> HIDE DEF s, p
      <3>3. file \in [Streams -> Seq(Nat)] /\ s \in Streams /\ p \in Nat
        BY <3>1 DEF Inv, MuxerTypeOK, s, p
      <3>4. Append(file[s], p) \in Seq(Nat)
        BY <3>3
      <3>5. [file EXCEPT ![s] = Append(file[s], p)] \in [Streams -> Seq(Nat)]
        BY <3>3, <3>4
      <3> QED BY <3>2, <3>3, <3>5 DEF write_packet, s, p
    <2>2. CASE receiveAnswer(tq) # "ok"
      BY <2>2 DEF receivePacket, Inv, MuxerTypeOK
    <2> QED BY <2>1, <2>2
  <1>6. MuxerTypeOK'
    BY <1>1, <1>2, <1>3, <1>5 DEF Inv, MuxerTypeOK, mainVars
  <1>7. Phases'
    BY <1>1, <1>3 DEF Inv, Phases, QueueOutlivesThread, mainVars
  <1>8. Marks'
    BY <1>1, <1>2 DEF Inv, Marks, mainVars
  <1>9. Sleepers'
    BY <1>1, <1>2, <1>3, <1>4 DEF Inv, Sleepers, mainVars
  <1> QED BY <1>6, <1>7, <1>8, <1>9 DEF Inv

LEMMA finishThread_Inv ==
  ASSUME Inv, finishThread
  PROVE  Inv'
  <1> DEFINE open == Streams \ tq.recvFinished
  <1>1. /\ muxPc = "finish" /\ running /\ tq \in Queues
        /\ UNCHANGED <<mainVars, muxRet, file>>
    BY DEF finishThread, Inv, Phases, QueueOutlivesThread, MuxerTypeOK
  <1>2. \/ muxPc' = "ended" /\ UNCHANGED tq
        \/ open # {} /\ tq' = tq_receive_finish(tq, First(open)) /\ UNCHANGED muxPc
    BY DEF finishThread
  <1>3. /\ muxPc' \in {"finish", "ended"} /\ tq' \in Queues
        /\ tq'.sendFinished = tq.sendFinished /\ tq'.asleep \subseteq tq.asleep
    <2>1. open # {} => First(open) \in Streams
      BY FirstIsMember
    <2> QED BY <1>1, <1>2, <2>1, ReceiveFinishEffect
  <1>4. MuxerTypeOK'
    BY <1>1, <1>3 DEF Inv, MuxerTypeOK, mainVars
  <1>5. Phases'
    BY <1>1, <1>3 DEF Inv, Phases, QueueOutlivesThread, mainVars
  <1>6. Marks' /\ Sleepers'
    BY <1>1, <1>3 DEF Inv, Marks, Sleepers, mainVars
  <1> QED BY <1>4, <1>5, <1>6 DEF Inv

LEMMA MuxerNextInv ==
  ASSUME Inv, [MuxerNext]_muxerVars
  PROVE  Inv'
  <1>1. CASE MainCall
    BY <1>1, EndCalls_Inv, of_output_packet_Inv, of_stream_init_Inv DEF MainCall
  <1>2. CASE MainStep
    BY <1>2, flushMuxingQueue_Inv, sendToThread_Inv, finishStream_Inv, stopStreams_Inv,
       joinThread_Inv DEF MainStep
  <1>3. CASE MuxerThread
    BY <1>3, finishThread_Inv, receivePacket_Inv DEF MuxerThread
  <1>4. CASE UNCHANGED muxerVars
    BY <1>4 DEF muxerVars, mainVars, threadVars, Inv, MuxerTypeOK, Phases,
                QueueOutlivesThread, Marks, Sleepers
  <1> QED BY <1>1, <1>2, <1>3, <1>4 DEF MuxerNext

(***************************************************************************)
(* No wake-up is lost.  The sender waits only when the queue is full, so   *)
(* that the next packet received wakes it; the receiver waits only when it *)
(* is empty.                                                               *)
(***************************************************************************)

LEMMA AnswersOf ==
  ASSUME NEW q, NEW r, NEW s, q.fifo = r.fifo, q.sendFinished = r.sendFinished,
         q.recvFinished = r.recvFinished
  PROVE  sendAnswer(q, s) = sendAnswer(r, s) /\ receiveAnswer(q) = receiveAnswer(r)
  BY DEF sendAnswer, receiveAnswer, Unreported

LEMMA AwakeIsFine ==
  ASSUME tq.asleep = {}
  PROVE  NoLostWakeUp
  BY DEF NoLostWakeUp

(* The sender sleeps when the queue is full, the receiver when it is empty. *)
LEMMA WhatIsWaitedFor ==
  ASSUME NEW q \in Queues, NEW s \in Streams
  PROVE  /\ sendAnswer(q, s) = "wait" => q.fifo # <<>>
         /\ receiveAnswer(q) = "wait" => q.fifo = <<>>
  <1>1. q.fifo \in Seq(Items)
    BY QueueFields
  <1>2. q.fifo = <<>> => Len(q.fifo) = 0
    OBVIOUS
  <1> QED BY <1>1, <1>2 DEF sendAnswer, receiveAnswer

LEMMA WakeUpStep ==
  ASSUME Inv, Inv', NoLostWakeUp, [MuxerNext]_muxerVars
  PROVE  NoLostWakeUp'
  <1>1. tq \in Queues /\ cargo.ost \in Streams /\ cargo.pkt \in Nat
    BY DEF Inv, MuxerTypeOK, Items
  <1>2. CASE UNCHANGED tq /\ ("sender" \in tq.asleep => UNCHANGED cargo)
    BY <1>2 DEF NoLostWakeUp
  <1>3. CASE MainCall
    <2>1. at = "idle"
      BY <1>3 DEF MainCall, of_write_trailer, of_close, of_output_packet, of_stream_init,
                  Writable, Free
    <2>2. "sender" \notin tq.asleep
      BY <2>1 DEF Inv, Sleepers
    <2>3. UNCHANGED tq \/ tq' = tq_alloc
      BY <1>3 DEF MainCall, of_write_trailer, of_close, of_output_packet, of_stream_init
    <2>4. tq_alloc.asleep = {}
      BY DEF tq_alloc
    <2>5. CASE tq' = tq_alloc
      BY <2>4, <2>5 DEF NoLostWakeUp
    <2> QED BY <1>2, <2>2, <2>3, <2>5
  <1>4. CASE flushMuxingQueue
    <2>1. "sender" \notin tq.asleep /\ UNCHANGED tq
      BY <1>4 DEF flushMuxingQueue, Inv, Sleepers
    <2> QED BY <1>2, <2>1
  <1>5. CASE sendToThread
    <2> DEFINE answer == sendAnswer(tq, cargo.ost)
    <2>1. /\ at = "send" /\ "sender" \notin tq.asleep /\ tq' = tq_send(tq, cargo.ost, cargo.pkt)
          /\ cargo' = IF answer = "ok" THEN Nothing ELSE cargo
          /\ UNCHANGED muxPc
      BY <1>5 DEF sendToThread, threadVars
    <2>2. CASE answer = "ok"
      <3>1. tq'.asleep = {}
        BY <1>1, <2>1, <2>2, SendEffect
      <3> QED BY <3>1 DEF NoLostWakeUp
    <2>3. CASE answer = "EOF"
      <3>1. /\ cargo.ost \in tq.recvFinished /\ cargo.ost \notin tq.sendFinished
            /\ tq'.asleep = tq.asleep
        BY <1>1, <2>1, <2>3, SendEffect
      <3>2. "receiver" \notin tq.asleep
        BY <3>1 DEF Inv, Sleepers
      <3> QED BY <2>1, <3>1, <3>2 DEF NoLostWakeUp
    <2>4. CASE answer = "wait"
      <3>1. /\ tq'.fifo = tq.fifo /\ tq'.sendFinished = tq.sendFinished
            /\ tq'.recvFinished = tq.recvFinished
            /\ tq'.asleep = tq.asleep \union {"sender"}
        BY <1>1, <2>1, <2>4, SendWaits
      <3>2. cargo' = cargo
        BY <2>1, <2>4
      <3>3. sendAnswer(tq', cargo.ost) = "wait" /\ receiveAnswer(tq') = receiveAnswer(tq)
        BY <2>4, <3>1, AnswersOf
      <3>4. "receiver" \in tq'.asleep => "receiver" \in tq.asleep
        BY <3>1
      <3> QED BY <3>2, <3>3, <3>4 DEF NoLostWakeUp
    <2>5. answer \notin {"EINVAL"}
      BY <1>1, <2>1, SendEffect DEF Inv, Marks
    <2>6. answer \in {"ok", "EOF", "EINVAL", "wait"}
      BY <1>1, SendEffect
    <2> QED BY <2>2, <2>3, <2>4, <2>5, <2>6
  <1>6. CASE finishStream
    <2>1. tq'.asleep = {}
      BY <1>1, <1>6, SendFinishEffect DEF finishStream
    <2> QED BY <2>1 DEF NoLostWakeUp
  <1>7. CASE stopStreams
    <2> DEFINE open == Streams \ tq.sendFinished
    <2>1. UNCHANGED cargo /\ (UNCHANGED tq \/ (open # {} /\ tq' = tq_send_finish(tq, First(open))))
      BY <1>7 DEF stopStreams
    <2>2. open # {} => First(open) \in Streams
      BY FirstIsMember
    <2>3. UNCHANGED tq \/ tq'.asleep = {}
      BY <1>1, <2>1, <2>2, SendFinishEffect
    <2>4. CASE tq'.asleep = {}
      BY <2>4 DEF NoLostWakeUp
    <2> QED BY <1>2, <2>1, <2>3, <2>4
  <1>8. ASSUME NEW result \in {"written", "failed"}, joinThread(result)
        PROVE  NoLostWakeUp'
    <2>1. tq'.asleep = {}
      BY <1>8 DEF joinThread, tq_alloc
    <2> QED BY <2>1 DEF NoLostWakeUp
  <1>9. CASE finishThread
    <2> DEFINE open == Streams \ tq.recvFinished
    <2>1. /\ UNCHANGED cargo
          /\ UNCHANGED tq \/ (open # {} /\ tq' = tq_receive_finish(tq, First(open)))
      BY <1>9 DEF finishThread, mainVars
    <2>2. open # {} => First(open) \in Streams
      BY FirstIsMember
    <2>3. UNCHANGED tq \/ tq'.asleep = {}
      BY <1>1, <2>1, <2>2, ReceiveFinishEffect
    <2>4. CASE tq'.asleep = {}
      BY <2>4 DEF NoLostWakeUp
    <2> QED BY <1>2, <2>1, <2>3, <2>4
  <1>10. ASSUME NEW result \in Answers, receivePacket(result)
         PROVE  NoLostWakeUp'
    <2> DEFINE answer == receiveAnswer(tq)
    <2>1. "receiver" \notin tq.asleep /\ tq' = tq_receive(tq) /\ UNCHANGED cargo
      BY <1>10 DEF receivePacket, mainVars
    <2>2. "sender" \in tq.asleep => tq.fifo # <<>>
      BY <1>1, WhatIsWaitedFor DEF NoLostWakeUp
    <2>3. CASE answer = "ok"
      <3>1. tq'.asleep = {}
        BY <1>1, <2>1, <2>3, ReceiveEffect
      <3> QED BY <3>1 DEF NoLostWakeUp
    <2>4. CASE answer = "EOF"
      <3>1. tq.fifo = <<>> /\ tq'.asleep = tq.asleep
        BY <1>1, <2>1, <2>4, ReceiveEffect
      <3> QED BY <2>1, <2>2, <3>1 DEF NoLostWakeUp
    <2>5. CASE answer = "finished"
      <3>1. tq' = tq
        BY <1>1, <2>1, <2>5, ReceiveEffect
      <3> QED BY <1>2, <2>1, <3>1
    <2>6. CASE answer = "wait"
      <3>1. /\ tq.fifo = <<>> /\ tq'.fifo = tq.fifo /\ tq'.sendFinished = tq.sendFinished
            /\ tq'.recvFinished = tq.recvFinished
            /\ tq'.asleep = tq.asleep \union {"receiver"}
        BY <1>1, <2>1, <2>6, ReceiveEffect
      <3>2. receiveAnswer(tq') = "wait"
        BY <2>6, <3>1, AnswersOf
      <3>3. "sender" \notin tq'.asleep
        BY <2>2, <3>1
      <3> QED BY <3>2, <3>3 DEF NoLostWakeUp
    <2> QED BY <1>1, <2>3, <2>4, <2>5, <2>6, ReceiveEffect
  <1>11. CASE UNCHANGED muxerVars
    BY <1>2, <1>11 DEF muxerVars, mainVars
  <1> QED BY <1>3, <1>4, <1>5, <1>6, <1>7, <1>8, <1>9, <1>10, <1>11
          DEF MuxerNext, MainStep, MuxerThread

(***************************************************************************)
(* The theorems.                                                           *)
(***************************************************************************)

LEMMA RefusalsStep ==
  ASSUME Inv, SendIsNeverInvalid, [MuxerNext]_muxerVars
  PROVE  SendIsNeverInvalid'
  <1>1. CASE sendToThread
    BY <1>1, sendToThread_Inv DEF SendIsNeverInvalid
  <1>2. CASE MainCall
    <2>1. refusals' \subseteq refusals \union {"ENOSPC"}
      BY <1>2 DEF MainCall, of_write_trailer, of_close, of_output_packet, of_stream_init,
                  submit_packet, queue_packet
    <2> QED BY <2>1 DEF SendIsNeverInvalid
  <1>3. CASE flushMuxingQueue \/ finishStream \/ stopStreams
    BY <1>3 DEF flushMuxingQueue, finishStream, stopStreams, SendIsNeverInvalid
  <1>4. CASE \E result \in {"written", "failed"} : joinThread(result)
    BY <1>4 DEF joinThread, SendIsNeverInvalid
  <1>5. CASE MuxerThread
    BY <1>5 DEF MuxerThread, finishThread, receivePacket, mainVars, SendIsNeverInvalid
  <1>6. CASE UNCHANGED muxerVars
    BY <1>6 DEF muxerVars, mainVars, SendIsNeverInvalid
  <1> QED BY <1>1, <1>2, <1>3, <1>4, <1>5, <1>6 DEF MuxerNext, MainStep

THEOREM MuxerTypes == MuxerSpec => []MuxerTypeOK
  <1>1. Inv => MuxerTypeOK
    BY DEF Inv
  <1> QED BY <1>1, MuxerInitInv, MuxerNextInv, PTL DEF MuxerSpec

(* thread_stop joins the thread before it frees the queue, and no call of  *)
(* the main thread starts a thread without one.                            *)
THEOREM QueueOutlives == MuxerSpec => []QueueOutlivesThread
  <1>1. Inv => QueueOutlivesThread
    BY DEF Inv, Phases
  <1> QED BY <1>1, MuxerInitInv, MuxerNextInv, PTL DEF MuxerSpec

(* MUXER_FINISHED, which the main thread reads without the lock, is never  *)
(* behind FINISHED_SEND when a packet is sent.                             *)
THEOREM SendIsValid == MuxerSpec => []SendIsNeverInvalid
  <1>1. MuxerInit => SendIsNeverInvalid
    BY DEF MuxerInit, SendIsNeverInvalid
  <1> QED BY <1>1, MuxerInitInv, MuxerNextInv, RefusalsStep, PTL DEF MuxerSpec

(* Neither side of the queue sleeps over what it waits for, though tq_send *)
(* and tq_receive broadcast on only some of their paths.                   *)
THEOREM WakeUpsArrive == MuxerSpec => []NoLostWakeUp
  <1>1. MuxerInit => NoLostWakeUp
    BY DEF MuxerInit, NoLostWakeUp, tq_alloc
  <1> QED BY <1>1, MuxerInitInv, MuxerNextInv, WakeUpStep, PTL DEF MuxerSpec

(***************************************************************************)
(* The file is what MuxContract promises.  A packet moves from the muxing  *)
(* queue to the hand of the main thread, to the queue between the threads  *)
(* and to the file, and at each place are only packets younger than those  *)
(* at the next one.                                                        *)
(***************************************************************************)

Elements(q) == {q[i] : i \in 1..Len(q)}
PacketsOf(fifo, s) == {p \in Nat : \E i \in 1..Len(fifo) : fifo[i].ost = s /\ fifo[i].pkt = p}
InHand(s) == IF at = "send" /\ cargo.ost = s THEN {cargo.pkt} ELSE {}
Kept(q) == Elements(q) \ {NULL}

Older(A, B) == \A a \in A, b \in B : a < b

(* F in the file, Q in the queue, H in hand, W in the muxing queue, of the *)
(* n packets given.                                                        *)
Lined(F, Q, H, W, n) ==
  /\ F \union Q \union H \union W \subseteq 1..n
  /\ Older(F, Q \union H \union W) /\ Older(Q, H \union W) /\ Older(H, W)

QueueOrdered(fifo) ==
  \A i, j \in 1..Len(fifo) : i < j /\ fifo[i].ost = fifo[j].ost => fifo[i].pkt < fifo[j].pkt

KeptOrdered(q) == \A i, j \in 1..Len(q) : i < j /\ q[i] # NULL /\ q[j] # NULL => q[i] < q[j]

Order ==
  /\ \A s \in Streams :
       /\ Lined(Elements(file[s]), PacketsOf(tq.fifo, s), InHand(s), Kept(muxingQueue[s]), given[s])
       /\ KeptOrdered(muxingQueue[s])
       /\ running /\ ~flushing => muxingQueue[s] = <<>>
  /\ QueueOrdered(tq.fifo)

(* A packet is given, taken in hand, sent, received; or packets are lost.  *)
LEMMA Moves ==
  ASSUME NEW F, NEW Q, NEW H, NEW W, NEW n \in Nat, Lined(F, Q, H, W, n)
  PROVE  /\ Lined(F, Q, H, W, n + 1)
         /\ Lined(F, Q, H, W \union {n + 1}, n + 1)
         /\ H = {} /\ W = {} => Lined(F, Q, {n + 1}, {}, n + 1)
         /\ \A p \in W, V \in SUBSET W : H = {} /\ Older({p}, V) => Lined(F, Q, {p}, V, n)
         /\ \A p : H = {p} => Lined(F, Q \union {p}, {}, W, n)
         /\ \A p \in Q, V \in SUBSET Q : Older({p}, V) => Lined(F \union {p}, V, H, W, n)
         /\ \A E \in SUBSET F, P \in SUBSET Q, I \in SUBSET H, V \in SUBSET W :
              Lined(E, P, I, V, n)
  <1>1. \A x \in F \union Q \union H \union W : x \in Nat /\ 1 <= x /\ x <= n
    BY DEF Lined
  <1>2. Older(F, Q \union H \union W) /\ Older(Q, H \union W) /\ Older(H, W)
    BY DEF Lined
  <1>3. F \union Q \union H \union W \union {n + 1} \subseteq 1..(n + 1)
    BY <1>1
  <1>4. Older(F \union Q \union H \union W, {n + 1})
    BY <1>1 DEF Older
  <1>5. Lined(F, Q, H, W, n + 1)
    BY <1>2, <1>3 DEF Lined
  <1>6. Lined(F, Q, H, W \union {n + 1}, n + 1)
    BY <1>2, <1>3, <1>4 DEF Lined, Older
  <1>7. H = {} /\ W = {} => Lined(F, Q, {n + 1}, {}, n + 1)
    BY <1>2, <1>3, <1>4 DEF Lined, Older
  <1>8. ASSUME NEW p \in W, NEW V \in SUBSET W, H = {}, Older({p}, V)
        PROVE  Lined(F, Q, {p}, V, n)
    BY <1>8 DEF Lined, Older
  <1>9. ASSUME NEW p, H = {p} PROVE Lined(F, Q \union {p}, {}, W, n)
    BY <1>9 DEF Lined, Older
  <1>10. ASSUME NEW p \in Q, NEW V \in SUBSET Q, Older({p}, V)
         PROVE  Lined(F \union {p}, V, H, W, n)
    BY <1>10 DEF Lined, Older
  <1>11. ASSUME NEW E \in SUBSET F, NEW P \in SUBSET Q, NEW I \in SUBSET H, NEW V \in SUBSET W
         PROVE  Lined(E, P, I, V, n)
    BY DEF Lined, Older
  <1> QED BY <1>5, <1>6, <1>7, <1>8, <1>9, <1>10, <1>11

LEMMA ElementsOfAppend ==
  ASSUME NEW q \in Seq(Nat), NEW p \in Nat
  PROVE  Elements(Append(q, p)) = Elements(q) \union {p}
  <1>1. /\ Len(Append(q, p)) = Len(q) + 1 /\ Len(q) \in Nat
        /\ Append(q, p)[Len(q) + 1] = p
        /\ \A i \in 1..Len(q) : Append(q, p)[i] = q[i]
    OBVIOUS
  <1>2. 1..(Len(q) + 1) = (1..Len(q)) \union {Len(q) + 1}
    BY <1>1
  <1>3. Elements(Append(q, p)) \subseteq Elements(q) \union {p}
    BY <1>1, <1>2 DEF Elements
  <1>4. Elements(q) \union {p} \subseteq Elements(Append(q, p))
    BY <1>1, <1>2 DEF Elements
  <1> QED BY <1>3, <1>4

(* What is at the head of a muxing queue is older than what follows.       *)
LEMMA TailOfKept ==
  ASSUME NEW q \in Seq(Nat), q # <<>>, KeptOrdered(q)
  PROVE  /\ Kept(Tail(q)) \subseteq Kept(q) /\ KeptOrdered(Tail(q))
         /\ Head(q) # NULL => Head(q) \in Kept(q) /\ Older({Head(q)}, Kept(Tail(q)))
  <1>1. /\ Len(q) \in Nat /\ Len(q) >= 1 /\ Head(q) = q[1]
        /\ Len(Tail(q)) = Len(q) - 1
        /\ \A i \in 1..Len(Tail(q)) : Tail(q)[i] = q[i + 1]
    OBVIOUS
  <1>2. \A i \in 1..Len(Tail(q)) : i + 1 \in 1..Len(q) /\ 1 \in 1..Len(q) /\ 1 < i + 1
    BY <1>1
  <1>3. Kept(Tail(q)) \subseteq Kept(q)
    BY <1>1, <1>2 DEF Kept, Elements
  <1>4. KeptOrdered(Tail(q))
    <2> SUFFICES ASSUME NEW i \in 1..Len(Tail(q)), NEW j \in 1..Len(Tail(q)), i < j,
                        Tail(q)[i] # NULL, Tail(q)[j] # NULL
                 PROVE  Tail(q)[i] < Tail(q)[j]
      BY DEF KeptOrdered
    <2>1. i + 1 < j + 1 /\ Tail(q)[i] = q[i + 1] /\ Tail(q)[j] = q[j + 1]
      BY <1>1
    <2> QED BY <1>2, <2>1 DEF KeptOrdered
  <1>5. ASSUME Head(q) # NULL
        PROVE  Head(q) \in Kept(q) /\ Older({Head(q)}, Kept(Tail(q)))
    <2>1. Head(q) \in Kept(q)
      BY <1>1, <1>5 DEF Kept, Elements
    <2>2. ASSUME NEW b \in Kept(Tail(q)) PROVE Head(q) < b
      <3>1. PICK i \in 1..Len(Tail(q)) : b = Tail(q)[i] /\ b # NULL
        BY DEF Kept, Elements
      <3> QED BY <1>1, <1>2, <1>5, <3>1 DEF KeptOrdered
    <2> QED BY <2>1, <2>2 DEF Older
  <1> QED BY <1>3, <1>4, <1>5

LEMMA AppendToKept ==
  ASSUME NEW q \in Seq(Nat), NEW p \in Nat, KeptOrdered(q),
         p = NULL \/ Older(Kept(q), {p})
  PROVE  /\ KeptOrdered(Append(q, p))
         /\ Kept(Append(q, p)) = IF p = NULL THEN Kept(q) ELSE Kept(q) \union {p}
  <1>1. /\ Len(Append(q, p)) = Len(q) + 1 /\ Len(q) \in Nat
        /\ Append(q, p)[Len(q) + 1] = p
        /\ \A i \in 1..Len(q) : Append(q, p)[i] = q[i]
    OBVIOUS
  <1>2. KeptOrdered(Append(q, p))
    <2> SUFFICES ASSUME NEW i \in 1..(Len(q) + 1), NEW j \in 1..(Len(q) + 1), i < j,
                        Append(q, p)[i] # NULL, Append(q, p)[j] # NULL
                 PROVE  Append(q, p)[i] < Append(q, p)[j]
      BY <1>1 DEF KeptOrdered
    <2>1. i \in 1..Len(q) /\ Append(q, p)[i] = q[i]
      BY <1>1
    <2>2. CASE j \in 1..Len(q)
      BY <1>1, <2>1, <2>2 DEF KeptOrdered
    <2>3. CASE j = Len(q) + 1
      <3>1. q[i] \in Kept(q) /\ p # NULL
        BY <1>1, <2>1, <2>3 DEF Kept, Elements
      <3> QED BY <1>1, <2>1, <2>3, <3>1 DEF Older
    <2> QED BY <1>1, <2>2, <2>3
  <1> QED BY <1>2, ElementsOfAppend DEF Kept

LEMMA FifoAppend ==
  ASSUME NEW f \in Seq(Items), NEW s \in Streams, NEW p \in Nat, QueueOrdered(f),
         Older(PacketsOf(f, s), {p})
  PROVE  /\ QueueOrdered(Append(f, [ost |-> s, pkt |-> p]))
         /\ PacketsOf(Append(f, [ost |-> s, pkt |-> p]), s) = PacketsOf(f, s) \union {p}
         /\ \A r \in Streams : r # s =>
              PacketsOf(Append(f, [ost |-> s, pkt |-> p]), r) = PacketsOf(f, r)
  <1> DEFINE it == [ost |-> s, pkt |-> p]
             g == Append(f, it)
  <1>1. it \in Items /\ it.ost = s /\ it.pkt = p
    BY DEF Items
  <1> HIDE DEF it
  <1>2. /\ Len(g) = Len(f) + 1 /\ Len(f) \in Nat /\ g[Len(f) + 1] = it
        /\ \A i \in 1..Len(f) : g[i] = f[i] /\ f[i] \in Items
    BY <1>1
  <1> HIDE DEF g
  <1>3. QueueOrdered(g)
    <2> SUFFICES ASSUME NEW i \in 1..(Len(f) + 1), NEW j \in 1..(Len(f) + 1), i < j,
                        g[i].ost = g[j].ost
                 PROVE  g[i].pkt < g[j].pkt
      BY <1>2 DEF QueueOrdered
    <2>1. i \in 1..Len(f) /\ g[i] = f[i]
      BY <1>2
    <2>2. CASE j \in 1..Len(f)
      BY <1>2, <2>1, <2>2 DEF QueueOrdered
    <2>3. CASE j = Len(f) + 1
      <3>1. f[i].ost = s /\ f[i].pkt \in PacketsOf(f, s)
        BY <1>1, <1>2, <2>1, <2>3 DEF PacketsOf, Items
      <3> QED BY <1>1, <1>2, <2>1, <2>3, <3>1 DEF Older
    <2> QED BY <1>2, <2>2, <2>3
  <1>4. ASSUME NEW r \in Streams
        PROVE  PacketsOf(g, r) = IF r = s THEN PacketsOf(f, r) \union {p} ELSE PacketsOf(f, r)
    <2>1. PacketsOf(f, r) \subseteq PacketsOf(g, r)
      BY <1>2 DEF PacketsOf
    <2>2. r = s => p \in PacketsOf(g, r)
      BY <1>1, <1>2 DEF PacketsOf
    <2>3. ASSUME NEW x \in PacketsOf(g, r)
          PROVE  x \in IF r = s THEN PacketsOf(f, r) \union {p} ELSE PacketsOf(f, r)
      <3>1. PICK i \in 1..(Len(f) + 1) : g[i].ost = r /\ g[i].pkt = x
        BY <1>2 DEF PacketsOf
      <3>2. CASE i \in 1..Len(f)
        BY <1>2, <3>1, <3>2 DEF PacketsOf
      <3>3. CASE i = Len(f) + 1
        BY <1>1, <1>2, <3>1, <3>3
      <3> QED BY <1>2, <3>2, <3>3
    <2> QED BY <2>1, <2>2, <2>3
  <1> QED BY <1>3, <1>4 DEF g, it

LEMMA FifoTail ==
  ASSUME NEW f \in Seq(Items), f # <<>>, QueueOrdered(f)
  PROVE  /\ QueueOrdered(Tail(f))
         /\ \A r \in Streams : PacketsOf(Tail(f), r) \subseteq PacketsOf(f, r)
         /\ Head(f).pkt \in PacketsOf(f, Head(f).ost)
         /\ Older({Head(f).pkt}, PacketsOf(Tail(f), Head(f).ost))
  <1>1. /\ Len(f) \in Nat /\ Len(f) >= 1 /\ Head(f) = f[1] /\ Head(f) \in Items
        /\ Len(Tail(f)) = Len(f) - 1
        /\ \A i \in 1..Len(Tail(f)) : Tail(f)[i] = f[i + 1]
    OBVIOUS
  <1> DEFINE g == Tail(f)
             h == Head(f)
  <1>2. \A i \in 1..Len(g) : i + 1 \in 1..Len(f) /\ 1 \in 1..Len(f) /\ 1 < i + 1
    BY <1>1
  <1>3. QueueOrdered(g)
    <2> SUFFICES ASSUME NEW i \in 1..Len(g), NEW j \in 1..Len(g), i < j, g[i].ost = g[j].ost
                 PROVE  g[i].pkt < g[j].pkt
      BY DEF QueueOrdered
    <2>1. i + 1 < j + 1 /\ g[i] = f[i + 1] /\ g[j] = f[j + 1]
      BY <1>1
    <2> QED BY <1>2, <2>1 DEF QueueOrdered
  <1>4. \A r \in Streams : PacketsOf(g, r) \subseteq PacketsOf(f, r)
    BY <1>1, <1>2 DEF PacketsOf
  <1>5. h.pkt \in PacketsOf(f, h.ost)
    BY <1>1 DEF PacketsOf, Items
  <1>6. ASSUME NEW b \in PacketsOf(g, h.ost) PROVE h.pkt < b
    <2>1. PICK i \in 1..Len(g) : g[i].ost = h.ost /\ g[i].pkt = b
      BY DEF PacketsOf
    <2> QED BY <1>1, <1>2, <2>1 DEF QueueOrdered
  <1> QED BY <1>3, <1>4, <1>5, <1>6 DEF Older

LEMMA OrderOf ==
  ASSUME Inv, Order, NEW s \in Streams
  PROVE  /\ Lined(Elements(file[s]), PacketsOf(tq.fifo, s), InHand(s), Kept(muxingQueue[s]),
                  given[s])
         /\ KeptOrdered(muxingQueue[s]) /\ QueueOrdered(tq.fifo)
         /\ running /\ ~flushing => muxingQueue[s] = <<>>
         /\ given[s] \in Nat /\ muxingQueue[s] \in Seq(Nat) /\ file[s] \in Seq(Nat)
         /\ tq \in Queues /\ tq.fifo \in Seq(Items)
  BY QueueFields DEF Order, Inv, MuxerTypeOK

(* Steps that move no packet, except that they may drop the one in hand.   *)
LEMMA NothingMoves ==
  ASSUME Inv, Order, UNCHANGED <<file, muxingQueue, given>>, tq'.fifo = tq.fifo,
         \A s \in Streams : InHand(s)' \subseteq InHand(s),
         running' /\ ~flushing' => running /\ ~flushing
  PROVE  Order'
  <1>1. ASSUME NEW s \in Streams
        PROVE  /\ Lined(Elements(file[s]), PacketsOf(tq.fifo, s), InHand(s),
                        Kept(muxingQueue[s]), given[s])'
               /\ KeptOrdered(muxingQueue[s])'
               /\ (running /\ ~flushing => muxingQueue[s] = <<>>)'
    <2>1. Lined(Elements(file[s]), PacketsOf(tq.fifo, s), InHand(s)', Kept(muxingQueue[s]),
                given[s])
      BY OrderOf, Moves
    <2> QED BY <2>1, OrderOf
  <1>2. QueueOrdered(tq.fifo)'
    BY DEF Order
  <1> QED BY <1>1, <1>2 DEF Order

LEMMA of_stream_init_Order ==
  ASSUME Inv, Order, NEW s \in Streams, NEW result, of_stream_init(s, result)
  PROVE  Order'
  <1>1. muxPc = "none" /\ ~running /\ ~flushing
    BY DEF Inv, Phases, QueueOutlivesThread, of_stream_init, Writable, Free
  <1>2. tq' = tq
    BY <1>1 DEF Inv, Phases, of_stream_init
  <1>3. /\ UNCHANGED <<file, muxingQueue, given, at, cargo>>
        /\ running' => flushing'
    BY <1>1 DEF of_stream_init
  <1>4. \A r \in Streams : InHand(r)' \subseteq InHand(r)
    BY <1>3 DEF InHand
  <1> QED BY <1>2, <1>3, <1>4, NothingMoves

LEMMA of_output_packet_Order ==
  ASSUME Inv, Order, NEW s \in Streams, NEW eof \in BOOLEAN, of_output_packet(s, eof)
  PROVE  Order'
  <1> DEFINE pkt == IF eof THEN NULL ELSE given'[s]
             n == given[s]
  <1>1. /\ given \in [Streams -> Nat] /\ muxingQueue \in [Streams -> Seq(Nat)]
        /\ given' = IF eof THEN given ELSE [given EXCEPT ![s] = given[s] + 1]
        /\ at = "idle" /\ ~flushing /\ submit_packet(s, pkt)
        /\ UNCHANGED <<file, tq, running, flushing>>
    BY DEF of_output_packet, Writable, Free, threadVars, Inv, MuxerTypeOK
  <1>2. \A r \in Streams : given'[r] = IF r = s /\ ~eof THEN n + 1 ELSE given[r]
    BY <1>1
  <1>3. pkt = IF eof THEN NULL ELSE n + 1
    BY <1>2
  <1>4. pkt \in Nat /\ (pkt = NULL <=> eof) /\ n \in Nat
    BY <1>1, <1>3 DEF NULL
  <1>5. \A r \in Streams : InHand(r) = {}
    BY <1>1 DEF InHand
  <1> HIDE DEF pkt
  <1>6. CASE running
    <2>1. /\ cargo' = [ost |-> s, pkt |-> pkt] /\ UNCHANGED muxingQueue
          /\ at' = "send" => pkt # NULL
      BY <1>1, <1>6 DEF submit_packet, thread_submit_packet
    <2>2. ASSUME NEW r \in Streams
          PROVE  /\ Lined(Elements(file[r]), PacketsOf(tq.fifo, r), InHand(r),
                          Kept(muxingQueue[r]), given[r])'
                 /\ KeptOrdered(muxingQueue[r])'
                 /\ (running /\ ~flushing => muxingQueue[r] = <<>>)'
      <3>1. /\ Lined(Elements(file[r]), PacketsOf(tq.fifo, r), {}, Kept(muxingQueue[r]), given[r])
            /\ KeptOrdered(muxingQueue[r]) /\ muxingQueue[r] = <<>> /\ given[r] \in Nat
        BY <1>1, <1>5, <1>6, OrderOf
      <3>2. Kept(muxingQueue[r]) = {}
        BY <3>1 DEF Kept, Elements
      <3>3. CASE r = s /\ at' = "send"
        <4>1. InHand(r)' = {n + 1} /\ given'[r] = n + 1
          BY <1>2, <1>3, <1>4, <2>1, <3>3 DEF InHand
        <4>2. Lined(Elements(file[r]), PacketsOf(tq.fifo, r), {n + 1}, {}, n + 1)
          BY <3>1, <3>2, <3>3, Moves
        <4> QED BY <1>1, <2>1, <3>1, <3>2, <4>1, <4>2
      <3>4. CASE ~(r = s /\ at' = "send")
        <4>1. InHand(r)' = {}
          BY <2>1, <3>4 DEF InHand
        <4>2. given'[r] \in {given[r], given[r] + 1}
          BY <1>2
        <4>3. Lined(Elements(file[r]), PacketsOf(tq.fifo, r), {}, Kept(muxingQueue[r]), given'[r])
          <5>1. Lined(Elements(file[r]), PacketsOf(tq.fifo, r), {}, Kept(muxingQueue[r]),
                      given[r] + 1)
            BY <3>1, Moves
          <5> QED BY <3>1, <4>2, <5>1
        <4> QED BY <1>1, <2>1, <3>1, <4>1, <4>3
      <3> QED BY <3>3, <3>4
    <2>3. QueueOrdered(tq.fifo)'
      BY <1>1 DEF Order
    <2> QED BY <2>2, <2>3 DEF Order
  <1>7. CASE ~running
    <2>1. /\ UNCHANGED <<at, cargo>>
          /\ \/ muxingQueue' = [muxingQueue EXCEPT ![s] = Append(muxingQueue[s], pkt)]
             \/ UNCHANGED muxingQueue
      BY <1>1, <1>7 DEF submit_packet, queue_packet
    <2>2. ASSUME NEW r \in Streams
          PROVE  /\ Lined(Elements(file[r]), PacketsOf(tq.fifo, r), InHand(r),
                          Kept(muxingQueue[r]), given[r])'
                 /\ KeptOrdered(muxingQueue[r])'
      <3>1. /\ Lined(Elements(file[r]), PacketsOf(tq.fifo, r), {}, Kept(muxingQueue[r]), given[r])
            /\ KeptOrdered(muxingQueue[r]) /\ given[r] \in Nat /\ muxingQueue[r] \in Seq(Nat)
        BY <1>5, OrderOf
      <3>2. InHand(r)' = {}
        BY <1>1, <2>1 DEF InHand
      <3>3. CASE r = s /\ muxingQueue' = [muxingQueue EXCEPT ![s] = Append(muxingQueue[s], pkt)]
        <4>1. muxingQueue'[r] = Append(muxingQueue[r], pkt)
          BY <1>1, <3>3
        <4>2. Older(Kept(muxingQueue[r]), {n + 1})
          BY <3>1, <3>3 DEF Lined, Older
        <4>3. pkt = NULL \/ Older(Kept(muxingQueue[r]), {pkt})
          BY <1>3, <1>4, <4>2
        <4>4. /\ KeptOrdered(muxingQueue'[r])
              /\ Kept(muxingQueue'[r]) = IF pkt = NULL THEN Kept(muxingQueue[r])
                                         ELSE Kept(muxingQueue[r]) \union {pkt}
          BY <1>4, <3>1, <4>1, <4>3, AppendToKept
        <4>5. Lined(Elements(file[r]), PacketsOf(tq.fifo, r), {}, Kept(muxingQueue'[r]), given'[r])
          <5>1. CASE eof
            BY <1>2, <1>4, <3>1, <4>4, <5>1
          <5>2. CASE ~eof
            <6>1. pkt = n + 1 /\ given'[r] = n + 1 /\ pkt # NULL
              BY <1>2, <1>3, <1>4, <3>3, <5>2
            <6>2. Lined(Elements(file[r]), PacketsOf(tq.fifo, r), {},
                        Kept(muxingQueue[r]) \union {n + 1}, n + 1)
              BY <3>1, <3>3, Moves
            <6> QED BY <4>4, <6>1, <6>2
          <5> QED BY <5>1, <5>2
        <4> QED BY <1>1, <3>2, <4>4, <4>5
      <3>4. CASE ~(r = s /\ muxingQueue' = [muxingQueue EXCEPT ![s] = Append(muxingQueue[s], pkt)])
        <4>1. muxingQueue'[r] = muxingQueue[r]
          BY <1>1, <2>1, <3>4
        <4>2. given'[r] \in {given[r], given[r] + 1}
          BY <1>2
        <4>3. Lined(Elements(file[r]), PacketsOf(tq.fifo, r), {}, Kept(muxingQueue[r]), given'[r])
          <5>1. Lined(Elements(file[r]), PacketsOf(tq.fifo, r), {}, Kept(muxingQueue[r]),
                      given[r] + 1)
            BY <3>1, Moves
          <5> QED BY <3>1, <4>2, <5>1
        <4> QED BY <1>1, <3>1, <3>2, <4>1, <4>3
      <3> QED BY <3>3, <3>4
    <2>3. QueueOrdered(tq.fifo)'
      BY <1>1 DEF Order
    <2> QED BY <1>1, <1>7, <2>2, <2>3 DEF Order
  <1> QED BY <1>6, <1>7

LEMMA flushMuxingQueue_Order ==
  ASSUME Inv, Order, flushMuxingQueue
  PROVE  Order'
  <1> DEFINE waiting == {s \in Streams : muxingQueue[s] # <<>>}
             s == First(waiting)
  <1>1. /\ flushing /\ at = "idle"
        /\ UNCHANGED <<file, tq, running, given>>
    BY DEF flushMuxingQueue, threadVars
  <1>2. \A r \in Streams : InHand(r) = {}
    BY <1>1 DEF InHand
  <1>3. CASE waiting = {}
    <2>1. flushing' = FALSE /\ UNCHANGED <<at, cargo, muxingQueue>>
      BY <1>3 DEF flushMuxingQueue
    <2>2. \A r \in Streams : muxingQueue'[r] = <<>>
      BY <1>3, <2>1
    <2>3. \A r \in Streams : InHand(r)' = InHand(r)
      BY <2>1 DEF InHand
    <2> QED BY <1>1, <2>1, <2>2, <2>3 DEF Order
  <1>4. CASE waiting # {}
    <2>1. /\ cargo' = [ost |-> s, pkt |-> Head(muxingQueue[s])]
          /\ at' = "send" => Head(muxingQueue[s]) # NULL
          /\ muxingQueue' = [muxingQueue EXCEPT ![s] = Tail(muxingQueue[s])]
          /\ UNCHANGED flushing
      BY <1>4 DEF flushMuxingQueue, thread_submit_packet
    <2>2. s \in Streams /\ muxingQueue[s] # <<>> /\ muxingQueue[s] \in Seq(Nat)
      BY <1>4, WaitingStream DEF Inv
    <2> HIDE DEF s
    <2>3. muxingQueue \in [Streams -> Seq(Nat)]
      BY DEF Inv, MuxerTypeOK
    <2>4. ASSUME NEW r \in Streams
          PROVE  /\ Lined(Elements(file[r]), PacketsOf(tq.fifo, r), InHand(r),
                          Kept(muxingQueue[r]), given[r])'
                 /\ KeptOrdered(muxingQueue[r])'
      <3>1. /\ Lined(Elements(file[r]), PacketsOf(tq.fifo, r), {}, Kept(muxingQueue[r]), given[r])
            /\ KeptOrdered(muxingQueue[r]) /\ given[r] \in Nat
        BY <1>2, OrderOf
      <3>2. CASE r # s
        <4>1. muxingQueue'[r] = muxingQueue[r]
          BY <2>1, <2>3, <3>2
        <4>2. InHand(r)' = {}
          BY <2>1, <3>2 DEF InHand
        <4> QED BY <1>1, <3>1, <4>1, <4>2
      <3>3. CASE r = s
        <4> DEFINE p == Head(muxingQueue[s])
                   V == Kept(Tail(muxingQueue[s]))
        <4>1. muxingQueue'[r] = Tail(muxingQueue[s])
          BY <2>1, <2>2, <2>3, <3>3
        <4>2. /\ V \subseteq Kept(muxingQueue[s]) /\ KeptOrdered(Tail(muxingQueue[s]))
              /\ p # NULL => p \in Kept(muxingQueue[s]) /\ Older({p}, V)
          BY <2>2, <3>1, <3>3, TailOfKept
        <4>3. InHand(r)' = IF at' = "send" THEN {p} ELSE {}
          BY <2>1, <3>3 DEF InHand
        <4> HIDE DEF p, V
        <4>4. Lined(Elements(file[r]), PacketsOf(tq.fifo, r), InHand(r)', V, given[r])
          <5>1. CASE at' = "send"
            <6>1. p # NULL
              BY <2>1, <5>1 DEF p
            <6>2. p \in Kept(muxingQueue[r]) /\ Older({p}, V) /\ V \in SUBSET Kept(muxingQueue[r])
              BY <3>3, <4>2, <6>1
            <6> QED BY <3>1, <4>3, <5>1, <6>2, Moves
          <5>2. CASE at' # "send"
            <6>1. V \in SUBSET Kept(muxingQueue[r])
              BY <3>3, <4>2
            <6> QED BY <3>1, <4>3, <5>2, <6>1, Moves
          <5> QED BY <5>1, <5>2
        <4> QED BY <1>1, <4>1, <4>2, <4>4 DEF V
      <3> QED BY <3>2, <3>3
    <2>5. QueueOrdered(tq.fifo)'
      BY <1>1 DEF Order
    <2> QED BY <1>1, <2>1, <2>4, <2>5 DEF Order
  <1> QED BY <1>3, <1>4

LEMMA sendToThread_Order ==
  ASSUME Inv, Order, sendToThread
  PROVE  Order'
  <1> DEFINE s == cargo.ost
             p == cargo.pkt
             answer == sendAnswer(tq, cargo.ost)
  <1>1. /\ at = "send" /\ tq' = tq_send(tq, s, p)
        /\ at' = CASE answer = "ok" -> "idle" [] answer = "wait" -> "send" [] OTHER -> "refused"
        /\ cargo' = IF answer = "ok" THEN Nothing ELSE cargo
        /\ UNCHANGED <<file, running, muxingQueue, flushing, given>>
    BY DEF sendToThread, threadVars
  <1>2. s \in Streams /\ p \in Nat /\ tq \in Queues
    BY DEF Inv, MuxerTypeOK, Items
  <1>3. CASE answer = "ok"
    <2>1. tq'.fifo = Append(tq.fifo, [ost |-> s, pkt |-> p]) /\ at' = "idle"
      BY <1>1, <1>2, <1>3, SendEffect
    <2>2. \A r \in Streams : InHand(r) = (IF r = s THEN {p} ELSE {}) /\ InHand(r)' = {}
      BY <1>1, <2>1 DEF InHand
    <2> HIDE DEF s, p
    <2>3. /\ Lined(Elements(file[s]), PacketsOf(tq.fifo, s), {p}, Kept(muxingQueue[s]), given[s])
          /\ QueueOrdered(tq.fifo) /\ tq.fifo \in Seq(Items) /\ given[s] \in Nat
      BY <1>2, <2>2, OrderOf
    <2>4. Older(PacketsOf(tq.fifo, s), {p})
      BY <2>3 DEF Lined, Older
    <2>5. /\ QueueOrdered(tq'.fifo)
          /\ PacketsOf(tq'.fifo, s) = PacketsOf(tq.fifo, s) \union {p}
          /\ \A r \in Streams : r # s => PacketsOf(tq'.fifo, r) = PacketsOf(tq.fifo, r)
      BY <1>2, <2>1, <2>3, <2>4, FifoAppend
    <2>6. ASSUME NEW r \in Streams
          PROVE  Lined(Elements(file[r]), PacketsOf(tq.fifo, r), InHand(r),
                       Kept(muxingQueue[r]), given[r])'
      <3>1. CASE r = s
        <4>1. Lined(Elements(file[s]), PacketsOf(tq.fifo, s) \union {p}, {},
                    Kept(muxingQueue[s]), given[s])
          BY <2>3, Moves
        <4> QED BY <1>1, <2>2, <2>5, <3>1, <4>1
      <3>2. CASE r # s
        BY <1>1, <2>2, <2>5, <3>2, OrderOf
      <3> QED BY <3>1, <3>2
    <2> QED BY <1>1, <2>5, <2>6 DEF Order
  <1>4. CASE answer # "ok"
    <2>1. tq'.fifo = tq.fifo /\ cargo' = cargo
      <3>1. tq_send(tq, s, p).fifo = tq.fifo
        BY <1>2, <1>4, RefusedLeavesFifo
      <3>2. tq'.fifo = tq.fifo
        BY <1>1, <3>1
      <3>3. cargo' = cargo
        BY <1>1, <1>4
      <3> QED BY <3>2, <3>3
    <2>2. \A r \in Streams : InHand(r)' \subseteq InHand(r)
      BY <1>1, <2>1 DEF InHand
    <2> QED BY <1>1, <2>1, <2>2, NothingMoves
  <1> QED BY <1>3, <1>4

LEMMA receivePacket_Order ==
  ASSUME Inv, Order, NEW result \in Answers, receivePacket(result)
  PROVE  /\ Order'
         /\ UNCHANGED mainVars
         /\ \/ UNCHANGED file
            \/ \E s \in Streams : \E pkt \in 1..given[s] :
                 /\ Older(Elements(file[s]), {pkt}) /\ running
                 /\ file' = [file EXCEPT ![s] = Append(file[s], pkt)]
  <1>1. /\ tq' = tq_receive(tq) /\ tq \in Queues /\ UNCHANGED mainVars /\ running
        /\ file \in [Streams -> Seq(Nat)]
    BY DEF receivePacket, Inv, MuxerTypeOK, Phases, QueueOutlivesThread
  <1>2. \A r \in Streams : InHand(r)' = InHand(r)
    BY <1>1 DEF InHand, mainVars
  <1>3. CASE receiveAnswer(tq) # "ok"
    <2>1. tq'.fifo = tq.fifo /\ UNCHANGED file
      BY <1>1, <1>3, ReceiveEffect DEF receivePacket
    <2> QED BY <1>1, <1>2, <2>1, NothingMoves DEF mainVars
  <1>4. CASE receiveAnswer(tq) = "ok"
    <2> DEFINE s == received(tq).ost
               p == received(tq).pkt
    <2>1. /\ tq.fifo # <<>> /\ received(tq) = Head(tq.fifo) /\ received(tq) \in Items
          /\ tq'.fifo = Tail(tq.fifo)
      BY <1>1, <1>4, ReceiveEffect
    <2>2. file' = IF result = "ok" THEN [file EXCEPT ![s] = Append(file[s], p)] ELSE file
      BY <1>4 DEF receivePacket, write_packet
    <2>3. s \in Streams /\ p \in Nat
      BY <2>1 DEF Items
    <2>4. QueueOrdered(tq.fifo) /\ tq.fifo \in Seq(Items)
      BY <2>3, OrderOf
    <2>5. /\ QueueOrdered(tq'.fifo)
          /\ \A r \in Streams : PacketsOf(tq'.fifo, r) \subseteq PacketsOf(tq.fifo, r)
          /\ p \in PacketsOf(tq.fifo, s) /\ Older({p}, PacketsOf(tq'.fifo, s))
      BY <2>1, <2>4, FifoTail
    <2> HIDE DEF s, p
    <2>6. /\ Lined(Elements(file[s]), PacketsOf(tq.fifo, s), InHand(s), Kept(muxingQueue[s]),
                   given[s])
          /\ given[s] \in Nat /\ file[s] \in Seq(Nat)
      BY <2>3, OrderOf
    <2>7. p \in 1..given[s] /\ Older(Elements(file[s]), {p})
      BY <2>5, <2>6 DEF Lined, Older
    <2>8. ASSUME NEW r \in Streams
          PROVE  Lined(Elements(file[r]), PacketsOf(tq.fifo, r), InHand(r),
                       Kept(muxingQueue[r]), given[r])'
      <3>1. CASE r = s /\ result = "ok"
        <4>1. file'[r] = Append(file[s], p)
          BY <1>1, <2>2, <2>3, <3>1
        <4>2. Elements(file'[r]) = Elements(file[s]) \union {p}
          BY <2>3, <2>6, <4>1, ElementsOfAppend
        <4>3. PacketsOf(tq'.fifo, s) \in SUBSET PacketsOf(tq.fifo, s)
          BY <2>3, <2>5
        <4>4. Lined(Elements(file[s]) \union {p}, PacketsOf(tq'.fifo, s), InHand(s),
                    Kept(muxingQueue[s]), given[s])
          BY <2>5, <2>6, <4>3, Moves
        <4> QED BY <1>1, <1>2, <3>1, <4>2, <4>4 DEF mainVars
      <3>2. CASE ~(r = s /\ result = "ok")
        <4>1. file'[r] = file[r]
          BY <1>1, <2>2, <2>3, <3>2
        <4>2. PacketsOf(tq'.fifo, r) \in SUBSET PacketsOf(tq.fifo, r)
          BY <2>5
        <4>3. Lined(Elements(file[r]), PacketsOf(tq'.fifo, r), InHand(r),
                    Kept(muxingQueue[r]), given[r])
          BY <4>2, OrderOf, Moves
        <4> QED BY <1>1, <1>2, <4>1, <4>3 DEF mainVars
      <3> QED BY <3>1, <3>2
    <2>9. Order'
      BY <1>1, <2>5, <2>8 DEF Order, mainVars
    <2> QED BY <1>1, <2>2, <2>3, <2>7, <2>9
  <1> QED BY <1>3, <1>4

LEMMA MuxerNextOrder ==
  ASSUME Inv, Order, [MuxerNext]_muxerVars
  PROVE  Order'
  <1>1. CASE of_write_trailer \/ of_close \/ finishStream
    <2>1. /\ UNCHANGED <<file, muxingQueue, given, running, flushing>>
          /\ at' # "send" /\ tq'.fifo = tq.fifo
      <3>1. tq \in Queues /\ cargo.ost \in Streams
        BY DEF Inv, MuxerTypeOK, Items
      <3> QED BY <1>1, <3>1, SendFinishEffect
              DEF of_write_trailer, of_close, finishStream, threadVars, Writable, Free
    <2>2. \A r \in Streams : InHand(r)' \subseteq InHand(r)
      BY <2>1 DEF InHand
    <2> QED BY <2>1, <2>2, NothingMoves
  <1>2. CASE stopStreams
    <2> DEFINE open == Streams \ tq.sendFinished
    <2>1. /\ UNCHANGED <<file, muxingQueue, given, running, flushing>> /\ at' # "send"
          /\ UNCHANGED tq \/ (open # {} /\ tq' = tq_send_finish(tq, First(open)))
      BY <1>2 DEF stopStreams, threadVars
    <2>2. tq'.fifo = tq.fifo
      <3>1. open # {} => First(open) \in Streams
        BY FirstIsMember
      <3>2. tq \in Queues
        BY DEF Inv, MuxerTypeOK
      <3> QED BY <2>1, <3>1, <3>2, SendFinishEffect
    <2>3. \A r \in Streams : InHand(r)' \subseteq InHand(r)
      BY <2>1 DEF InHand
    <2> QED BY <2>1, <2>2, <2>3, NothingMoves
  <1>3. ASSUME NEW result \in {"written", "failed"}, joinThread(result)
        PROVE  Order'
    <2>1. /\ UNCHANGED <<file, muxingQueue, given>> /\ at' # "send"
          /\ running' = FALSE /\ tq'.fifo = <<>>
      BY <1>3 DEF joinThread, threadVars, tq_alloc
    <2>2. ASSUME NEW r \in Streams
          PROVE  /\ Lined(Elements(file[r]), PacketsOf(tq.fifo, r), InHand(r),
                          Kept(muxingQueue[r]), given[r])'
                 /\ KeptOrdered(muxingQueue[r])'
      <3>1. InHand(r)' = {} /\ PacketsOf(tq'.fifo, r) = {}
        BY <2>1 DEF InHand, PacketsOf
      <3>2. Lined(Elements(file[r]), {}, {}, Kept(muxingQueue[r]), given[r])
        BY OrderOf, Moves
      <3> QED BY <2>1, <3>1, <3>2, OrderOf
    <2>3. QueueOrdered(tq'.fifo)
      BY <2>1 DEF QueueOrdered
    <2> QED BY <2>1, <2>2, <2>3 DEF Order
  <1>4. CASE finishThread
    <2> DEFINE open == Streams \ tq.recvFinished
    <2>1. /\ UNCHANGED mainVars /\ UNCHANGED file
          /\ UNCHANGED tq \/ (open # {} /\ tq' = tq_receive_finish(tq, First(open)))
      BY <1>4 DEF finishThread
    <2>2. tq'.fifo = tq.fifo
      <3>1. open # {} => First(open) \in Streams
        BY FirstIsMember
      <3>2. tq \in Queues
        BY DEF Inv, MuxerTypeOK
      <3> QED BY <2>1, <3>1, <3>2, ReceiveFinishEffect
    <2>3. \A r \in Streams : InHand(r)' \subseteq InHand(r)
      BY <2>1 DEF InHand, mainVars
    <2> QED BY <2>1, <2>2, <2>3, NothingMoves DEF mainVars
  <1>5. CASE UNCHANGED muxerVars
    <2>1. \A r \in Streams : InHand(r)' \subseteq InHand(r)
      BY <1>5 DEF InHand, muxerVars, mainVars
    <2> QED BY <1>5, <2>1, NothingMoves DEF muxerVars, mainVars, threadVars
  <1> QED BY <1>1, <1>2, <1>3, <1>4, <1>5, of_stream_init_Order, of_output_packet_Order,
             flushMuxingQueue_Order, sendToThread_Order, receivePacket_Order
          DEF MuxerNext, MainCall, MainStep, MuxerThread

LEMMA MuxerInitOrder == MuxerInit => Order
  <1> SUFFICES ASSUME MuxerInit PROVE Order
    OBVIOUS
  <1>1. tq.fifo = <<>>
    BY DEF MuxerInit, tq_alloc
  <1>2. ASSUME NEW s \in Streams
        PROVE  /\ Elements(file[s]) = {} /\ PacketsOf(tq.fifo, s) = {} /\ InHand(s) = {}
               /\ Kept(muxingQueue[s]) = {} /\ KeptOrdered(muxingQueue[s])
               /\ muxingQueue[s] = <<>>
    BY <1>1 DEF MuxerInit, Elements, PacketsOf, InHand, Kept, KeptOrdered
  <1>3. \A n : Lined({}, {}, {}, {}, n)
    BY DEF Lined, Older
  <1>4. QueueOrdered(tq.fifo)
    BY <1>1 DEF QueueOrdered
  <1> QED BY <1>2, <1>3, <1>4 DEF Order

(* Every step of the muxer is a step of the contract, or none.             *)
LEMMA ContractStep ==
  ASSUME Inv, Order, [MuxerNext]_muxerVars
  PROVE  [Promised!ContractNext]_(Promised!contractVars)
  <1> DEFINE over == trailer # "none" \/ at = "closed"
  <1>1. CASE UNCHANGED <<given, file>> /\ (over' = over \/ over' = TRUE)
    BY <1>1 DEF Promised!ContractNext, Promised!contractVars, Promised!Close
  <1>2. ASSUME NEW s \in Streams, NEW result, of_stream_init(s, result)
        PROVE  UNCHANGED <<given, file, over>>
    BY <1>2 DEF of_stream_init
  <1>3. ASSUME NEW s \in Streams, NEW eof \in BOOLEAN, of_output_packet(s, eof)
        PROVE  [Promised!ContractNext]_(Promised!contractVars)
    <2>1. at = "idle" /\ at' # "closed" /\ UNCHANGED <<file, trailer>>
      BY <1>3 DEF of_output_packet, Writable, Free, submit_packet, thread_submit_packet,
                  threadVars
    <2>2. given' = given \/ given' = [given EXCEPT ![s] = given[s] + 1]
      BY <1>3 DEF of_output_packet
    <2> QED BY <1>1, <2>1, <2>2 DEF Promised!ContractNext, Promised!contractVars, Promised!Give
  <1>4. CASE of_write_trailer \/ of_close
    BY <1>1, <1>4 DEF of_write_trailer, of_close, Writable, Free, threadVars
  <1>5. CASE flushMuxingQueue \/ sendToThread \/ finishStream \/ stopStreams
    <2>1. /\ at \notin {"closed"} /\ at' \notin {"closed"}
          /\ UNCHANGED <<given, file, trailer>>
      BY <1>5 DEF flushMuxingQueue, thread_submit_packet, sendToThread, finishStream,
                  stopStreams, threadVars
    <2> QED BY <1>1, <2>1
  <1>6. ASSUME NEW result \in {"written", "failed"}, joinThread(result)
        PROVE  [Promised!ContractNext]_(Promised!contractVars)
    <2>1. UNCHANGED <<given, file>> /\ over' = TRUE
      BY <1>6 DEF joinThread, threadVars
    <2> QED BY <1>1, <2>1
  <1>7. CASE finishThread
    BY <1>1, <1>7 DEF finishThread, mainVars
  <1>8. ASSUME NEW result \in Answers, receivePacket(result)
        PROVE  [Promised!ContractNext]_(Promised!contractVars)
    <2>1. UNCHANGED <<given, trailer, at>>
      BY <1>8, receivePacket_Order DEF mainVars
    <2>2. CASE UNCHANGED file
      BY <1>1, <2>1, <2>2
    <2>3. ASSUME NEW s \in Streams, NEW pkt \in 1..given[s],
                 Older(Elements(file[s]), {pkt}), running,
                 file' = [file EXCEPT ![s] = Append(file[s], pkt)]
          PROVE  Promised!ContractNext
      <3>1. ~over
        BY <2>3 DEF Inv, Phases
      <3>2. Promised!Newer(s, pkt)
        BY <2>3 DEF Promised!Newer, Older, Elements
      <3>3. Promised!Write(s, pkt)
        BY <2>1, <2>3, <3>1, <3>2 DEF Promised!Write
      <3> QED BY <3>3 DEF Promised!ContractNext
    <2> QED BY <1>8, <2>2, <2>3, receivePacket_Order
  <1>9. CASE UNCHANGED muxerVars
    BY <1>1, <1>9 DEF muxerVars, mainVars, threadVars
  <1> QED BY <1>1, <1>2, <1>3, <1>4, <1>5, <1>6, <1>7, <1>8, <1>9
          DEF MuxerNext, MainCall, MainStep, MuxerThread

(* For any number of streams, any sizes of the queues and whatever fails:  *)
(* the file holds packets of each stream in the order in which they were   *)
(* given, none twice, and none is written after the trailer.               *)
THEOREM MuxerImplementsContract == MuxerSpec => MuxerKeepsContract
  <1>1. MuxerInit => Promised!ContractInit
    BY DEF MuxerInit, Promised!ContractInit
  <1> QED BY <1>1, MuxerInitInv, MuxerNextInv, MuxerInitOrder, MuxerNextOrder, ContractStep, PTL
          DEF MuxerSpec, MuxerKeepsContract, Promised!Contract

(***************************************************************************)
(* Nothing is lost.  As long as no write fails and nothing is refused,     *)
(* every packet of a stream that was given is in one of its places, if     *)
(* none was given after the end of the stream.                             *)
(***************************************************************************)

Sound == muxRet = "ok" /\ refusals = {}

Places(s) == Elements(file[s]) \union PacketsOf(tq.fifo, s) \union InHand(s)
               \union Kept(muxingQueue[s])

(* The end of the stream was given, or is being refused.                   *)
Refused(s) == s \in muxerFinished \/ (at = "refused" /\ cargo.ost = s)
Ended(s) == Refused(s) \/ NULL \in Elements(muxingQueue[s])

EndIsLast(q) == \A i, j \in 1..Len(q) : i < j /\ q[i] = NULL => q[j] = NULL

Complete ==
  Sound => \A s \in Streams :
             /\ 1..given[s] \subseteq Places(s)
             /\ Refused(s) => Kept(muxingQueue[s]) = {}
             /\ EndIsLast(muxingQueue[s])

(* What the thread leaves: it gives no stream up that the main thread      *)
(* still sends, unless a write failed, and ends on an empty queue.         *)
Ends ==
  /\ muxPc \in {"none", "receive"} => muxRet = "ok"
  /\ muxRet = "ok" => tq.recvFinished \subseteq tq.sendFinished
  /\ running /\ muxPc \in {"finish", "ended"} /\ muxRet = "ok" =>
       tq.fifo = <<>> /\ tq.sendFinished = Streams
  /\ trailer \in {"written", "failed"} =>
       /\ ~running /\ muxPc = "ended" /\ \A s \in Streams : muxingQueue[s] = <<>>
       /\ main_return_code = "ok" => muxRet = "ok"
  /\ closing = "trailer" => at \in {"stop", "join"}

LEMMA EndsCalls ==
  ASSUME Inv, Ends,
         \/ \E s \in Streams, eof \in BOOLEAN : of_output_packet(s, eof)
         \/ of_write_trailer \/ of_close
         \/ \E s \in Streams, result \in {"ok", "stream", "header"} : of_stream_init(s, result)
  PROVE  Ends'
  <1>1. ASSUME NEW s \in Streams, NEW eof \in BOOLEAN, of_output_packet(s, eof)
        PROVE  Ends'
    <2>1. trailer = "none" /\ at = "idle" /\ UNCHANGED <<muxPc, muxRet, tq, running, trailer, closing>>
      BY <1>1 DEF of_output_packet, Writable, Free, threadVars
    <2> QED BY <2>1 DEF Ends
  <1>2. CASE of_write_trailer
    <2>1. trailer = "none" /\ UNCHANGED <<muxPc, muxRet, tq, running>>
          /\ trailer' \in {"none", "nothing"} /\ (closing' = "trailer" => at' = "stop" \/ UNCHANGED <<at, closing>>)
      BY <1>2 DEF of_write_trailer, Writable, Free, threadVars
    <2> QED BY <2>1 DEF Ends
  <1>3. CASE of_close
    <2>1. at = "idle" /\ UNCHANGED <<muxPc, muxRet, tq, running, trailer, muxingQueue, main_return_code>>
          /\ closing' \in {"close", closing}
      BY <1>3 DEF of_close, Free, threadVars
    <2> QED BY <2>1 DEF Ends
  <1>4. ASSUME NEW s \in Streams, NEW result, of_stream_init(s, result)
        PROVE  Ends'
    <2>1. /\ trailer = "none" /\ at = "idle" /\ muxPc = "none" /\ ~running /\ tq = tq_alloc
      BY <1>4 DEF of_stream_init, Writable, Free, Inv, Phases, QueueOutlivesThread
    <2>2. /\ UNCHANGED <<muxRet, trailer, closing, at>> /\ tq' = tq
          /\ muxPc' \in {"none", "receive"}
      BY <1>4, <2>1 DEF of_stream_init
    <2> QED BY <2>1, <2>2 DEF Ends
  <1> QED BY <1>1, <1>2, <1>3, <1>4

LEMMA EndsMainSteps ==
  ASSUME Inv, Order, Ends, MainStep
  PROVE  Ends'
  <1>1. CASE flushMuxingQueue
    <2>1. /\ trailer = "none" /\ running /\ at = "idle"
          /\ UNCHANGED <<muxPc, muxRet, tq, running, trailer, closing>>
      BY <1>1 DEF flushMuxingQueue, threadVars, Inv, Phases
    <2> QED BY <2>1 DEF Ends
  <1>2. CASE sendToThread
    <2>1. /\ trailer = "none" /\ running /\ at = "send" /\ cargo.ost \in Streams /\ cargo.pkt \in Nat
          /\ tq \in Queues
      BY <1>2 DEF sendToThread, Inv, Phases, MuxerTypeOK, Items
    <2>2. /\ tq' = tq_send(tq, cargo.ost, cargo.pkt)
          /\ UNCHANGED <<muxPc, muxRet, running, trailer, closing>>
      BY <1>2 DEF sendToThread, threadVars
    <2>3. /\ tq'.recvFinished = tq.recvFinished /\ tq.sendFinished \subseteq tq'.sendFinished
          /\ tq'.sendFinished \subseteq tq.sendFinished \union {cargo.ost}
          /\ cargo.ost \in tq.sendFinished => UNCHANGED tq
      BY <2>1, <2>2, SendMarks
    <2>4. CASE muxPc \in {"finish", "ended"} /\ muxRet = "ok"
      <3>1. UNCHANGED tq
        BY <2>1, <2>3, <2>4 DEF Ends
      <3> QED BY <2>1, <2>2, <3>1 DEF Ends
    <2>5. CASE ~(muxPc \in {"finish", "ended"} /\ muxRet = "ok")
      BY <2>1, <2>2, <2>3, <2>5 DEF Ends
    <2> QED BY <2>4, <2>5
  <1>3. CASE finishStream
    <2>1. /\ trailer = "none" /\ running /\ at = "refused" /\ cargo.ost \in Streams /\ tq \in Queues
      BY <1>3 DEF finishStream, Inv, Phases, MuxerTypeOK, Items
    <2>2. /\ tq' = tq_send_finish(tq, cargo.ost)
          /\ UNCHANGED <<muxPc, muxRet, running, trailer, closing>>
      BY <1>3 DEF finishStream, threadVars
    <2>3. /\ tq'.fifo = tq.fifo /\ tq'.sendFinished = tq.sendFinished \union {cargo.ost}
          /\ tq'.recvFinished = tq.recvFinished
      BY <2>1, <2>2, SendFinishEffect
    <2> QED BY <2>1, <2>2, <2>3 DEF Ends
  <1>4. CASE stopStreams
    <2> DEFINE open == Streams \ tq.sendFinished
    <2>1. /\ trailer = "none" /\ running /\ tq \in Queues /\ at' \in {"stop", "join"}
          /\ UNCHANGED <<muxPc, muxRet, running, trailer, closing>>
          /\ UNCHANGED tq \/ (open # {} /\ tq' = tq_send_finish(tq, First(open)))
      BY <1>4 DEF stopStreams, threadVars, Inv, Phases, MuxerTypeOK
    <2>2. open # {} => First(open) \in Streams
      BY FirstIsMember
    <2>3. \/ UNCHANGED tq
          \/ \E s \in Streams : /\ tq'.fifo = tq.fifo /\ tq'.sendFinished = tq.sendFinished \union {s}
                                /\ tq'.recvFinished = tq.recvFinished
      BY <2>1, <2>2, SendFinishEffect
    <2> QED BY <2>1, <2>3 DEF Ends
  <1>5. ASSUME NEW result \in {"written", "failed"}, joinThread(result)
        PROVE  Ends'
    <2>1. /\ muxPc = "ended" /\ at = "join" /\ running /\ ~flushing /\ trailer = "none"
          /\ UNCHANGED <<muxPc, muxRet, muxingQueue>> /\ running' = FALSE /\ tq' = tq_alloc
          /\ closing' = "no"
          /\ closing = "trailer" /\ muxRet # "ok" => main_return_code' = muxRet
          /\ closing # "trailer" => trailer' = trailer
      BY <1>5 DEF joinThread, threadVars, Inv, Phases
    <2>2. \A s \in Streams : muxingQueue[s] = <<>>
      BY <2>1 DEF Order
    <2>3. tq'.recvFinished = {} /\ tq'.sendFinished = {}
      BY <2>1 DEF tq_alloc
    <2> QED BY <2>1, <2>2, <2>3 DEF Ends
  <1> QED BY <1>1, <1>2, <1>3, <1>4, <1>5 DEF MainStep

LEMMA EndsThread ==
  ASSUME Inv, Ends, MuxerThread
  PROVE  Ends'
  <1>1. tq \in Queues /\ UNCHANGED mainVars
    BY DEF Inv, MuxerTypeOK, MuxerThread, finishThread, receivePacket
  <1>2. CASE finishThread
    <2> DEFINE open == Streams \ tq.recvFinished
    <2>1. /\ muxPc = "finish" /\ muxPc' \in {"finish", "ended"} /\ UNCHANGED muxRet /\ running
          /\ UNCHANGED tq \/ (open # {} /\ tq' = tq_receive_finish(tq, First(open)))
      BY <1>2 DEF finishThread, Inv, Phases, QueueOutlivesThread
    <2>2. open # {} => First(open) \in Streams
      BY FirstIsMember
    <2>3. \/ UNCHANGED tq
          \/ \E s \in Streams : /\ tq'.fifo = tq.fifo /\ tq'.sendFinished = tq.sendFinished
                                /\ tq'.recvFinished = tq.recvFinished \union {s}
      BY <1>1, <2>1, <2>2, ReceiveFinishEffect
    <2> QED BY <1>1, <2>1, <2>3 DEF Ends, mainVars
  <1>3. ASSUME NEW result \in Answers, receivePacket(result)
        PROVE  Ends'
    <2>1. muxPc = "receive" /\ tq' = tq_receive(tq) /\ running
      BY <1>3 DEF receivePacket, Inv, Phases, QueueOutlivesThread
    <2>2. tq.recvFinished \subseteq tq.sendFinished /\ muxRet = "ok" /\ trailer = "none"
      BY <2>1 DEF Inv, Phases, Sleepers, Ends
    <2>3. tq'.recvFinished \subseteq tq'.sendFinished
      <3>1. tq_receive(tq).sendFinished = tq.sendFinished
            /\ tq_receive(tq).recvFinished \subseteq tq.recvFinished \union tq.sendFinished
        BY <1>1, ReceiveEffect
      <3> QED BY <2>1, <2>2, <3>1
    <2>4. CASE receiveAnswer(tq) = "ok"
      <3>1. /\ muxRet' = result /\ muxPc' = IF result = "ok" THEN "receive" ELSE "finish"
        BY <1>3, <2>4 DEF receivePacket, write_packet
      <3> QED BY <1>1, <2>2, <2>3, <3>1 DEF Ends, mainVars
    <2>5. CASE receiveAnswer(tq) = "finished"
      <3>1. tq' = tq /\ tq.fifo = <<>> /\ tq.sendFinished = Streams /\ UNCHANGED muxRet
            /\ muxPc' = "finish"
        BY <1>1, <1>3, <2>1, <2>5, ReceiveEffect DEF receivePacket, receiveAnswer
      <3> QED BY <1>1, <2>2, <2>3, <3>1 DEF Ends, mainVars
    <2>6. CASE receiveAnswer(tq) \notin {"ok", "finished"}
      <3>1. UNCHANGED muxRet /\ muxPc' = "receive"
        BY <1>3, <2>6 DEF receivePacket
      <3> QED BY <1>1, <2>2, <2>3, <3>1 DEF Ends, mainVars
    <2> QED BY <2>4, <2>5, <2>6
  <1> QED BY <1>2, <1>3 DEF MuxerThread

LEMMA EndsStep ==
  ASSUME Inv, Order, Ends, [MuxerNext]_muxerVars
  PROVE  Ends'
  <1>1. CASE MainCall
    BY <1>1, EndsCalls DEF MainCall
  <1>2. CASE UNCHANGED muxerVars
    BY <1>2 DEF muxerVars, mainVars, threadVars, Ends
  <1> QED BY <1>1, <1>2, EndsMainSteps, EndsThread DEF MuxerNext

(***************************************************************************)
(* The packets that are in their places.                                   *)
(***************************************************************************)

(* Nothing that counts happens to a packet.                                *)
LEMMA NothingLost ==
  ASSUME Complete, Sound' => Sound, UNCHANGED <<given, muxingQueue, file>>,
         Sound => tq'.fifo = tq.fifo,
         \A s \in Streams : InHand(s) \subseteq InHand(s)' /\ (Refused(s)' => Refused(s))
  PROVE  Complete'
  <1> SUFFICES ASSUME Sound', NEW s \in Streams
               PROVE  /\ 1..given'[s] \subseteq Places(s)'
                      /\ Refused(s)' => Kept(muxingQueue'[s]) = {}
                      /\ EndIsLast(muxingQueue'[s])
    BY DEF Complete
  <1>1. Places(s) \subseteq Places(s)'
    BY DEF Places
  <1> QED BY <1>1 DEF Complete

LEMMA EndIsLastAppend ==
  ASSUME NEW q \in Seq(Nat), NEW p \in Nat, EndIsLast(q),
         p = NULL \/ NULL \notin Elements(q)
  PROVE  EndIsLast(Append(q, p))
  <1>1. /\ Len(Append(q, p)) = Len(q) + 1 /\ Len(q) \in Nat
        /\ Append(q, p)[Len(q) + 1] = p
        /\ \A i \in 1..Len(q) : Append(q, p)[i] = q[i]
    OBVIOUS
  <1> SUFFICES ASSUME NEW i \in 1..(Len(q) + 1), NEW j \in 1..(Len(q) + 1), i < j,
                      Append(q, p)[i] = NULL
               PROVE  Append(q, p)[j] = NULL
    BY <1>1 DEF EndIsLast
  <1>2. i \in 1..Len(q) /\ q[i] = NULL
    BY <1>1
  <1>3. CASE j \in 1..Len(q)
    BY <1>1, <1>2, <1>3 DEF EndIsLast
  <1>4. CASE j = Len(q) + 1
    <2>1. NULL \in Elements(q)
      BY <1>2 DEF Elements
    <2> QED BY <1>1, <1>4, <2>1
  <1> QED BY <1>1, <1>3, <1>4

LEMMA EndIsLastTail ==
  ASSUME NEW q \in Seq(Nat), q # <<>>, EndIsLast(q)
  PROVE  /\ EndIsLast(Tail(q))
         /\ Head(q) = NULL => Kept(Tail(q)) = {} /\ Kept(q) = {}
         /\ Head(q) # NULL => Kept(q) = {Head(q)} \union Kept(Tail(q))
         /\ Elements(q) = {Head(q)} \union Elements(Tail(q))
  <1>1. /\ Len(q) \in Nat /\ Len(q) >= 1 /\ Head(q) = q[1]
        /\ Len(Tail(q)) = Len(q) - 1
        /\ \A i \in 1..Len(Tail(q)) : Tail(q)[i] = q[i + 1]
    OBVIOUS
  <1> DEFINE r == Tail(q)
  <1>2. \A i \in 1..Len(r) : /\ r[i] = q[i + 1] /\ i + 1 \in 1..Len(q) /\ 1 \in 1..Len(q)
                             /\ 1 < i + 1 /\ i \in Nat
    BY <1>1
  <1>3. \A k \in 1..Len(q) : k = 1 \/ (k - 1 \in 1..Len(r) /\ q[k] = r[k - 1])
    <2> TAKE k \in 1..Len(q)
    <2>1. k = 1 \/ (k - 1 \in 1..Len(r) /\ (k - 1) + 1 = k)
      BY <1>1
    <2> QED BY <1>2, <2>1
  <1>4. 1 \in 1..Len(q) /\ Head(q) = q[1]
    BY <1>1
  <1> HIDE DEF r
  <1>5. EndIsLast(r)
    <2> SUFFICES ASSUME NEW i \in 1..Len(r), NEW j \in 1..Len(r), i < j, r[i] = NULL
                 PROVE  r[j] = NULL
      BY DEF EndIsLast
    <2>1. i + 1 < j + 1
      BY <1>2
    <2> QED BY <1>2, <2>1 DEF EndIsLast
  <1>6. Elements(q) = {Head(q)} \union Elements(r)
    <2>1. Elements(r) \subseteq Elements(q)
      BY <1>2 DEF Elements
    <2>2. Elements(q) \subseteq {Head(q)} \union Elements(r)
      BY <1>3, <1>4 DEF Elements
    <2>3. Head(q) \in Elements(q)
      BY <1>4 DEF Elements
    <2> QED BY <2>1, <2>2, <2>3
  <1>7. Head(q) = NULL => Elements(r) \subseteq {NULL}
    BY <1>2, <1>4 DEF EndIsLast, Elements
  <1> QED BY <1>5, <1>6, <1>7 DEF Kept, r

(* of_output_packet, for a stream that has not ended.                      *)
LEMMA PacketGiven ==
  ASSUME Inv, Order, Complete, NEW s \in Streams, NEW eof \in BOOLEAN, of_output_packet(s, eof),
         eof \/ ~Sound \/ ~Ended(s)
  PROVE  Complete'
  <1> SUFFICES ASSUME Sound', NEW r \in Streams
               PROVE  /\ 1..given'[r] \subseteq Places(r)'
                      /\ Refused(r)' => Kept(muxingQueue'[r]) = {}
                      /\ EndIsLast(muxingQueue'[r])
    BY DEF Complete
  <1> DEFINE pkt == IF eof THEN NULL ELSE given'[s]
             n == given[s]
  <1>1. /\ given \in [Streams -> Nat] /\ muxingQueue \in [Streams -> Seq(Nat)]
        /\ given' = IF eof THEN given ELSE [given EXCEPT ![s] = given[s] + 1]
        /\ at = "idle" /\ ~flushing /\ submit_packet(s, pkt)
        /\ UNCHANGED <<file, tq, running, flushing, muxRet, muxerFinished>>
    BY DEF of_output_packet, Writable, Free, threadVars, Inv, MuxerTypeOK
  <1>2. given'[r] = (IF r = s /\ ~eof THEN n + 1 ELSE given[r]) /\ given[r] \in Nat
    BY <1>1
  <1>3. pkt = IF eof THEN NULL ELSE n + 1
    BY <1>1
  <1>4. pkt \in Nat /\ (pkt = NULL <=> eof) /\ n \in Nat
    BY <1>1, <1>3 DEF NULL
  <1>5. InHand(r) = {}
    BY <1>1 DEF InHand
  <1> HIDE DEF pkt
  <1>6. Sound /\ (running => UNCHANGED <<muxingQueue, refusals>>)
        /\ (~running => /\ muxingQueue' = [muxingQueue EXCEPT ![s] = Append(muxingQueue[s], pkt)]
                        /\ UNCHANGED <<at, cargo>>)
    BY <1>1 DEF Sound, submit_packet, queue_packet
  <1>7. eof \/ ~Ended(s)
    BY <1>6
  <1>8. /\ 1..given[r] \subseteq Places(r)
        /\ Refused(r) => Kept(muxingQueue[r]) = {}
        /\ EndIsLast(muxingQueue[r]) /\ muxingQueue[r] \in Seq(Nat)
    BY <1>1, <1>6 DEF Complete
  <1>9. 1..given'[r] \subseteq 1..given[r] \union (IF r = s /\ ~eof THEN {n + 1} ELSE {})
    BY <1>2, <1>4
  <1>10. CASE running
    <2>1. /\ cargo' = [ost |-> s, pkt |-> pkt] /\ UNCHANGED muxingQueue
          /\ at' = IF pkt = NULL \/ s \in muxerFinished THEN "refused" ELSE "send"
      BY <1>1, <1>6, <1>10 DEF submit_packet, thread_submit_packet
    <2>2. muxingQueue[r] = <<>>
      BY <1>1, <1>10 DEF Order
    <2>3. Kept(muxingQueue'[r]) = {} /\ EndIsLast(muxingQueue'[r])
      BY <2>1, <2>2, <1>8 DEF Kept, Elements
    <2>4. r = s /\ ~eof => n + 1 \in InHand(r)'
      <3>1. ~eof => at' = "send"
        BY <1>4, <1>7, <2>1 DEF Ended, Refused
      <3> QED BY <1>3, <2>1, <3>1 DEF InHand
    <2>5. Places(r) \subseteq Places(r)'
      BY <1>1, <1>5, <2>1 DEF Places
    <2>6. InHand(r)' \subseteq Places(r)'
      BY DEF Places
    <2> QED BY <1>8, <1>9, <2>3, <2>4, <2>5, <2>6
  <1>11. CASE ~running
    <2>1. InHand(r)' = InHand(r) /\ (Refused(r)' <=> Refused(r))
      BY <1>1, <1>6, <1>11 DEF InHand, Refused
    <2>2. CASE r # s
      <3>1. muxingQueue'[r] = muxingQueue[r] /\ given'[r] = given[r]
        BY <1>1, <1>2, <1>6, <1>11, <2>2
      <3>2. Places(r)' = Places(r)
        BY <1>1, <2>1, <3>1 DEF Places
      <3> QED BY <1>8, <2>1, <3>1, <3>2
    <2>3. CASE r = s
      <3>1. muxingQueue'[r] = Append(muxingQueue[r], pkt)
        BY <1>1, <1>6, <1>11, <2>3
      <3>2. pkt = NULL \/ NULL \notin Elements(muxingQueue[r])
        BY <1>4, <1>7, <2>3 DEF Ended
      <3>3. EndIsLast(muxingQueue'[r])
        BY <1>4, <1>8, <3>1, <3>2, EndIsLastAppend
      <3>4. Elements(muxingQueue'[r]) = Elements(muxingQueue[r]) \union {pkt}
        BY <1>4, <1>8, <3>1, ElementsOfAppend
      <3>5. Kept(muxingQueue'[r]) = Kept(muxingQueue[r]) \union (IF eof THEN {} ELSE {n + 1})
        BY <1>3, <1>4, <3>4 DEF Kept
      <3>6. Places(r)' = Places(r) \union (IF eof THEN {} ELSE {n + 1})
        BY <1>1, <2>1, <3>5 DEF Places
      <3>7. Refused(r)' => eof
        BY <1>7, <2>1, <2>3 DEF Ended
      <3>8. Refused(r)' => Kept(muxingQueue'[r]) = {}
        BY <1>8, <2>1, <3>5, <3>7
      <3> QED BY <1>8, <1>9, <2>3, <3>3, <3>6, <3>8
    <2> QED BY <2>2, <2>3
  <1> QED BY <1>10, <1>11

(* A packet leaves its muxing queue.                                       *)
LEMMA PacketFlushed ==
  ASSUME Inv, Order, Complete, flushMuxingQueue
  PROVE  Complete'
  <1> SUFFICES ASSUME Sound', NEW r \in Streams
               PROVE  /\ 1..given'[r] \subseteq Places(r)'
                      /\ Refused(r)' => Kept(muxingQueue'[r]) = {}
                      /\ EndIsLast(muxingQueue'[r])
    BY DEF Complete
  <1> DEFINE waiting == {s \in Streams : muxingQueue[s] # <<>>}
             s == First(waiting)
  <1>1. /\ at = "idle" /\ UNCHANGED <<file, given, tq, muxRet, refusals, muxerFinished>>
        /\ muxingQueue \in [Streams -> Seq(Nat)]
    BY DEF flushMuxingQueue, threadVars, Inv, MuxerTypeOK
  <1>2. /\ 1..given[r] \subseteq Places(r)
        /\ Refused(r) => Kept(muxingQueue[r]) = {}
        /\ EndIsLast(muxingQueue[r]) /\ muxingQueue[r] \in Seq(Nat)
    BY <1>1 DEF Complete, Sound
  <1>3. InHand(r) = {} /\ (Refused(r) <=> r \in muxerFinished)
    BY <1>1 DEF InHand, Refused
  <1>4. CASE waiting = {}
    <2>1. UNCHANGED <<at, cargo, muxingQueue>>
      BY <1>4 DEF flushMuxingQueue
    <2>2. Places(r)' = Places(r) /\ Refused(r)' = Refused(r)
      BY <1>1, <2>1 DEF Places, InHand, Refused
    <2> QED BY <1>1, <1>2, <2>1, <2>2
  <1>5. CASE waiting # {}
    <2>1. /\ thread_submit_packet(s, Head(muxingQueue[s]))
          /\ muxingQueue' = [muxingQueue EXCEPT ![s] = Tail(muxingQueue[s])]
      BY <1>5 DEF flushMuxingQueue
    <2>2. s \in Streams /\ muxingQueue[s] # <<>> /\ muxingQueue[s] \in Seq(Nat)
      BY <1>5, WaitingStream DEF Inv
    <2> HIDE DEF s
    <2> DEFINE p == Head(muxingQueue[s])
    <2>3. /\ cargo' = [ost |-> s, pkt |-> p]
          /\ at' = IF p = NULL \/ s \in muxerFinished THEN "refused" ELSE "send"
      BY <2>1 DEF thread_submit_packet
    <2> HIDE DEF p
    <2>4. CASE r # s
      <3>1. muxingQueue'[r] = muxingQueue[r] /\ InHand(r)' = {} /\ (Refused(r)' <=> Refused(r))
        BY <1>1, <1>3, <2>1, <2>3, <2>4 DEF InHand, Refused
      <3>2. Places(r)' = Places(r)
        BY <1>1, <1>3, <3>1 DEF Places
      <3> QED BY <1>1, <1>2, <3>1, <3>2
    <2>5. CASE r = s
      <3>1. muxingQueue'[r] = Tail(muxingQueue[r])
        BY <1>1, <2>1, <2>5
      <3>2. /\ EndIsLast(Tail(muxingQueue[r]))
            /\ p = NULL => Kept(Tail(muxingQueue[r])) = {} /\ Kept(muxingQueue[r]) = {}
            /\ p # NULL => Kept(muxingQueue[r]) = {p} \union Kept(Tail(muxingQueue[r]))
        BY <1>2, <2>2, <2>5, EndIsLastTail DEF p
      <3>3. CASE p = NULL
        <4>1. InHand(r)' = {}
          BY <2>3, <3>3 DEF InHand
        <4>2. Places(r)' = Places(r)
          BY <1>1, <1>3, <3>1, <3>2, <3>3, <4>1 DEF Places
        <4> QED BY <1>1, <1>2, <3>1, <3>2, <3>3, <4>2
      <3>4. CASE p # NULL
        <4>1. r \notin muxerFinished
          BY <1>2, <1>3, <3>2, <3>4
        <4>2. at' = "send" /\ InHand(r)' = {p}
          BY <2>3, <2>5, <3>4, <4>1 DEF InHand
        <4>3. ~Refused(r)'
          BY <1>1, <4>1, <4>2 DEF Refused
        <4>4. Places(r)' = Places(r)
          BY <1>1, <1>3, <3>1, <3>2, <3>4, <4>2 DEF Places
        <4> QED BY <1>1, <1>2, <3>1, <3>2, <4>3, <4>4
      <3> QED BY <3>3, <3>4
    <2> QED BY <2>4, <2>5
  <1> QED BY <1>4, <1>5

(* It goes into the queue of the thread.                                   *)
LEMMA PacketSent ==
  ASSUME Inv, Order, Ends, Complete, sendToThread
  PROVE  Complete' /\ (Sound' => at' # "refused")
  <1> DEFINE s == cargo.ost
             p == cargo.pkt
             answer == sendAnswer(tq, cargo.ost)
  <1>1. /\ at = "send" /\ tq' = tq_send(tq, s, p)
        /\ at' = CASE answer = "ok" -> "idle" [] answer = "wait" -> "send" [] OTHER -> "refused"
        /\ cargo' = IF answer = "ok" THEN Nothing ELSE cargo
        /\ refusals' = IF answer = "EINVAL" THEN refusals \union {"EINVAL"} ELSE refusals
        /\ UNCHANGED <<file, running, muxingQueue, muxerFinished, flushing, given, muxRet>>
    BY DEF sendToThread, threadVars
  <1>2. s \in Streams /\ p \in Nat /\ tq \in Queues
    BY DEF Inv, MuxerTypeOK, Items
  <1>3. CASE ~Sound'
    BY <1>3 DEF Complete
  <1>4. CASE Sound'
    <2>1. Sound /\ answer # "EINVAL"
      BY <1>1, <1>4 DEF Sound
    <2>2. answer # "EOF"
      <3>1. tq.recvFinished \subseteq tq.sendFinished
        BY <2>1 DEF Ends, Sound
      <3> QED BY <1>2, <3>1, SendEffect
    <2>3. answer \in {"ok", "wait"}
      BY <1>2, <2>1, <2>2, SendEffect
    <2>4. \A r \in Streams : ~(Refused(r)' /\ ~Refused(r))
      BY <1>1, <2>3 DEF Refused
    <2>5. CASE answer = "wait"
      <3>1. tq'.fifo = tq.fifo /\ at' = "send" /\ cargo' = cargo
        <4>1. tq_send(tq, s, p).fifo = tq.fifo
          BY <1>2, <2>5, SendMarks
        <4> QED BY <1>1, <2>5, <4>1
      <3>2. \A r \in Streams : InHand(r)' = InHand(r)
        BY <1>1, <3>1 DEF InHand
      <3> QED BY <1>1, <2>1, <2>4, <3>1, <3>2, NothingLost
    <2>6. CASE answer = "ok"
      <3>1. tq'.fifo = Append(tq.fifo, [ost |-> s, pkt |-> p]) /\ at' = "idle"
        BY <1>1, <1>2, <2>6, SendEffect
      <3>2. \A r \in Streams : InHand(r) = (IF r = s THEN {p} ELSE {}) /\ InHand(r)' = {}
        BY <1>1, <3>1 DEF InHand
      <3> HIDE DEF s, p
      <3>3. /\ QueueOrdered(tq.fifo) /\ tq.fifo \in Seq(Items)
            /\ Lined(Elements(file[s]), PacketsOf(tq.fifo, s), {p}, Kept(muxingQueue[s]), given[s])
            /\ given[s] \in Nat
        BY <1>2, <3>2, OrderOf
      <3>4. Older(PacketsOf(tq.fifo, s), {p})
        BY <3>3 DEF Lined, Older
      <3>5. /\ PacketsOf(tq'.fifo, s) = PacketsOf(tq.fifo, s) \union {p}
            /\ \A r \in Streams : r # s => PacketsOf(tq'.fifo, r) = PacketsOf(tq.fifo, r)
        BY <1>2, <3>1, <3>3, <3>4, FifoAppend
      <3>6. \A r \in Streams : Places(r)' = Places(r)
        <4> TAKE r \in Streams
        <4>1. PacketsOf(tq'.fifo, r) \union InHand(r)' = PacketsOf(tq.fifo, r) \union InHand(r)
          BY <3>2, <3>5
        <4> QED BY <1>1, <4>1 DEF Places
      <3> QED BY <1>1, <2>1, <2>4, <3>1, <3>6 DEF Complete
    <2>7. at' # "refused"
      BY <1>1, <2>3
    <2> QED BY <2>3, <2>5, <2>6, <2>7
  <1> QED BY <1>3, <1>4

LEMMA FifoHead ==
  ASSUME NEW f \in Seq(Items), f # <<>>
  PROVE  \A r \in Streams :
           PacketsOf(f, r) \subseteq PacketsOf(Tail(f), r)
                                       \union (IF r = Head(f).ost THEN {Head(f).pkt} ELSE {})
  <1>1. /\ Len(f) \in Nat /\ Len(f) >= 1 /\ Head(f) = f[1]
        /\ Len(Tail(f)) = Len(f) - 1
        /\ \A i \in 1..Len(Tail(f)) : Tail(f)[i] = f[i + 1]
    OBVIOUS
  <1> DEFINE g == Tail(f)
             h == Head(f)
  <1>2. \A k \in 1..Len(f) : k = 1 \/ (k - 1 \in 1..Len(g) /\ f[k] = g[k - 1])
    <2> TAKE k \in 1..Len(f)
    <2>1. k = 1 \/ (k - 1 \in 1..Len(g) /\ (k - 1) + 1 = k)
      BY <1>1
    <2> QED BY <1>1, <2>1
  <1>3. h = f[1]
    BY <1>1
  <1> HIDE DEF g, h
  <1>4. ASSUME NEW r \in Streams, NEW x \in PacketsOf(f, r)
        PROVE  x \in PacketsOf(g, r) \union (IF r = h.ost THEN {h.pkt} ELSE {})
    <2>1. PICK k \in 1..Len(f) : f[k].ost = r /\ f[k].pkt = x /\ x \in Nat
      BY DEF PacketsOf
    <2>2. CASE k = 1
      BY <1>3, <2>1, <2>2
    <2>3. CASE k # 1
      BY <1>2, <2>1, <2>3 DEF PacketsOf
    <2> QED BY <2>2, <2>3
  <1> QED BY <1>4 DEF g, h

(* It goes into the file.                                                  *)
LEMMA PacketReceived ==
  ASSUME Inv, Order, Ends, Complete, NEW result \in Answers, receivePacket(result)
  PROVE  Complete' /\ (Sound' => Sound)
  <1>1. /\ tq' = tq_receive(tq) /\ tq \in Queues /\ UNCHANGED mainVars
        /\ file \in [Streams -> Seq(Nat)] /\ muxRet = "ok"
    BY DEF receivePacket, Inv, MuxerTypeOK, Ends
  <1>2. Sound' => Sound
    BY <1>1 DEF Sound, mainVars
  <1>3. \A r \in Streams : InHand(r)' = InHand(r) /\ (Refused(r)' <=> Refused(r))
    BY <1>1 DEF InHand, Refused, mainVars
  <1>4. CASE receiveAnswer(tq) # "ok"
    <2>1. tq'.fifo = tq.fifo /\ UNCHANGED file
      BY <1>1, <1>4, ReceiveEffect DEF receivePacket
    <2> QED BY <1>1, <1>2, <1>3, <2>1, NothingLost DEF mainVars
  <1>5. CASE receiveAnswer(tq) = "ok" /\ result # "ok"
    <2>1. ~Sound'
      BY <1>5 DEF receivePacket, write_packet, Sound
    <2> QED BY <2>1 DEF Complete
  <1>6. CASE receiveAnswer(tq) = "ok" /\ result = "ok"
    <2> DEFINE s == received(tq).ost
               p == received(tq).pkt
    <2>1. /\ tq.fifo # <<>> /\ received(tq) = Head(tq.fifo) /\ received(tq) \in Items
          /\ tq'.fifo = Tail(tq.fifo) /\ tq.fifo \in Seq(Items)
      BY <1>1, <1>6, ReceiveEffect, QueueFields
    <2>2. file' = [file EXCEPT ![s] = Append(file[s], p)]
      BY <1>6 DEF receivePacket, write_packet
    <2>3. s \in Streams /\ p \in Nat
      BY <2>1 DEF Items
    <2>4. \A r \in Streams : PacketsOf(tq.fifo, r) \subseteq PacketsOf(tq'.fifo, r)
                                                   \union (IF r = s THEN {p} ELSE {})
      BY <2>1, FifoHead
    <2> HIDE DEF s, p
    <2>5. \A r \in Streams : Elements(file'[r]) = Elements(file[r]) \union (IF r = s THEN {p} ELSE {})
      <3> TAKE r \in Streams
      <3>1. file[r] \in Seq(Nat)
        BY <1>1
      <3>2. CASE r = s
        <4>1. file'[r] = Append(file[r], p)
          BY <1>1, <2>2, <3>2
        <4> QED BY <2>3, <3>1, <3>2, <4>1, ElementsOfAppend
      <3>3. CASE r # s
        BY <1>1, <2>2, <3>3
      <3> QED BY <3>2, <3>3
    <2>6. \A r \in Streams : Places(r) \subseteq Places(r)'
      <3> TAKE r \in Streams
      <3>1. Elements(file[r]) \union PacketsOf(tq.fifo, r)
              \subseteq Elements(file'[r]) \union PacketsOf(tq'.fifo, r)
        BY <2>4, <2>5
      <3>2. UNCHANGED muxingQueue
        BY <1>1 DEF mainVars
      <3> QED BY <1>3, <3>1, <3>2 DEF Places
    <2>7. UNCHANGED <<given, muxingQueue>>
      BY <1>1 DEF mainVars
    <2> SUFFICES ASSUME Sound', NEW r \in Streams
                 PROVE  /\ 1..given'[r] \subseteq Places(r)'
                        /\ Refused(r)' => Kept(muxingQueue'[r]) = {}
                        /\ EndIsLast(muxingQueue'[r])
      BY <1>2 DEF Complete
    <2> QED BY <1>2, <1>3, <2>6, <2>7 DEF Complete
  <1> QED BY <1>2, <1>4, <1>5, <1>6

(* The steps that give no packet to a stream, and no end. *)
GivesNothing ==
  \/ MainStep \/ MuxerThread \/ of_write_trailer \/ of_close
  \/ \E s \in Streams, result \in {"ok", "stream", "header"} : of_stream_init(s, result)
  \/ UNCHANGED muxerVars

(* A step that gives nothing loses nothing.                                *)
LEMMA CompleteStep ==
  ASSUME Inv, Order, Ends, Complete, GivesNothing
  PROVE  Complete'
  <1>1. ASSUME NEW s \in Streams, NEW result, of_stream_init(s, result)
        PROVE  Complete'
    <2>1. tq' = tq
      BY <1>1 DEF Inv, Phases, of_stream_init, QueueOutlivesThread, Writable, Free
    <2>2. UNCHANGED <<given, muxingQueue, file, at, cargo, muxerFinished, muxRet, refusals>>
      BY <1>1 DEF of_stream_init
    <2>3. \A r \in Streams : InHand(r) \subseteq InHand(r)' /\ (Refused(r)' => Refused(r))
      BY <2>2 DEF InHand, Refused
    <2> QED BY <2>1, <2>2, <2>3, NothingLost DEF Sound
  <1>2. CASE of_write_trailer \/ of_close
    <2>1. /\ at = "idle" /\ at' \notin {"send", "refused"}
          /\ UNCHANGED <<given, muxingQueue, file, cargo, muxerFinished, muxRet, refusals, tq>>
      BY <1>2 DEF of_write_trailer, of_close, threadVars, Writable, Free
    <2>2. \A r \in Streams : InHand(r) \subseteq InHand(r)' /\ (Refused(r)' => Refused(r))
      BY <2>1 DEF InHand, Refused
    <2> QED BY <2>1, <2>2, NothingLost DEF Sound
  <1>3. CASE finishStream
    <2>1. /\ at = "refused" /\ at' = "idle" /\ muxerFinished' = muxerFinished \union {cargo.ost}
          /\ UNCHANGED <<given, muxingQueue, file, muxRet, refusals>>
          /\ tq' = tq_send_finish(tq, cargo.ost) /\ tq \in Queues /\ cargo.ost \in Streams
      BY <1>3 DEF finishStream, threadVars, Inv, MuxerTypeOK, Items
    <2>2. tq'.fifo = tq.fifo
      BY <2>1, SendFinishEffect
    <2>3. \A r \in Streams : InHand(r) \subseteq InHand(r)' /\ (Refused(r)' => Refused(r))
      BY <2>1 DEF InHand, Refused
    <2> QED BY <2>1, <2>2, <2>3, NothingLost DEF Sound
  <1>4. CASE stopStreams
    <2> DEFINE open == Streams \ tq.sendFinished
    <2>1. /\ at = "stop" /\ at' \in {"stop", "join"} /\ tq \in Queues
          /\ UNCHANGED <<given, muxingQueue, file, muxRet, refusals, cargo, muxerFinished>>
          /\ UNCHANGED tq \/ (open # {} /\ tq' = tq_send_finish(tq, First(open)))
      BY <1>4 DEF stopStreams, threadVars, Inv, MuxerTypeOK
    <2>2. tq'.fifo = tq.fifo
      <3>1. open # {} => First(open) \in Streams
        BY FirstIsMember
      <3> QED BY <2>1, <3>1, SendFinishEffect
    <2>3. \A r \in Streams : InHand(r) \subseteq InHand(r)' /\ (Refused(r)' => Refused(r))
      BY <2>1 DEF InHand, Refused
    <2> QED BY <2>1, <2>2, <2>3, NothingLost DEF Sound
  <1>5. ASSUME NEW result \in {"written", "failed"}, joinThread(result)
        PROVE  Complete'
    <2>1. /\ at = "join" /\ at' \in {"idle", "closed"} /\ running /\ muxPc = "ended"
          /\ UNCHANGED <<given, muxingQueue, file, muxRet, refusals, cargo, muxerFinished>>
          /\ tq' = tq_alloc
      BY <1>5 DEF joinThread, threadVars, Inv, Phases
    <2>2. Sound => tq'.fifo = tq.fifo
      BY <2>1 DEF Ends, Sound, tq_alloc
    <2>3. \A r \in Streams : InHand(r) \subseteq InHand(r)' /\ (Refused(r)' => Refused(r))
      BY <2>1 DEF InHand, Refused
    <2> QED BY <2>1, <2>2, <2>3, NothingLost DEF Sound
  <1>6. CASE finishThread
    <2> DEFINE open == Streams \ tq.recvFinished
    <2>1. /\ UNCHANGED mainVars /\ UNCHANGED <<file, muxRet>> /\ tq \in Queues
          /\ UNCHANGED tq \/ (open # {} /\ tq' = tq_receive_finish(tq, First(open)))
      BY <1>6 DEF finishThread, Inv, MuxerTypeOK
    <2>2. tq'.fifo = tq.fifo
      <3>1. open # {} => First(open) \in Streams
        BY FirstIsMember
      <3> QED BY <2>1, <3>1, ReceiveFinishEffect
    <2>3. \A r \in Streams : InHand(r) \subseteq InHand(r)' /\ (Refused(r)' => Refused(r))
      BY <2>1 DEF InHand, Refused, mainVars
    <2> QED BY <2>1, <2>2, <2>3, NothingLost DEF Sound, mainVars
  <1>7. CASE UNCHANGED muxerVars
    <2>1. \A r \in Streams : InHand(r) \subseteq InHand(r)' /\ (Refused(r)' => Refused(r))
      BY <1>7 DEF InHand, Refused, muxerVars, mainVars
    <2> QED BY <1>7, <2>1, NothingLost DEF Sound, muxerVars, mainVars, threadVars
  <1> QED BY <1>1, <1>2, <1>3, <1>4, <1>5, <1>6, <1>7, PacketFlushed, PacketSent, PacketReceived
          DEF GivesNothing, MainStep, MuxerThread

(* The ends that were given do not change, unless one is.                  *)
LEMMA EndedStep ==
  ASSUME Inv, Order, Ends, Complete, GivesNothing, Sound'
  PROVE  Sound /\ \A r \in Streams : Ended(r)' => Ended(r)
  <1>1. CASE flushMuxingQueue
    <2> DEFINE waiting == {s \in Streams : muxingQueue[s] # <<>>}
               s == First(waiting)
    <2>1. /\ at = "idle" /\ UNCHANGED <<muxRet, refusals, muxerFinished>>
          /\ muxingQueue \in [Streams -> Seq(Nat)]
      BY <1>1 DEF flushMuxingQueue, threadVars, Inv, MuxerTypeOK
    <2>2. CASE waiting = {}
      <3>1. UNCHANGED <<at, cargo, muxingQueue>>
        BY <1>1, <2>2 DEF flushMuxingQueue
      <3> QED BY <2>1, <3>1 DEF Ended, Refused, Sound
    <2>3. CASE waiting # {}
      <3>1. /\ thread_submit_packet(s, Head(muxingQueue[s]))
            /\ muxingQueue' = [muxingQueue EXCEPT ![s] = Tail(muxingQueue[s])]
        BY <1>1, <2>3 DEF flushMuxingQueue
      <3>2. s \in Streams /\ muxingQueue[s] # <<>> /\ muxingQueue[s] \in Seq(Nat)
        BY <2>3, WaitingStream DEF Inv
      <3> HIDE DEF s
      <3>3. Sound /\ EndIsLast(muxingQueue[s])
        BY <2>1, <3>2 DEF Complete, Sound
      <3>4. Elements(muxingQueue[s]) = {Head(muxingQueue[s])} \union Elements(Tail(muxingQueue[s]))
        BY <3>2, <3>3, EndIsLastTail
      <3>5. /\ cargo'.ost = s
            /\ at' = IF Head(muxingQueue[s]) = NULL \/ s \in muxerFinished THEN "refused" ELSE "send"
        BY <3>1 DEF thread_submit_packet
      <3>6. \A r \in Streams : NULL \in Elements(muxingQueue'[r]) => NULL \in Elements(muxingQueue[r])
        <4> TAKE r \in Streams
        <4>1. r # s => muxingQueue'[r] = muxingQueue[r]
          BY <2>1, <3>1
        <4>2. r = s => muxingQueue'[r] = Tail(muxingQueue[s])
          BY <2>1, <3>1, <3>2
        <4> QED BY <3>4, <4>1, <4>2
      <3>7. \A r \in Streams : Refused(r)' => Ended(r)
        BY <2>1, <3>2, <3>4, <3>5 DEF Refused, Ended
      <3> QED BY <3>3, <3>6, <3>7 DEF Ended
    <2> QED BY <2>2, <2>3
  <1>2. CASE sendToThread
    <2>1. UNCHANGED <<muxRet, muxerFinished, muxingQueue>> /\ refusals \subseteq refusals' /\ at = "send"
      BY <1>2 DEF sendToThread, threadVars
    <2>2. at' # "refused"
      BY <1>2, PacketSent
    <2> QED BY <2>1, <2>2 DEF Ended, Refused, Sound
  <1>3. CASE finishStream
    BY <1>3 DEF finishStream, threadVars, Ended, Refused, Sound
  <1>4. CASE \/ stopStreams \/ of_write_trailer \/ of_close
             \/ \E result \in {"written", "failed"} : joinThread(result)
    <2>1. at' # "refused" /\ UNCHANGED <<muxRet, refusals, muxerFinished, muxingQueue>>
      BY <1>4 DEF stopStreams, of_write_trailer, of_close, joinThread, threadVars, Writable, Free
    <2> QED BY <2>1 DEF Ended, Refused, Sound
  <1>5. CASE \E s \in Streams, result \in {"ok", "stream", "header"} : of_stream_init(s, result)
    <2>1. UNCHANGED <<muxRet, refusals, muxerFinished, muxingQueue, at, cargo>>
      BY <1>5 DEF of_stream_init
    <2> QED BY <2>1 DEF Ended, Refused, Sound
  <1>6. CASE MuxerThread
    <2>1. UNCHANGED mainVars
      BY <1>6 DEF MuxerThread, finishThread, receivePacket
    <2>2. Sound
      <3>1. CASE finishThread
        BY <2>1, <3>1 DEF finishThread, Sound, mainVars
      <3> QED BY <1>6, <3>1, PacketReceived DEF MuxerThread
    <2> QED BY <2>1, <2>2 DEF Ended, Refused, mainVars
  <1>7. CASE UNCHANGED muxerVars
    BY <1>7 DEF muxerVars, mainVars, threadVars, Ended, Refused, Sound
  <1> QED BY <1>1, <1>2, <1>3, <1>4, <1>5, <1>6, <1>7 DEF GivesNothing, MainStep

LEMMA EndedGiven ==
  ASSUME Inv, NEW s \in Streams, NEW eof \in BOOLEAN, of_output_packet(s, eof), Sound'
  PROVE  Sound /\ \A r \in Streams : Ended(r)' => Ended(r) \/ (eof /\ r = s)
  <1> DEFINE pkt == IF eof THEN NULL ELSE given'[s]
  <1>1. /\ at = "idle" /\ submit_packet(s, pkt) /\ UNCHANGED <<muxRet, muxerFinished>>
        /\ muxingQueue \in [Streams -> Seq(Nat)] /\ given[s] \in Nat
        /\ given' = IF eof THEN given ELSE [given EXCEPT ![s] = given[s] + 1]
        /\ given \in [Streams -> Nat]
    BY DEF of_output_packet, Writable, Free, threadVars, Inv, MuxerTypeOK
  <1>2. pkt \in Nat /\ (pkt = NULL <=> eof)
    BY <1>1 DEF NULL
  <1> HIDE DEF pkt
  <1>3. CASE running
    <2>1. /\ cargo' = [ost |-> s, pkt |-> pkt] /\ UNCHANGED <<muxingQueue, refusals>>
          /\ at' = IF pkt = NULL \/ s \in muxerFinished THEN "refused" ELSE "send"
      BY <1>1, <1>3 DEF submit_packet, thread_submit_packet
    <2>2. \A r \in Streams : Refused(r)' => Refused(r) \/ (eof /\ r = s)
      BY <1>1, <1>2, <2>1 DEF Refused
    <2> QED BY <1>1, <2>1, <2>2 DEF Ended, Sound
  <1>4. CASE ~running
    <2>1. UNCHANGED <<at, cargo>> /\ refusals \subseteq refusals'
      BY <1>1, <1>4 DEF submit_packet, queue_packet
    <2>2. \/ UNCHANGED muxingQueue
          \/ muxingQueue' = [muxingQueue EXCEPT ![s] = Append(muxingQueue[s], pkt)]
      BY <1>1, <1>4 DEF submit_packet, queue_packet
    <2>3. \A r \in Streams : /\ r # s => muxingQueue'[r] = muxingQueue[r]
                             /\ r = s => muxingQueue'[r] \in {muxingQueue[s], Append(muxingQueue[s], pkt)}
      BY <1>1, <2>2
    <2>4. Elements(Append(muxingQueue[s], pkt)) = Elements(muxingQueue[s]) \union {pkt}
      BY <1>1, <1>2, ElementsOfAppend
    <2>5. \A r \in Streams : NULL \in Elements(muxingQueue'[r]) =>
            NULL \in Elements(muxingQueue[r]) \/ (eof /\ r = s)
      BY <1>2, <2>3, <2>4
    <2> QED BY <1>1, <2>1, <2>5 DEF Ended, Refused, Sound
  <1> QED BY <1>3, <1>4

(***************************************************************************)
(* What the file holds in the end.                                         *)
(***************************************************************************)

Increasing(q) == \A i, j \in 1..Len(q) : i < j => q[i] < q[j]

FilesSorted == \A s \in Streams : Increasing(file[s])

LEMMA FilesSortedStep ==
  ASSUME Inv, Order, FilesSorted, [MuxerNext]_muxerVars
  PROVE  FilesSorted'
  <1>1. CASE UNCHANGED file
    BY <1>1 DEF FilesSorted
  <1>2. ASSUME NEW s \in Streams, NEW p \in 1..given[s], Older(Elements(file[s]), {p}),
               file' = [file EXCEPT ![s] = Append(file[s], p)]
        PROVE  FilesSorted'
    <2> SUFFICES ASSUME NEW r \in Streams PROVE Increasing(file'[r])
      BY DEF FilesSorted
    <2>1. file \in [Streams -> Seq(Nat)]
      BY DEF Inv, MuxerTypeOK
    <2>2. CASE r # s
      BY <1>2, <2>1, <2>2 DEF FilesSorted
    <2>3. CASE r = s
      <3> DEFINE q == file[s]
      <3>1. q \in Seq(Nat) /\ Increasing(q) /\ file'[r] = Append(q, p) /\ p \in Nat
            /\ \A x \in Elements(q) : x < p
        <4>1. given[s] \in Nat
          BY DEF Inv, MuxerTypeOK
        <4> QED BY <1>2, <2>1, <2>3, <4>1 DEF FilesSorted, Older
      <3> HIDE DEF q
      <3>2. /\ Len(Append(q, p)) = Len(q) + 1 /\ Len(q) \in Nat
            /\ Append(q, p)[Len(q) + 1] = p
            /\ \A i \in 1..Len(q) : Append(q, p)[i] = q[i]
        BY <3>1
      <3>3. \A i \in 1..Len(q) : q[i] < p
        BY <3>1 DEF Elements
      <3>4. Increasing(Append(q, p))
        <4> SUFFICES ASSUME NEW i \in 1..(Len(q) + 1), NEW j \in 1..(Len(q) + 1), i < j
                     PROVE  Append(q, p)[i] < Append(q, p)[j]
          BY <3>2 DEF Increasing
        <4>1. i \in 1..Len(q)
          BY <3>2
        <4>2. j \in 1..Len(q) \/ j = Len(q) + 1
          BY <3>2
        <4> QED BY <3>1, <3>2, <3>3, <4>1, <4>2 DEF Increasing
      <3> QED BY <3>1, <3>4
    <2> QED BY <2>2, <2>3
  <1>3. UNCHANGED file \/ \E result \in Answers : receivePacket(result)
    BY DEF MuxerNext, MainCall, MainStep, MuxerThread, of_output_packet, of_stream_init,
       of_write_trailer, of_close, flushMuxingQueue, sendToThread, finishStream, stopStreams,
       joinThread, finishThread, threadVars, muxerVars
  <1> QED BY <1>1, <1>2, <1>3, receivePacket_Order

(* Numbers in order, and all of them. *)
LEMMA AllInOrder ==
  ASSUME NEW q \in Seq(Nat), NEW n \in Nat, Increasing(q), Elements(q) = 1..n
  PROVE  q = [k \in 1..n |-> k]
  <1>1. Len(q) \in Nat /\ q = [k \in 1..Len(q) |-> q[k]] /\ \A k \in 1..Len(q) : q[k] \in Nat
    OBVIOUS
  <1>2. \A k \in 1..Len(q) : q[k] \in 1..n
    BY DEF Elements
  <1>3. \A v \in 1..n : \E k \in 1..Len(q) : q[k] = v
    BY DEF Elements
  <1> DEFINE bad == {k \in 1..Len(q) : q[k] # k}
  <1>4. bad = {}
    <2> SUFFICES ASSUME bad # {} PROVE FALSE
      OBVIOUS
    <2> DEFINE k == First(bad)
    <2>1. bad \subseteq Nat /\ bad \subseteq 1..Len(q)
      BY <1>1
    <2>2. k \in bad /\ \A t \in bad : k <= t
      <3> HIDE DEF bad
      <3> QED BY <2>1, LeastNumber
    <2>3. k \in 1..Len(q) /\ q[k] # k
      BY <2>2
    <2> HIDE DEF k
    <2>4. \A j \in 1..Len(q) : j < k => q[j] = j
      BY <1>1, <2>2, <2>3
    <2>5. q[k] > k
      <3>1. CASE k = 1
        BY <1>2, <2>3, <3>1
      <3>2. CASE k # 1
        <4>1. k - 1 \in 1..Len(q) /\ k - 1 < k
          BY <1>1, <2>3, <3>2
        <4>2. q[k - 1] = k - 1 /\ q[k - 1] < q[k]
          BY <2>3, <2>4, <4>1 DEF Increasing
        <4> QED BY <1>1, <2>3, <4>1, <4>2
      <3> QED BY <3>1, <3>2
    <2>6. k \in 1..n
      BY <1>2, <2>3, <2>5
    <2>7. PICK m \in 1..Len(q) : q[m] = k
      BY <1>3, <2>6
    <2>8. ~(m < k) /\ m # k
      BY <2>3, <2>4, <2>7
    <2>9. k < m
      BY <2>3, <2>8
    <2>10. q[k] < q[m]
      BY <2>3, <2>9 DEF Increasing
    <2> QED BY <1>1, <2>3, <2>5, <2>7, <2>10
  <1>5. \A k \in 1..Len(q) : q[k] = k
    BY <1>4
  <1>6. Len(q) = n
    <2>1. Len(q) <= n
      <3>1. Len(q) = 0 \/ Len(q) \in 1..Len(q)
        BY <1>1
      <3> QED BY <1>2, <1>5, <3>1
    <2>2. n <= Len(q)
      <3>1. n = 0 \/ n \in 1..n
        OBVIOUS
      <3> QED BY <1>1, <1>3, <1>5, <3>1
    <2> QED BY <1>1, <2>1, <2>2
  <1> QED BY <1>1, <1>5, <1>6

(* A file with its trailer holds every packet, if nothing was refused.     *)
LEMMA FileIsWhole ==
  ASSUME Inv, Order, Ends, Complete, FilesSorted, trailer = "written", main_return_code = "ok",
         refusals = {}, NEW s \in Streams
  PROVE  file[s] = [n \in 1..given[s] |-> n]
  <1>1. Sound /\ ~running /\ muxingQueue[s] = <<>>
    BY DEF Ends, Sound
  <1>2. tq.fifo = <<>> /\ InHand(s) = {}
    BY <1>1 DEF Inv, Phases, tq_alloc, InHand
  <1>3. PacketsOf(tq.fifo, s) = {} /\ Kept(muxingQueue[s]) = {}
    BY <1>1, <1>2 DEF PacketsOf, Kept, Elements
  <1>4. 1..given[s] \subseteq Places(s)
    BY <1>1 DEF Complete
  <1>5. Elements(file[s]) \subseteq 1..given[s] /\ given[s] \in Nat /\ file[s] \in Seq(Nat)
    BY OrderOf DEF Lined
  <1>6. Elements(file[s]) = 1..given[s]
    BY <1>2, <1>3, <1>4, <1>5 DEF Places
  <1> QED BY <1>5, <1>6, AllInOrder DEF FilesSorted

LEMMA WholeInit ==
  ASSUME MuxerInit
  PROVE  /\ Ends /\ Complete /\ FilesSorted
         /\ \A s \in Streams : ~Ended(s)
  <1>1. /\ tq.fifo = <<>> /\ tq.recvFinished = {} /\ muxRet = "ok" /\ muxPc = "none" /\ ~running
        /\ trailer = "none" /\ closing = "no" /\ at = "idle" /\ muxerFinished = {}
        /\ \A s \in Streams : muxingQueue[s] = <<>> /\ file[s] = <<>> /\ given[s] = 0
    BY DEF MuxerInit, tq_alloc
  <1>2. Ends
    BY <1>1 DEF Ends
  <1>3. \A s \in Streams : Elements(muxingQueue[s]) = {} /\ EndIsLast(muxingQueue[s])
                           /\ Increasing(file[s]) /\ 1..given[s] = {}
    BY <1>1 DEF Elements, EndIsLast, Increasing
  <1>4. \A s \in Streams : ~Ended(s)
    BY <1>1, <1>3 DEF Ended, Refused
  <1> QED BY <1>1, <1>2, <1>3, <1>4 DEF Complete, FilesSorted, Ended
================================================================================
