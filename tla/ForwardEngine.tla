---------------------------- MODULE ForwardEngine ----------------------------
(***************************************************************************)
(* Forward_Engine (src/App.cpp): the two packet workers and their shutdown. *)
(* A worker has an RX thread, which copies frames from the socket into      *)
(* frame_q and signals frame_efd, and a processing thread, which drains     *)
(* frame_q through the pipeline, runs the shaper and then sleeps in poll    *)
(* until frame_efd or stop_efd is readable.                                 *)
(*                                                                          *)
(* The socket is a ring of slots shared with the kernel                     *)
(* (src/RawSocket_util.cpp): a slot belongs to the kernel until it holds a  *)
(* frame, and to the RX thread until that gives it back.  A frame is known  *)
(* by the number of its arrival; one that this machine sent itself shows up *)
(* too, as PACKET_OUTGOING, and is skipped.  frame_q is the bounded queue   *)
(* that SpscRing implements.  frame_efd is drained by every read, so only   *)
(* whether it is readable matters; stop_efd is a semaphore.  The shaper is  *)
(* reduced to a backlog of unit packets and a bucket of unit tokens that    *)
(* time refills (Shaper has the details).  Signals, which would interrupt   *)
(* a poll, are not modelled.                                                *)
(***************************************************************************)
EXTENDS Naturals, Sequences, FiniteSets

CONSTANTS Worker,     \* the two directions
          QueueCap,   \* frames frame_q holds
          FrameNr,    \* FRAME_NR, the slots of the socket ring
          Backlog,    \* packets the shaper's ring holds
          Burst,      \* tokens a full bucket holds
          Frames      \* bound on the frames that arrive at a worker

ASSUME ForwardConstants ==
  /\ IsFiniteSet(Worker)
  /\ QueueCap \in Nat \ {0} /\ FrameNr \in Nat \ {0}
  /\ Backlog \in Nat \ {0} /\ Burst \in Nat \ {0} /\ Frames \in Nat

VARIABLES running,    \* running_
          main,       \* the thread that calls stop()
          open,       \* poll_sync_ holds open descriptors
          stop_efd, frame_efd, frame_q,
          ring,       \* the slots of the socket ring
          head,       \* the slot the kernel fills next
          rx_idx,     \* the slot the RX thread looks at next
          arrived,    \* frames put into the ring; the outgoing ones among them
          outgoing,
          dropped,    \* dropped[0]: frames that found frame_q full
          processed,  \* history: the frames handed to the pipeline
          rx, proc,   \* program counters of the two threads of each worker
          backlog, tokens

sync == <<stop_efd, frame_efd, frame_q>>
nic == <<ring, rx_idx>>
wire == <<head, arrived, outgoing>>
counts == <<dropped, processed>>
shaper == <<backlog, tokens>>
vars == <<running, main, open, sync, nic, wire, counts, rx, proc, shaper>>

Zero == [w \in Worker |-> 0]
Kernel == 0             \* TP_STATUS_KERNEL; a frame's number stands for TP_STATUS_USER
Slot == 0 .. FrameNr - 1
NextSlot(k) == (k + 1) % FrameNr

\* The state once start() has returned.
Init == /\ running = TRUE
        /\ main = "run"
        /\ open = TRUE
        /\ stop_efd = Zero
        /\ frame_efd = [w \in Worker |-> FALSE]
        /\ frame_q = [w \in Worker |-> <<>>]
        /\ ring = [w \in Worker |-> [k \in Slot |-> Kernel]]
        /\ head = Zero /\ rx_idx = Zero /\ arrived = Zero
        /\ outgoing = [w \in Worker |-> {}]
        /\ dropped = Zero /\ processed = [w \in Worker |-> <<>>]
        /\ rx = [w \in Worker |-> "loop"]
        /\ proc = [w \in Worker |-> "loop"]
        /\ backlog = Zero
        /\ tokens = [w \in Worker |-> Burst]

(***************************************************************************)
(* The environment: frames arrive, and time fills the bucket.  The kernel  *)
(* discards a frame when the slot it would fill is not its own.            *)
(***************************************************************************)
Arrive(w, out) ==
  /\ arrived[w] < Frames /\ ring[w][head[w]] = Kernel
  /\ arrived' = [arrived EXCEPT ![w] = @ + 1]
  /\ outgoing' = [outgoing EXCEPT ![w] = IF out THEN @ \cup {arrived[w] + 1} ELSE @]
  /\ ring' = [ring EXCEPT ![w][head[w]] = arrived[w] + 1]
  /\ head' = [head EXCEPT ![w] = NextSlot(@)]
  /\ UNCHANGED <<running, main, open, sync, rx_idx, counts, rx, proc, shaper>>

Tick(w) == /\ tokens[w] < Burst
           /\ tokens' = [tokens EXCEPT ![w] = @ + 1]
           /\ UNCHANGED <<running, main, open, sync, nic, wire, counts, rx, proc, backlog>>

\* poll reports the socket readable when the slot filled last is unread.
Readable(w) == \E k \in Slot : NextSlot(k) = head[w] /\ ring[w][k] # Kernel

(***************************************************************************)
(* The RX thread.                                                          *)
(***************************************************************************)
RxGoto(w, label) == rx' = [rx EXCEPT ![w] = label]

\* The slot at rx_idx: whether it holds a frame, and its return to the kernel.
Front(w) == ring[w][rx_idx[w]]

advance_frame(w) ==
  /\ ring' = [ring EXCEPT ![w][rx_idx[w]] = Kernel]
  /\ rx_idx' = [rx_idx EXCEPT ![w] = NextSlot(@)]

\* What peek_frame finds first: a frame to pass on, none, or one to skip.
peek_frame(w) == IF Front(w) = Kernel THEN "none"
                 ELSE IF Front(w) \in outgoing[w] THEN "skip" ELSE "frame"

RxLoop(w) == /\ rx[w] = "loop"
             /\ RxGoto(w, IF running THEN "poll" ELSE "done")
             /\ UNCHANGED <<running, main, open, sync, nic, wire, counts, proc, shaper>>

RxPoll(w) == /\ rx[w] = "poll"
             /\ \/ stop_efd[w] > 0 /\ RxGoto(w, "readstop")
                \/ stop_efd[w] = 0 /\ Readable(w) /\ RxGoto(w, "drain")
             /\ UNCHANGED <<running, main, open, sync, nic, wire, counts, proc, shaper>>

RxPollFails(w) == /\ rx[w] = "poll"
                  /\ RxGoto(w, "done")
                  /\ UNCHANGED <<running, main, open, sync, nic, wire, counts, proc, shaper>>

RxReadStop(w) == /\ rx[w] = "readstop" /\ stop_efd[w] > 0
                 /\ stop_efd' = [stop_efd EXCEPT ![w] = @ - 1]
                 /\ RxGoto(w, "done")
                 /\ UNCHANGED <<running, main, open, frame_efd, frame_q, nic, wire, counts, proc, shaper>>

\* The condition of the inner loop: peek_frame runs only while running_ is set.
RxDrain(w) ==
  /\ rx[w] = "drain"
  /\ RxGoto(w, IF running THEN "peek" ELSE "loop")
  /\ UNCHANGED <<running, main, open, sync, nic, wire, counts, proc, shaper>>

RxSkipInPlace(w) ==
  /\ rx[w] = "peek" /\ peek_frame(w) = "skip"
  /\ ring' = [ring EXCEPT ![w][rx_idx[w]] = Kernel]
  /\ UNCHANGED <<running, main, open, sync, rx_idx, wire, counts, rx, proc, shaper>>

\* peek_frame gives a frame of our own back and looks at the next slot.
RxSkip(w) ==
  /\ rx[w] = "peek" /\ peek_frame(w) = "skip"
  /\ advance_frame(w)
  /\ UNCHANGED <<running, main, open, sync, wire, counts, rx, proc, shaper>>

\* The rest of a round up to frame_q.push; a full queue drops the frame.
RxPeek(w) ==
  /\ rx[w] = "peek"
  /\ \/ /\ peek_frame(w) = "none"
        /\ RxGoto(w, "loop")
        /\ UNCHANGED <<frame_q, nic, dropped>>
     \/ /\ peek_frame(w) = "frame" /\ Len(frame_q[w]) < QueueCap
        /\ frame_q' = [frame_q EXCEPT ![w] = Append(@, Front(w))]
        /\ RxGoto(w, "signal")
        /\ UNCHANGED <<nic, dropped>>
     \/ /\ peek_frame(w) = "frame" /\ Len(frame_q[w]) = QueueCap
        /\ dropped' = [dropped EXCEPT ![w] = @ + 1]
        /\ advance_frame(w)
        /\ RxGoto(w, "drain")
        /\ UNCHANGED frame_q
  /\ UNCHANGED <<running, main, open, stop_efd, frame_efd, wire, processed, proc, shaper>>

RxSignalUnfinished(w) ==
  /\ rx[w] = "signal"
  /\ frame_efd' = [frame_efd EXCEPT ![w] = TRUE]
  /\ RxGoto(w, "drain")
  /\ UNCHANGED <<running, main, open, stop_efd, frame_q, nic, wire, counts, proc, shaper>>

\* The process thread is told, and only then the slot goes back to the kernel.
RxSignal(w) == /\ rx[w] = "signal"
               /\ frame_efd' = [frame_efd EXCEPT ![w] = TRUE]
               /\ advance_frame(w)
               /\ RxGoto(w, "drain")
               /\ UNCHANGED <<running, main, open, stop_efd, frame_q, wire, counts, proc, shaper>>

RxStep(w) == \/ RxLoop(w) \/ RxPoll(w) \/ RxReadStop(w)
             \/ RxDrain(w) \/ RxSkip(w) \/ RxPeek(w) \/ RxSignal(w)

(***************************************************************************)
(* The processing thread.                                                  *)
(***************************************************************************)
ProcGoto(w, label) == proc' = [proc EXCEPT ![w] = label]

ProcLoop(w) == /\ proc[w] = "loop"
               /\ ProcGoto(w, IF running THEN "pop" ELSE "done")
               /\ UNCHANGED <<running, main, open, sync, nic, wire, counts, rx, shaper>>

\* on_packet_event: a Normal packet joins the backlog or finds it full; any
\* other packet is sent or consumed on the spot.
ProcPopOnce(w) ==
  /\ proc[w] = "pop"
  /\ ProcGoto(w, "shape")
  /\ \/ frame_q[w] = <<>> /\ UNCHANGED <<frame_q, processed, backlog>>
     \/ /\ frame_q[w] # <<>>
        /\ frame_q' = [frame_q EXCEPT ![w] = Tail(@)]
        /\ processed' = [processed EXCEPT ![w] = Append(@, Head(frame_q[w]))]
        /\ backlog' \in {backlog, [backlog EXCEPT ![w] = IF @ < Backlog THEN @ + 1 ELSE @]}
  /\ UNCHANGED <<running, main, open, stop_efd, frame_efd, nic, wire, dropped, rx, tokens>>

ProcPop(w) ==
  /\ proc[w] = "pop"
  /\ \/ frame_q[w] = <<>> /\ ProcGoto(w, "shape") /\ UNCHANGED <<frame_q, processed, backlog>>
     \/ /\ frame_q[w] # <<>>
        /\ frame_q' = [frame_q EXCEPT ![w] = Tail(@)]
        /\ processed' = [processed EXCEPT ![w] = Append(@, Head(frame_q[w]))]
        /\ backlog' \in {backlog, [backlog EXCEPT ![w] = IF @ < Backlog THEN @ + 1 ELSE @]}
        /\ UNCHANGED proc
  /\ UNCHANGED <<running, main, open, stop_efd, frame_efd, nic, wire, dropped, rx, tokens>>

\* process_queue: one packet per step, until the ring is empty, the bucket
\* is, or the socket is congested.
ProcShape(w) ==
  /\ proc[w] = "shape"
  /\ \/ /\ backlog[w] > 0 /\ tokens[w] > 0
        /\ backlog' = [backlog EXCEPT ![w] = @ - 1]
        /\ tokens' = [tokens EXCEPT ![w] = @ - 1]
        /\ UNCHANGED proc
     \/ /\ backlog[w] = 0 \/ tokens[w] = 0
        /\ ProcGoto(w, "poll")
        /\ UNCHANGED shaper
  /\ UNCHANGED <<running, main, open, sync, nic, wire, counts, rx>>

ProcCongested(w) == /\ proc[w] = "shape" /\ backlog[w] > 0 /\ tokens[w] > 0
                    /\ ProcGoto(w, "poll")
                    /\ UNCHANGED <<running, main, open, sync, nic, wire, counts, rx, shaper>>

ProcPoll(w) == /\ proc[w] = "poll"
               /\ \/ stop_efd[w] > 0 /\ ProcGoto(w, "readstop")
                  \/ stop_efd[w] = 0 /\ frame_efd[w] /\ ProcGoto(w, "readframe")
               /\ UNCHANGED <<running, main, open, sync, nic, wire, counts, rx, shaper>>

ProcPollFails(w) == /\ proc[w] = "poll"
                    /\ ProcGoto(w, "done")
                    /\ UNCHANGED <<running, main, open, sync, nic, wire, counts, rx, shaper>>

ProcReadStop(w) == /\ proc[w] = "readstop" /\ stop_efd[w] > 0
                   /\ stop_efd' = [stop_efd EXCEPT ![w] = @ - 1]
                   /\ ProcGoto(w, "done")
                   /\ UNCHANGED <<running, main, open, frame_efd, frame_q, nic, wire, counts, rx, shaper>>

ProcReadFrame(w) == /\ proc[w] = "readframe" /\ frame_efd[w]
                    /\ frame_efd' = [frame_efd EXCEPT ![w] = FALSE]
                    /\ ProcGoto(w, "loop")
                    /\ UNCHANGED <<running, main, open, stop_efd, frame_q, nic, wire, counts, rx, shaper>>

ProcStep(w) == \/ ProcLoop(w) \/ ProcPop(w) \/ ProcShape(w)
               \/ ProcPoll(w) \/ ProcReadStop(w) \/ ProcReadFrame(w)

(***************************************************************************)
(* stop(): clear running_, wake both workers, join them, close the         *)
(* descriptors.  A second call finds nothing left to do.                   *)
(***************************************************************************)
Stop == /\ main = "run"
        /\ running' = FALSE
        /\ main' = "wake"
        /\ UNCHANGED <<open, sync, nic, wire, counts, rx, proc, shaper>>

WakeWorkersOnce == /\ main = "wake"
                   /\ stop_efd' = [w \in Worker |-> stop_efd[w] + 1]
                   /\ main' = "join"
                   /\ UNCHANGED <<running, open, frame_efd, frame_q, nic, wire, counts, rx, proc, shaper>>

WakeWorkers == /\ main = "wake"
               /\ stop_efd' = [w \in Worker |-> stop_efd[w] + 2]
               /\ main' = "join"
               /\ UNCHANGED <<running, open, frame_efd, frame_q, nic, wire, counts, rx, proc, shaper>>

JoinAndClose == /\ main = "join"
                /\ \A w \in Worker : proc[w] = "done" /\ rx[w] = "done"
                /\ open' = FALSE
                /\ main' = "stopped"
                /\ UNCHANGED <<running, sync, nic, wire, counts, rx, proc, shaper>>

StopStep == WakeWorkers \/ JoinAndClose

Next == \/ Stop \/ StopStep
        \/ \E w \in Worker : \/ (\E out \in BOOLEAN : Arrive(w, out)) \/ Tick(w)
                             \/ RxStep(w) \/ RxPollFails(w)
                             \/ ProcStep(w) \/ ProcCongested(w) \/ ProcPollFails(w)

Spec == Init /\ [][Next]_vars

(***************************************************************************)
(* The operating system runs every thread that can run, a thread inside    *)
(* stop() included, and time passes.  Nothing obliges frames to arrive,    *)
(* poll to fail, the socket to be congested or the user to stop the app.   *)
(***************************************************************************)
Fairness == /\ WF_vars(StopStep)
            /\ \A w \in Worker : WF_vars(RxStep(w)) /\ WF_vars(ProcStep(w)) /\ WF_vars(Tick(w))
FairSpec == Spec /\ Fairness

(***************************************************************************)
(* Properties                                                              *)
(***************************************************************************)
RxPC == {"loop", "poll", "readstop", "drain", "peek", "signal", "done"}
ProcPC == {"loop", "pop", "shape", "poll", "readstop", "readframe", "done"}

\* The types of the state: the eventfd counters never go negative.
TypeOK == /\ running \in BOOLEAN /\ open \in BOOLEAN
          /\ main \in {"run", "wake", "join", "stopped"}
          /\ stop_efd \in [Worker -> Nat]
          /\ frame_efd \in [Worker -> BOOLEAN]
          /\ frame_q \in [Worker -> Seq(Nat)]
          /\ ring \in [Worker -> [Slot -> Nat]]
          /\ head \in [Worker -> Slot] /\ rx_idx \in [Worker -> Slot]
          /\ arrived \in [Worker -> Nat] /\ outgoing \in [Worker -> SUBSET Nat]
          /\ dropped \in [Worker -> Nat] /\ processed \in [Worker -> Seq(Nat)]
          /\ rx \in [Worker -> RxPC] /\ proc \in [Worker -> ProcPC]
          /\ backlog \in [Worker -> Nat] /\ tokens \in [Worker -> Nat]

\* The processing thread never sleeps on a queued frame it will not be woken
\* for: frame_efd is readable, or the RX thread is about to write it.
NoLostWakeup == \A w \in Worker :
  proc[w] = "poll" /\ frame_q[w] # <<>> => frame_efd[w] \/ rx[w] = "signal"

\* The RX thread and the kernel never lose step: while any slot of the socket
\* ring holds a frame, the slot at rx_idx does.  Otherwise peek_frame would
\* report no frame although poll keeps reporting one, and the frames would
\* wait until the kernel had come round the whole ring.
NoStrandedFrame == \A w \in Worker :
  (\E k \in Slot : ring[w][k] # Kernel) => Front(w) # Kernel

\* The frames in the ring that are still to be handed to frame_q.
Waiting(w) == {k \in Slot : /\ ring[w][k] # Kernel /\ ring[w][k] \notin outgoing[w]
                            /\ ~(rx[w] = "signal" /\ k = rx_idx[w])}

\* Every frame received from the wire goes to the pipeline once and in the
\* order of arrival, or is counted in dropped[0]; none that this machine sent
\* itself comes back through the pipeline.
FramesOnceInOrder == \A w \in Worker :
  LET taken == processed[w] \o frame_q[w]
  IN /\ \A a, b \in 1 .. Len(taken) : a < b => taken[a] < taken[b]
     /\ \A a \in 1 .. Len(taken) : taken[a] \notin outgoing[w]
     /\ Len(taken) + Cardinality(Waiting(w)) + dropped[w]
          = arrived[w] - Cardinality(outgoing[w])

\* stop() returns: whatever the threads are doing when it is called, each
\* of them is woken and ends.
StopReturns == main = "wake" ~> main = "stopped"

\* A frame handed to frame_q is processed, unless its processing thread ends.
FramesProcessed == \A w \in Worker : frame_q[w] # <<>> ~> frame_q[w] = <<>> \/ proc[w] = "done"
=============================================================================
