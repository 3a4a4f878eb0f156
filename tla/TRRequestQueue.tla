--------------------------- MODULE TRRequestQueue ---------------------------
(***************************************************************************)
(* kiwoom_trader/api/tr_request_queue.py: TR requests leave one at a time, *)
(* at least an interval apart, because the server bans a client that asks  *)
(* more often. Time passes in ticks; timeouts are handled as they fall     *)
(* due.                                                                    *)
(***************************************************************************)
EXTENDS Integers, Sequences

CONSTANTS
  Interval,       \* interval_ms, in ticks
  Off             \* a timer that does not run

ASSUME IntervalAssumption == Interval \in Nat \ {0} /\ Off \notin Nat

VARIABLES
  queue,          \* _queue, oldest first
  timer,          \* ticks until the next timeout of _timer, or Off
  since,          \* ticks since the last request left, no further than Interval
  hurried         \* a request left less than an interval after the one before

queueVars == <<queue, timer, since, hurried>>

QueueTypeOK ==
  /\ timer \in (0 .. Interval) \cup {Off}
  /\ since \in 0 .. Interval
  /\ hurried \in BOOLEAN

QueueInit == queue = <<>> /\ timer = Off /\ since = Interval /\ hurried = FALSE

\* What leaves the queue when the requests are enqueued in one handler: the
\* first of them, if the timer does not run.
Dispatched(requests) ==
  IF timer = Off /\ requests # <<>> THEN <<Head(queue \o requests)>> ELSE <<>>

\* The requests of sent, at most one, leave.
Dispatch(sent) ==
  /\ since' = IF sent = <<>> THEN since ELSE 0
  /\ hurried' = (hurried \/ (sent # <<>> /\ since < Interval))

\* enqueue, for each request of one handler.
Enqueue(requests) ==
  LET all == queue \o requests
  IN /\ queue' = IF Dispatched(requests) = <<>> THEN all ELSE Tail(all)
     /\ timer' = IF timer = Off /\ requests # <<>> THEN Interval ELSE timer
     /\ Dispatch(Dispatched(requests))

\* What leaves at a timeout.
Due == IF queue = <<>> THEN <<>> ELSE <<Head(queue)>>

\* Mutant: the timer stops with the last request, not one timeout later.
StopWhenDrained ==
  /\ timer = 0
  /\ timer' = IF Len(queue) <= 1 THEN Off ELSE Interval
  /\ queue' = IF queue = <<>> THEN queue ELSE Tail(queue)
  /\ Dispatch(Due)

\* _process_next, at a timeout.
ProcessNext ==
  /\ timer = 0
  /\ timer' = IF queue = <<>> THEN Off ELSE Interval
  /\ queue' = IF queue = <<>> THEN queue ELSE Tail(queue)
  /\ Dispatch(Due)

\* A tick of time.
Elapse ==
  /\ timer # 0
  /\ timer # Off \/ since < Interval
  /\ timer' = IF timer = Off THEN Off ELSE timer - 1
  /\ since' = IF since < Interval THEN since + 1 ELSE since
  /\ UNCHANGED <<queue, hurried>>

\* "Enforces a minimum interval between TR requests": whichever mixture of
\* immediate dispatches of an idle queue and timeouts let them go.
NeverHurried == ~hurried
=============================================================================
