--------------------------- MODULE SessionManager ---------------------------
(***************************************************************************)
(* kiwoom_trader/api/session_manager.py: the heartbeat, the reconnection   *)
(* timer and the retry count. How long the timers take is left out: the    *)
(* rest of the program runs in seconds, they in tens of seconds, and no    *)
(* property tells the delays of the backoff apart.                         *)
(***************************************************************************)
EXTENDS Integers

CONSTANT MaxRetries     \* MAX_RETRIES

ASSUME RetriesAssumption == MaxRetries \in Nat

VARIABLES
  retries,        \* _retry_count
  heartbeat,      \* whether _heartbeat_timer runs
  reconnect       \* whether _reconnect_timer runs

sessionVars == <<retries, heartbeat, reconnect>>

SessionTypeOK == retries \in 0 .. MaxRetries /\ heartbeat \in BOOLEAN /\ reconnect \in BOOLEAN

SessionInit == retries = 0 /\ heartbeat = FALSE /\ reconnect = FALSE

\* Mutant: one attempt too many.
ScheduleOnceMore ==
  IF retries > MaxRetries THEN UNCHANGED <<retries, reconnect>>
  ELSE retries' = retries + 1 /\ reconnect' = TRUE

\* _schedule_reconnect: nothing when the retries are used up.
ScheduleReconnect ==
  IF retries >= MaxRetries THEN UNCHANGED <<retries, reconnect>>
  ELSE retries' = retries + 1 /\ reconnect' = TRUE

\* Mutant: a login does not give the retries back.
ConnectKeepingRetries(ok) ==
  IF ok THEN heartbeat' = TRUE /\ UNCHANGED <<retries, reconnect>>
  ELSE ScheduleReconnect /\ UNCHANGED heartbeat

\* _on_connect: a login starts the heartbeat anew, a failure schedules the
\* next attempt. An attempt already scheduled stays so.
OnConnect(ok) ==
  IF ok THEN retries' = 0 /\ heartbeat' = TRUE /\ UNCHANGED reconnect
  ELSE ScheduleReconnect /\ UNCHANGED heartbeat

\* Mutant: the next heartbeat is left to see to it.
CheckWithoutSchedule(lost) ==
  /\ heartbeat
  /\ heartbeat' = ~lost
  /\ UNCHANGED <<retries, reconnect>>

\* _check_connection, when GetConnectState says that the connection is lost.
CheckConnection(lost) ==
  /\ heartbeat
  /\ heartbeat' = ~lost
  /\ IF lost THEN ScheduleReconnect ELSE UNCHANGED <<retries, reconnect>>

\* _attempt_reconnect, at the timeout of the one-shot timer; the caller adds
\* the CommConnect.
AttemptReconnect ==
  /\ reconnect
  /\ reconnect' = FALSE
  /\ UNCHANGED <<retries, heartbeat>>
=============================================================================
