----------------------------- MODULE Collector -----------------------------
(***************************************************************************)
(* The data collectors of scripts/: a process logs in, fetches the minute  *)
(* candles of its codes page by page, newest first, and then stores real-  *)
(* time ticks in a database and in a CSV file for every type until six     *)
(* o'clock. It may crash, also between the steps of a handler, and be      *)
(* started again. `script` tells collector.py from the two scripts it      *)
(* joins, realtime_collector.py and fetch_minute_candles.py.               *)
(***************************************************************************)
EXTENDS Integers, Sequences, SequencesExt, FiniteSets

CONSTANTS
  Script,                 \* the scripts that may be started
  Codes,                  \* the watch list, in order
  RealType,               \* the types of real-time data collected
  Cutoff,                 \* the first minute within --days
  FlushEvery,             \* 50 in the code
  PageSize,               \* external: candles in an answer
  MaxMinutes,             \* bound: minutes of trading
  MaxTicks,               \* bound: real-time events
  MaxLost,                \* bound: requests that are never answered
  MaxCrashes              \* bound

ASSUME CollectorAssumption ==
  /\ Codes \in Seq(Range(Codes)) /\ IsFiniteSet(RealType)
  /\ Script \subseteq {"collector", "realtime", "fetch"}
  /\ {Cutoff, FlushEvery, PageSize} \subseteq Nat \ {0}
  /\ {MaxMinutes, MaxTicks, MaxLost, MaxCrashes} \subseteq Nat

VARIABLES
  script, process,        \* what runs, and how far it is
  idx,                    \* _current_idx
  candles,                \* _candles, of the code being fetched
  prevNext,               \* _prev_next
  step,                   \* what the fetcher waits for: an answer or a timer
  handler,                \* how far _on_real_data is
  counts,                 \* tick_counts
  buffer, open,           \* ticks written to csv_files, and in the transaction
  csv, db,                \* ticks on disk
  table,                  \* the candles table, on disk
  now, cursor,            \* external: the running minute; the last one answered
  received, lost, crashes \* history

fetchVars == <<idx, candles, prevNext, step, table, cursor, lost>>
tickVars  == <<handler, counts, buffer, open, csv, db, received>>
vars == <<script, process, fetchVars, tickVars, now, crashes>>

Code == Range(Codes)
NoRows == [t \in RealType |-> <<>>]

TypeOK ==
  /\ script \in Script
  /\ process \in {"down", "login", "fetching", "streaming", "closing", "ended"}
  /\ idx \in 1 .. Len(Codes) + 1 /\ candles \subseteq Cutoff .. MaxMinutes
  /\ prevNext \in {0, 2} /\ step \in {"nothing", "answer", "page", "code"}
  /\ step # "nothing" => process = "fetching"
  /\ \A row \in table : row.code \in Code /\ row.minute \in Cutoff .. now
  /\ \A row, other \in table :
       row.code = other.code /\ row.minute = other.minute => row = other
  /\ handler \in {"idle", "written", "flushing"}
  /\ handler # "idle" => process = "streaming"
  /\ \A k \in DOMAIN db : db[k] \in 1 .. received

Boot(s) ==
  /\ script' = s /\ process' = "login"
  /\ idx' = 1 /\ candles' = {} /\ prevNext' = 0 /\ step' = "nothing"
  /\ handler' = "idle" /\ counts' = [t \in RealType |-> 0]
  /\ buffer' = NoRows /\ open' = <<>>

Init ==
  /\ script \in Script /\ process = "login"
  /\ idx = 1 /\ candles = {} /\ prevNext = 0 /\ step = "nothing"
  /\ handler = "idle" /\ counts = [t \in RealType |-> 0]
  /\ buffer = NoRows /\ open = <<>> /\ csv = NoRows /\ db = <<>> /\ table = {}
  /\ now \in 1 .. MaxMinutes /\ cursor = 0
  /\ received = 0 /\ lost = 0 /\ crashes = 0

-----------------------------------------------------------------------------
(* Minute candles *)

\* start, of the real-time collector, registers the codes. (Mutant: the
\* fetcher was given no on_done.)
FinishSilently == process' = process
Stream == process' = "streaming"

\* _fetch_next_code: the next code from its first page, or the end.
FetchNextCode ==
  IF idx > Len(Codes)
  THEN /\ step' = "nothing" /\ UNCHANGED <<candles, prevNext>>
       /\ IF script = "fetch" THEN process' = "ended" ELSE Stream
  ELSE /\ candles' = {} /\ prevNext' = 0
       /\ step' = "answer" /\ process' = "fetching"

\* _on_login of the two scripts; on_login of collector.py fetches the candles
\* first, unless --skip-history. (A login that fails changes nothing.)
LoginRealtime  == Stream /\ UNCHANGED <<step, candles, prevNext>>
LoginFetch     == FetchNextCode
LoginCollector == FetchNextCode \/ LoginRealtime

Login ==
  /\ process = "login"
  /\ \/ script = "collector" /\ LoginCollector
     \/ script = "realtime" /\ LoginRealtime
     \/ script = "fetch" /\ LoginFetch
  /\ UNCHANGED <<script, idx, table, cursor, lost, tickVars, now, crashes>>

\* QTimer.singleShot(500, _fetch_next_code)
CodeTimer ==
  /\ process = "fetching" /\ step = "code"
  /\ FetchNextCode
  /\ UNCHANGED <<script, idx, table, cursor, lost, tickVars, now, crashes>>

\* QTimer.singleShot(100, _request)
PageTimer ==
  /\ process = "fetching" /\ step = "page" /\ step' = "answer"
  /\ UNCHANGED <<script, process, idx, candles, prevNext, table, cursor, lost, tickVars, now,
                 crashes>>

\* What opt10080 answers: a page of the newest minutes, or of those before the
\* last one answered.
First == IF prevNext = 0 THEN now ELSE cursor - 1
Page == {m \in 1 .. First : m > First - PageSize}
HasNext == First > PageSize

\* INSERT OR IGNORE: a minute that is stored stays as it was stored. (Mutant:
\* it is stored beside it.)
InsertedBeside(code, minutes) ==
  table \cup {[code |-> code, minute |-> m, whole |-> m < now] : m \in minutes}
Inserted(code, minutes) ==
  table \cup {[code |-> code, minute |-> m, whole |-> m < now] :
                m \in {n \in minutes : \A row \in table : row.code # code \/ row.minute # n}}

\* Whether another page is asked for. (Mutant: one page will do.)
OnePage(page) == FALSE
AsksOn(page) == HasNext /\ \A m \in page : m >= Cutoff

\* In fetch_minute_candles.py: by the last minute it looked at, which is the
\* first it found too old.
Oldest(page) ==
  LET tooOld == {m \in page : m < Cutoff}
  IN IF tooOld = {} THEN CHOOSE m \in page : \A n \in page : m <= n
     ELSE CHOOSE m \in tooOld : \A n \in tooOld : n <= m
FetchAsksOn(page) == HasNext /\ Oldest(page) >= Cutoff

\* _save_and_next: all pages of a code are stored at once.
SaveAndNext(all) ==
  /\ candles' = all /\ table' = Inserted(Codes[idx], all)
  /\ idx' = idx + 1 /\ step' = "code"
  /\ UNCHANGED <<prevNext, cursor>>

NextPage(all) ==
  /\ candles' = all /\ prevNext' = 2 /\ step' = "page"
  /\ cursor' = First - PageSize + 1
  /\ UNCHANGED <<idx, table>>

Answered(more) ==
  /\ process = "fetching" /\ step = "answer"
  /\ LET all == candles \cup {m \in Page : m >= Cutoff}
     IN IF more THEN NextPage(all) ELSE SaveAndNext(all)
  /\ UNCHANGED <<script, process, lost, tickVars, now, crashes>>

\* _on_response of collector.py, _on_tr_response of fetch_minute_candles.py.
OnResponse   == script = "collector" /\ Answered(Page # {} /\ AsksOn(Page))
OnTrResponse == script = "fetch" /\ Answered(Page # {} /\ FetchAsksOn(Page))

\* An answer that never comes: CommRqData refused, or the connection is gone.
Lose ==
  /\ process = "fetching" /\ step = "answer" /\ lost < MaxLost
  /\ lost' = lost + 1 /\ step' = "nothing"
  /\ UNCHANGED <<script, process, idx, candles, prevNext, table, cursor, tickVars, now, crashes>>

-----------------------------------------------------------------------------
(* Real-time ticks *)

\* The ticks of all types since the process began.
Counted(f) == SumFunctionOnSet(f, RealType)

\* (Mutant: every type has its own fifty.)
FlushPerType(f) == \A t \in RealType : f[t] % FlushEvery = 0
Flushes(f) == Counted(f) % FlushEvery = 0

\* _on_real_data begins: a row for the CSV file, which is counted.
WriteRow(t) ==
  /\ process = "streaming" /\ handler = "idle" /\ received < MaxTicks
  /\ received' = received + 1
  /\ buffer' = [buffer EXCEPT ![t] = Append(@, received + 1)]
  /\ counts' = [counts EXCEPT ![t] = @ + 1]
  /\ handler' = "written"
  /\ UNCHANGED <<script, process, fetchVars, open, csv, db, now, crashes>>

\* The row for the database, and whether this is a fiftieth tick.
InsertRow ==
  /\ handler = "written"
  /\ open' = Append(open, received)
  /\ handler' = IF Flushes(counts) THEN "flushing" ELSE "idle"
  /\ UNCHANGED <<script, process, fetchVars, counts, buffer, csv, db, received, now, crashes>>

\* One of the CSV files is flushed, in any order, and the database after all.
FlushFile(t) ==
  /\ buffer[t] # <<>>
  /\ csv' = [csv EXCEPT ![t] = @ \o buffer[t]]
  /\ buffer' = [buffer EXCEPT ![t] = <<>>]
  /\ UNCHANGED <<script, process, fetchVars, handler, counts, open, db, received, now, crashes>>

Commit ==
  /\ db' = db \o open /\ open' = <<>>
  /\ UNCHANGED <<script, idx, candles, prevNext, table, cursor, lost, counts, buffer, csv,
                 received, now, crashes>>

CommitFlushed ==
  /\ buffer = NoRows /\ Commit /\ handler' = "idle"
  /\ UNCHANGED <<process, step>>

\* The rest of a handler that has begun; nothing else runs before its end.
Recording ==
  \/ InsertRow
  \/ handler = "flushing" /\ (CommitFlushed \/ \E t \in RealType : FlushFile(t))

\* _on_real_data of the two scripts.
RealData           == Recording \/ \E t \in RealType : WriteRow(t)
OnRealData         == script = "collector" /\ RealData
OnRealDataRealtime == script = "realtime" /\ RealData

\* The commit timer, every five seconds: the database alone.
Committed ==
  /\ process \in {"login", "fetching", "streaming"} /\ handler = "idle"
  /\ Commit
  /\ UNCHANGED <<process, step, handler>>
CommitTimer == script = "collector" /\ Committed
DbCommit    == script = "realtime" /\ Committed

\* cleanup, at six o'clock or when the window system quits: the files one by
\* one, then the database. That it runs a second time, on closed files, changes
\* nothing on disk.
BeginCleanup ==
  /\ process \in {"login", "fetching", "streaming"} /\ handler = "idle"
  /\ process' = "closing" /\ step' = "nothing"
  /\ UNCHANGED <<script, idx, candles, prevNext, table, cursor, lost, tickVars, now, crashes>>

EndCleanup ==
  /\ buffer = NoRows /\ Commit /\ process' = "ended"
  /\ UNCHANGED <<step, handler>>

Closing == process = "closing" /\ (EndCleanup \/ \E t \in RealType : FlushFile(t))

CleanedUp       == BeginCleanup \/ Closing
Cleanup         == script = "collector" /\ CleanedUp
CleanupRealtime == script = "realtime" /\ CleanedUp

-----------------------------------------------------------------------------
(* Crashes *)

\* A crash, wherever the process is; Python has handed the system any part of
\* what a CSV file buffers.
Crash ==
  /\ process \in {"login", "fetching", "streaming", "closing"} /\ crashes < MaxCrashes
  /\ crashes' = crashes + 1
  /\ process' = "down" /\ step' = "nothing" /\ handler' = "idle"
  /\ buffer' = NoRows /\ open' = <<>>
  /\ \E n \in [RealType -> 0 .. received] :
       /\ \A t \in RealType : n[t] <= Len(buffer[t])
       /\ csv' = [t \in RealType |-> csv[t] \o SubSeq(buffer[t], 1, n[t])]
  /\ UNCHANGED <<script, idx, candles, prevNext, table, cursor, lost, counts, db, received, now>>

Restart ==
  /\ process = "down"
  /\ \E s \in Script : Boot(s)
  /\ UNCHANGED <<table, cursor, lost, csv, db, received, now, crashes>>

MinutePasses ==
  /\ now < MaxMinutes /\ now' = now + 1
  /\ UNCHANGED <<script, process, fetchVars, tickVars, crashes>>

Next ==
  \/ Login \/ CodeTimer \/ PageTimer \/ OnResponse \/ OnTrResponse \/ Lose
  \/ OnRealData \/ CommitTimer \/ Cleanup
  \/ OnRealDataRealtime \/ DbCommit \/ CleanupRealtime
  \/ Crash \/ Restart \/ MinutePasses

\* Timers fire, the server answers, a handler runs to its end, a crashed
\* collector is started again.
Fairness ==
  /\ WF_vars(Login) /\ WF_vars(CodeTimer) /\ WF_vars(PageTimer)
  /\ WF_vars(OnResponse) /\ WF_vars(OnTrResponse)
  /\ WF_vars(Recording) /\ WF_vars(Closing) /\ WF_vars(Restart)

Spec == Init /\ [][Next]_vars /\ Fairness

-----------------------------------------------------------------------------
(* Properties *)

\* The stored candles of a code have no gap down to the cutoff, whenever it was
\* fetched, how often the process crashed and which requests went unanswered.
NoGaps ==
  \A row \in table : \A m \in Cutoff .. row.minute :
    \E other \in table : other.code = row.code /\ other.minute = m

\* A crash, at whatever step of a tick, costs the database no more ticks than a
\* flush comprises, and the CSV files together no more, whatever types they are
\* of; while the process lives none is lost, none is stored twice and their
\* order is kept.
Increasing(s) == \A j, k \in DOMAIN s : j < k => s[j] < s[k]
Rows(files) == SumFunctionOnSet([t \in RealType |-> Len(files[t])], RealType)
InsertedRows == IF handler = "written" THEN received - 1 ELSE received
TicksKept ==
  /\ Increasing(db \o open) /\ \A t \in RealType : Increasing(csv[t] \o buffer[t])
  /\ InsertedRows - Len(db \o open) <= crashes * FlushEvery
  /\ received - (Rows(csv) + Rows(buffer)) <= crashes * FlushEvery
  /\ process = "ended" /\ crashes = 0 => Len(db) = received /\ Rows(csv) = received

\* If no request goes unanswered, candles do not keep real-time collection from
\* starting, also after crashes.
RealtimeStarts ==
  <>[](process = "streaming" \/ process = "ended" \/ lost > 0)
=============================================================================
