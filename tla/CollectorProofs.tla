--------------------------- MODULE CollectorProofs ---------------------------
(***************************************************************************)
(* What Collector guarantees for any watch list, cutoff, page size, number *)
(* of ticks to a flush, and bounds: its types, that the candles stored of  *)
(* a code have no gap, and how few ticks a crash costs.                    *)
(***************************************************************************)
EXTENDS Collector, FoldTheorems

LEMMA ConstantTypes ==
  /\ Cutoff \in Nat \ {0} /\ FlushEvery \in Nat \ {0} /\ PageSize \in Nat \ {0}
  /\ MaxMinutes \in Nat /\ MaxTicks \in Nat /\ MaxCrashes \in Nat
  /\ Len(Codes) \in Nat /\ \A k \in 1 .. Len(Codes) : Codes[k] \in Code
  /\ IsFiniteSet(RealType) /\ Script \subseteq {"collector", "realtime", "fetch"}
<1>1. Codes \in Seq(Code)
  BY CollectorAssumption DEF Code
<1>2. Len(Codes) \in Nat /\ \A k \in 1 .. Len(Codes) : Codes[k] \in Code
  BY <1>1
<1> QED
  BY <1>2, CollectorAssumption

-----------------------------------------------------------------------------
(* Minute candles *)

\* A page is waited for, or asked for.
Paging == step \in {"answer", "page"}

Row == [code : Code, minute : Cutoff .. MaxMinutes, whole : BOOLEAN]

FetchTypeOK ==
  /\ script \in Script
  /\ process \in {"down", "login", "fetching", "streaming", "closing", "ended"}
  /\ step \in {"nothing", "answer", "page", "code"} /\ prevNext \in {0, 2}
  /\ step # "nothing" => process = "fetching"
  /\ idx \in 1 .. Len(Codes) + 1 /\ (Paging => idx <= Len(Codes))
  /\ now \in 1 .. MaxMinutes

\* The pages of a code come without a gap, newest first: what has been taken
\* reaches from the last minute answered up to the first page's newest.
PagesJoin ==
  /\ candles \subseteq Cutoff .. now
  /\ Paging /\ prevNext = 0 => candles = {}
  /\ Paging /\ prevNext = 2 =>
       /\ cursor \in Nat /\ cursor > 1 /\ cursor >= Cutoff
       /\ \E top \in Nat : top <= now /\ cursor <= top + 1 /\ candles = cursor .. top

RowsDistinct ==
  /\ table \subseteq Row
  /\ \A row \in table : row.minute <= now
  /\ \A row, other \in table :
       row.code = other.code /\ row.minute = other.minute => row = other

FetchInv == FetchTypeOK /\ PagesJoin /\ RowsDistinct /\ NoGaps

\* An answer holds a page: it is never empty, and starts at First.
LEMMA PageHolds ==
  ASSUME FetchInv, process = "fetching", step = "answer"
  PROVE  /\ First \in 1 .. now
         /\ Page = {m \in 1 .. First : m > First - PageSize} /\ First \in Page
         /\ \A m \in Page : m \in Nat
<1>1. First \in 1 .. now
  BY DEF First, FetchInv, FetchTypeOK, PagesJoin, Paging
<1> QED
  BY <1>1, ConstantTypes DEF Page

\* The two scripts ask for another page in the same cases.
LEMMA AskAlike ==
  ASSUME FetchInv, process = "fetching", step = "answer"
  PROVE  (Page # {} /\ FetchAsksOn(Page)) <=> (Page # {} /\ AsksOn(Page))
<1> DEFINE tooOld == {m \in Page : m < Cutoff}
<1>1. /\ First \in Nat /\ First >= 1 /\ First \in Page
      /\ \A m : m \in Page <=> m \in Nat /\ 1 <= m /\ m <= First /\ m > First - PageSize
      /\ Cutoff \in Nat /\ PageSize \in Nat /\ PageSize >= 1
  BY PageHolds, ConstantTypes
<1>2. CASE tooOld = {}
  <2> DEFINE least == IF First > PageSize THEN First - PageSize + 1 ELSE 1
  <2>1. least \in Page /\ \A n \in Page : least <= n
    BY <1>1
  <2>2. \E m \in Page : \A n \in Page : m <= n
    BY <2>1
  <2>3. Oldest(Page) \in Page
    BY <1>2, <2>2 DEF Oldest
  <2>4. \A m \in Page : m >= Cutoff
    BY <1>1, <1>2
  <2> QED
    BY <2>3, <2>4 DEF FetchAsksOn, AsksOn
<1>3. CASE tooOld # {}
  <2> DEFINE newest == IF First < Cutoff THEN First ELSE Cutoff - 1
  <2>1. newest \in tooOld /\ \A n \in tooOld : n <= newest
    BY <1>1, <1>3
  <2>2. \E m \in tooOld : \A n \in tooOld : n <= m
    BY <2>1
  <2>3. Oldest(Page) \in tooOld
    BY <1>3, <2>2 DEF Oldest
  <2>4. Oldest(Page) < Cutoff /\ Oldest(Page) \in Nat /\ ~\A m \in Page : m >= Cutoff
    BY <1>1, <2>3
  <2> QED
    BY <1>1, <2>4 DEF FetchAsksOn, AsksOn
<1> QED
  BY <1>2, <1>3

\* What an answer adds joins what was taken before; when no page is asked for
\* after it, all minutes from the cutoff on have been taken.
LEMMA AnswerJoins ==
  ASSUME FetchInv, process = "fetching", step = "answer",
         NEW all, all = candles \cup {m \in Page : m >= Cutoff}
  PROVE  /\ all \subseteq Cutoff .. now
         /\ Page # {} /\ AsksOn(Page) =>
              /\ First - PageSize + 1 \in Nat /\ First - PageSize + 1 > 1
              /\ First - PageSize + 1 >= Cutoff
              /\ \E top \in Nat : /\ top <= now /\ First - PageSize + 1 <= top + 1
                                 /\ all = First - PageSize + 1 .. top
         /\ ~(Page # {} /\ AsksOn(Page)) => \E top \in Nat : top <= now /\ all = Cutoff .. top
<1>1. /\ First \in Nat /\ First >= 1 /\ First <= now /\ now \in Nat
      /\ \A m : m \in Page <=> m \in Nat /\ 1 <= m /\ m <= First /\ m > First - PageSize
      /\ Page # {}
      /\ Cutoff \in Nat /\ Cutoff >= 1 /\ PageSize \in Nat /\ PageSize >= 1
  BY PageHolds, ConstantTypes DEF FetchInv, FetchTypeOK
<1>2. PICK top \in Nat :
        /\ top <= now /\ First <= top
        /\ \A m : m \in candles <=> m \in Nat /\ First < m /\ m <= top
        /\ First + 1 >= Cutoff \/ top = First
  <2>1. CASE prevNext = 0
    <3>1. candles = {}
      BY <2>1 DEF FetchInv, PagesJoin, Paging
    <3> QED
      BY <1>1, <3>1
  <2>2. CASE prevNext = 2
    <3>1. /\ cursor \in Nat /\ cursor >= Cutoff /\ First = cursor - 1
          /\ \E top \in Nat : top <= now /\ cursor <= top + 1 /\ candles = cursor .. top
      BY <2>2 DEF FetchInv, PagesJoin, Paging, First
    <3> QED
      BY <1>1, <3>1
  <2> QED
    BY <2>1, <2>2 DEF FetchInv, FetchTypeOK
<1>3. \A m : m \in all <=>
        /\ m \in Nat
        /\ \/ First < m /\ m <= top
           \/ 1 <= m /\ m <= First /\ m > First - PageSize /\ m >= Cutoff
  BY <1>1, <1>2
<1>4. all \subseteq Cutoff .. now
  BY <1>1, <1>2, <1>3
<1>5. ASSUME AsksOn(Page)
      PROVE  /\ First - PageSize + 1 \in Nat /\ First - PageSize + 1 > 1
             /\ First - PageSize + 1 >= Cutoff
             /\ First - PageSize + 1 <= top + 1 /\ all = First - PageSize + 1 .. top
  <2>1. First - PageSize + 1 > 1
    BY <1>1, <1>5 DEF AsksOn, HasNext
  <2>2. First - PageSize + 1 \in Page
    BY <1>1, <2>1
  <2>3. First - PageSize + 1 >= Cutoff
    BY <1>5, <2>2 DEF AsksOn
  <2> QED
    BY <1>1, <1>2, <1>3, <2>1, <2>3
<1>6. ASSUME ~AsksOn(Page)
      PROVE  all = Cutoff .. top
  <2>1. First <= PageSize \/ \E m \in Page : m < Cutoff
    BY <1>1, <1>6 DEF AsksOn, HasNext
  <2> QED
    BY <1>1, <1>2, <1>3, <2>1
<1> QED
  BY <1>1, <1>2, <1>4, <1>5, <1>6

\* Storing all minutes from the cutoff up to one leaves no gap, whatever was
\* stored before.
LEMMA InsertJoins ==
  ASSUME FetchInv, NEW code \in Code, NEW top \in Nat, top <= now,
         table' = Inserted(code, Cutoff .. top), now' = now
  PROVE  RowsDistinct' /\ NoGaps'
<1> DEFINE new == {n \in Cutoff .. top : \A row \in table : row.code # code \/ row.minute # n}
           R(m) == [code |-> code, minute |-> m, whole |-> m < now]
<1>0. /\ now \in Nat /\ now <= MaxMinutes /\ MaxMinutes \in Nat /\ Cutoff \in Nat
      /\ \A row \in table : /\ row \in Row /\ row.minute <= now /\ row.code \in Code
                            /\ row.minute \in Nat /\ row.minute >= Cutoff
  BY ConstantTypes DEF FetchInv, FetchTypeOK, RowsDistinct, Row
<1>1. table' = table \cup {R(m) : m \in new}
  BY DEF Inserted
<1>2. \A m \in new : /\ m \in Nat /\ Cutoff <= m /\ m <= top
                    /\ R(m).code = code /\ R(m).minute = m
                    /\ \A row \in table : row.code # code \/ row.minute # m
  BY <1>0
<1>3. \A m \in new : R(m) \in Row
  BY <1>0, <1>2 DEF Row
<1> HIDE DEF R, new
<1>4. \A row \in table' : row \in Row /\ row.minute <= now
  BY <1>0, <1>1, <1>2, <1>3
<1>5. ASSUME NEW row \in table', NEW other \in table',
             row.code = other.code, row.minute = other.minute
      PROVE  row = other
  <2>1. CASE row \in table /\ other \in table
    BY <1>5, <2>1 DEF FetchInv, RowsDistinct
  <2>2. ASSUME NEW m \in new, row = R(m) PROVE row = other
    <3>1. other \notin table
      BY <1>2, <1>5, <2>2
    <3>2. PICK k \in new : other = R(k)
      BY <1>1, <3>1
    <3> QED
      BY <1>2, <1>5, <2>2, <3>2
  <2>3. ASSUME NEW m \in new, other = R(m) PROVE row = other
    <3>1. row \notin table
      BY <1>2, <1>5, <2>3
    <3>2. PICK k \in new : row = R(k)
      BY <1>1, <3>1
    <3> QED
      BY <1>2, <1>5, <2>3, <3>2
  <2> QED
    BY <1>1, <2>1, <2>2, <2>3
<1>6. RowsDistinct'
  <2>1. table' \subseteq Row
    BY <1>4
  <2> QED
    BY <1>4, <1>5, <2>1 DEF RowsDistinct
<1>7. ASSUME NEW row \in table', NEW m \in Cutoff .. row.minute
      PROVE  \E other \in table' : other.code = row.code /\ other.minute = m
  <2>1. CASE row \in table
    BY <1>1, <2>1 DEF FetchInv, NoGaps
  <2>2. ASSUME NEW k \in new, row = R(k)
        PROVE  \E other \in table' : other.code = row.code /\ other.minute = m
    <3>1. row.code = code /\ m \in Cutoff .. top
      BY <1>0, <1>2, <2>2
    <3>2. CASE m \in new
      BY <1>1, <1>2, <3>1, <3>2
    <3>3. CASE m \notin new
      <4>1. \E other \in table : other.code = code /\ other.minute = m
        BY <3>1, <3>3 DEF new
      <4> QED
        BY <1>1, <3>1, <4>1
    <3> QED
      BY <3>2, <3>3
  <2> QED
    BY <1>1, <2>1, <2>2
<1> QED
  BY <1>6, <1>7 DEF NoGaps

\* What leaves the table alone, while time may pass, keeps it as it is.
LEMMA TableStays ==
  ASSUME FetchInv, table' = table, now' \in Nat, now <= now'
  PROVE  RowsDistinct' /\ NoGaps'
<1>1. \A row \in table : row.minute \in Nat /\ row.minute <= now /\ now \in Nat
  BY ConstantTypes DEF FetchInv, FetchTypeOK, RowsDistinct, Row
<1>2. RowsDistinct'
  BY <1>1 DEF FetchInv, RowsDistinct
<1> QED
  BY <1>2 DEF FetchInv, NoGaps

LEMMA FetchInit == Init => FetchInv
<1> SUFFICES ASSUME Init PROVE FetchInv
  OBVIOUS
<1>1. FetchTypeOK
  BY ConstantTypes DEF Init, FetchTypeOK, Paging
<1>2. PagesJoin
  BY DEF Init, PagesJoin, Paging
<1>3. RowsDistinct /\ NoGaps
  BY DEF Init, RowsDistinct, NoGaps
<1> QED
  BY <1>1, <1>2, <1>3 DEF FetchInv

\* The next code starts with its first page, or there is none.
LEMMA NextCodeKeeps ==
  ASSUME FetchInv, FetchNextCode, UNCHANGED <<script, idx, now, cursor, table>>
  PROVE  FetchInv'
<1>1. FetchTypeOK'
  BY ConstantTypes DEF FetchInv, FetchTypeOK, FetchNextCode, Stream, Paging
<1>2. PagesJoin'
  <2>1. CASE idx > Len(Codes)
    BY <2>1 DEF FetchInv, PagesJoin, FetchNextCode, Paging
  <2>2. CASE ~(idx > Len(Codes))
    BY <2>2 DEF FetchInv, PagesJoin, FetchNextCode, Paging
  <2> QED
    BY <2>1, <2>2
<1>3. now' \in Nat /\ now <= now'
  BY DEF FetchInv, FetchTypeOK
<1> QED
  BY <1>1, <1>2, <1>3, TableStays DEF FetchInv

LEMMA AnswerKeeps ==
  ASSUME FetchInv, NEW more, more <=> Page # {} /\ AsksOn(Page), Answered(more)
  PROVE  FetchInv'
<1> DEFINE all == candles \cup {m \in Page : m >= Cutoff}
<1>1. /\ process = "fetching" /\ step = "answer" /\ process' = process /\ script' = script
      /\ now' = now /\ IF more THEN NextPage(all) ELSE SaveAndNext(all)
  BY DEF Answered
<1>2. /\ all \subseteq Cutoff .. now
      /\ more =>
           /\ First - PageSize + 1 \in Nat /\ First - PageSize + 1 > 1
           /\ First - PageSize + 1 >= Cutoff
           /\ \E top \in Nat : /\ top <= now /\ First - PageSize + 1 <= top + 1
                              /\ all = First - PageSize + 1 .. top
      /\ ~more => \E top \in Nat : top <= now /\ all = Cutoff .. top
  BY <1>1, AnswerJoins
<1> HIDE DEF all
<1>3. now' \in Nat /\ now <= now'
  BY <1>1 DEF FetchInv, FetchTypeOK
<1>4. CASE more
  <2>1. /\ candles' = all /\ prevNext' = 2 /\ step' = "page" /\ idx' = idx /\ table' = table
        /\ cursor' = First - PageSize + 1
    BY <1>1, <1>4 DEF NextPage
  <2>2. FetchTypeOK'
    BY <1>1, <2>1 DEF FetchInv, FetchTypeOK, Paging
  <2>3. PagesJoin'
    BY <1>1, <1>2, <1>4, <2>1 DEF PagesJoin
  <2> QED
    BY <1>3, <2>1, <2>2, <2>3, TableStays DEF FetchInv
<1>5. CASE ~more
  <2>1. /\ candles' = all /\ step' = "code" /\ idx' = idx + 1 /\ prevNext' = prevNext
        /\ table' = Inserted(Codes[idx], all)
    BY <1>1, <1>5 DEF SaveAndNext
  <2>2. FetchTypeOK' /\ Codes[idx] \in Code
    BY <1>1, <2>1, ConstantTypes DEF FetchInv, FetchTypeOK, Paging
  <2>3. PagesJoin'
    BY <1>1, <1>2, <2>1 DEF PagesJoin, Paging
  <2>4. PICK top \in Nat : top <= now /\ all = Cutoff .. top
    BY <1>2, <1>5
  <2> QED
    BY <1>1, <2>1, <2>2, <2>3, <2>4, InsertJoins DEF FetchInv
<1> QED
  BY <1>4, <1>5

\* Steps that move neither the fetcher on nor the table, and boots.
LEMMA FetchQuiet ==
  ASSUME FetchInv, UNCHANGED <<table, now>>,
         \/ /\ UNCHANGED <<script, idx, candles, prevNext, cursor>>
            /\ process' \in {"down", "closing", "ended", process}
            /\ step' = "nothing" \/ (process' = process /\ step' = step)
            /\ process' # process => step' = "nothing"
         \/ \E s \in Script : Boot(s)
  PROVE  FetchInv'
<1>1. FetchTypeOK'
  BY ConstantTypes DEF FetchInv, FetchTypeOK, Paging, Boot
<1>2. PagesJoin'
  BY DEF FetchInv, PagesJoin, Paging, Boot
<1>3. now' \in Nat /\ now <= now'
  BY DEF FetchInv, FetchTypeOK
<1> QED
  BY <1>1, <1>2, <1>3, TableStays DEF FetchInv

LEMMA FetchNext == FetchInv /\ [Next]_vars => FetchInv'
<1> SUFFICES ASSUME FetchInv, [Next]_vars PROVE FetchInv'
  OBVIOUS
<1>1. CASE Login
  <2>1. CASE FetchNextCode
    BY <1>1, <2>1, NextCodeKeeps DEF Login
  <2>2. CASE LoginRealtime
    <3>1. FetchTypeOK'
      BY <1>1, <2>2 DEF Login, LoginRealtime, Stream, FetchInv, FetchTypeOK, Paging
    <3>2. PagesJoin'
      BY <1>1, <2>2 DEF Login, LoginRealtime, FetchInv, PagesJoin, Paging
    <3>3. now' \in Nat /\ now <= now' /\ table' = table
      BY <1>1 DEF Login, FetchInv, FetchTypeOK
    <3> QED
      BY <3>1, <3>2, <3>3, TableStays DEF FetchInv
  <2> QED
    BY <1>1, <2>1, <2>2 DEF Login, LoginCollector, LoginFetch
<1>2. CASE CodeTimer
  BY <1>2, NextCodeKeeps DEF CodeTimer
<1>3. CASE PageTimer
  <2>1. FetchTypeOK'
    BY <1>3 DEF PageTimer, FetchInv, FetchTypeOK, Paging
  <2>2. PagesJoin'
    BY <1>3 DEF PageTimer, FetchInv, PagesJoin, Paging
  <2>3. now' \in Nat /\ now <= now' /\ table' = table
    BY <1>3 DEF PageTimer, FetchInv, FetchTypeOK
  <2> QED
    BY <2>1, <2>2, <2>3, TableStays DEF FetchInv
<1>4. CASE OnResponse
  BY <1>4, AnswerKeeps DEF OnResponse
<1>5. CASE OnTrResponse
  <2>1. process = "fetching" /\ step = "answer" /\ Answered(Page # {} /\ FetchAsksOn(Page))
    BY <1>5 DEF OnTrResponse, Answered
  <2>2. (Page # {} /\ FetchAsksOn(Page)) <=> (Page # {} /\ AsksOn(Page))
    BY <2>1, AskAlike
  <2> QED
    BY <2>1, <2>2, AnswerKeeps
<1>6. CASE Lose
  BY <1>6, FetchQuiet DEF Lose
<1>7. CASE RealData
  BY <1>7, FetchQuiet DEF RealData, Recording, WriteRow, InsertRow, FlushFile, CommitFlushed,
                          Commit, fetchVars
<1>8. CASE Committed
  BY <1>8, FetchQuiet DEF Committed, Commit
<1>9. CASE CleanedUp
  <2>1. CASE BeginCleanup
    BY <2>1, FetchQuiet DEF BeginCleanup
  <2>2. CASE Closing
    <3>1. \/ process = "closing" /\ EndCleanup
          \/ process = "closing" /\ \E t \in RealType : FlushFile(t)
      BY <2>2 DEF Closing
    <3>2. process = "closing" => step = "nothing"
      BY DEF FetchInv, FetchTypeOK
    <3> QED
      BY <3>1, <3>2, FetchQuiet DEF EndCleanup, Commit, FlushFile, fetchVars
  <2> QED
    BY <1>9, <2>1, <2>2 DEF CleanedUp
<1>10. CASE Crash
  BY <1>10, FetchQuiet DEF Crash
<1>11. CASE Restart
  BY <1>11, FetchQuiet DEF Restart
<1>12. CASE MinutePasses
  <2>0. now \in Nat /\ now' = now + 1 /\ now < MaxMinutes /\ Cutoff \in Nat
    BY <1>12, ConstantTypes DEF MinutePasses, FetchInv, FetchTypeOK
  <2>1. FetchTypeOK'
    BY <1>12, <2>0, ConstantTypes DEF MinutePasses, fetchVars, FetchInv, FetchTypeOK, Paging
  <2>2. PagesJoin'
    <3>1. candles' = candles /\ step' = step /\ prevNext' = prevNext /\ cursor' = cursor
      BY <1>12 DEF MinutePasses, fetchVars
    <3>2. candles' \subseteq Cutoff .. now'
      BY <2>0, <3>1 DEF FetchInv, PagesJoin
    <3>3. ASSUME NEW top \in Nat, top <= now PROVE top <= now'
      BY <2>0, <3>3
    <3> QED
      BY <3>1, <3>2, <3>3 DEF FetchInv, PagesJoin, Paging
  <2>3. now' \in Nat /\ now <= now' /\ table' = table
    BY <1>12, <2>0 DEF MinutePasses, fetchVars
  <2> QED
    BY <2>1, <2>2, <2>3, TableStays DEF FetchInv
<1>13. CASE UNCHANGED vars
  BY <1>13, FetchQuiet DEF vars, fetchVars
<1> QED
  BY <1>1, <1>2, <1>3, <1>4, <1>5, <1>6, <1>7, <1>8, <1>9, <1>10, <1>11, <1>12, <1>13
  DEF Next, OnRealData, OnRealDataRealtime, CommitTimer, DbCommit, Cleanup, CleanupRealtime

\* The candles stored of a code have no gap down to the cutoff, whatever the
\* size of a page, the number of crashes and the requests that got no answer.
THEOREM CandlesJoin == Spec => []NoGaps
<1>1. FetchInv => NoGaps
  BY DEF FetchInv
<1> QED
  BY <1>1, FetchInit, FetchNext, PTL DEF Spec

-----------------------------------------------------------------------------
(* Counting *)

\* Division by d, in either direction.
LEMMA Division ==
  ASSUME NEW d \in Nat \ {0}
  PROVE  /\ \A a \in Nat : a = d * (a \div d) + (a % d) /\ a \div d \in Nat /\ a % d \in 0 .. d - 1
         /\ \A q \in Nat, r \in 0 .. d - 1 : (d * q + r) % d = r
OBVIOUS

\* The remainder of the next number is one more, or nothing.
LEMMA RemainderCounts ==
  ASSUME NEW d \in Nat \ {0}, NEW a \in Nat, (a + 1) % d # 0
  PROVE  (a + 1) % d = (a % d) + 1
<1> DEFINE q == a \div d
           r == a % d
<1>1. a = d * q + r /\ q \in Nat /\ r \in 0 .. d - 1
  BY Division
<1> HIDE DEF q, r
<1>2. CASE r + 1 < d
  <2>1. a + 1 = d * q + (r + 1)
    BY <1>1
  <2>2. (d * q + (r + 1)) % d = r + 1
    <3>1. r + 1 \in 0 .. d - 1
      BY <1>1, <1>2
    <3> QED
      BY <1>1, <3>1, Division
  <2> QED
    BY <2>1, <2>2 DEF r
<1>3. CASE r + 1 = d
  <2>1. a + 1 = d * (q + 1) + 0
    BY <1>1, <1>3
  <2>2. (d * (q + 1) + 0) % d = 0
    BY <1>1, Division
  <2> QED
    BY <2>1, <2>2
<1> QED
  BY <1>1, <1>2, <1>3

\* A tick more of one type is a tick more of all.
LEMMA CountedOne ==
  ASSUME NEW f \in [RealType -> Nat], NEW t \in RealType
  PROVE  /\ Counted(f) \in Nat /\ [f EXCEPT ![t] = @ + 1] \in [RealType -> Nat]
         /\ Counted([f EXCEPT ![t] = @ + 1]) = Counted(f) + 1
<1>1. IsFiniteSet(RealType)
  BY ConstantTypes
<1>2. Counted(f) \in Nat
  BY <1>1, SumNat DEF Counted
<1>3. ASSUME NEW h, h = [f EXCEPT ![t] = f[t] + 1]
      PROVE  Counted(h) = Counted(f) + 1
  <2>1. Numbers(f, RealType) /\ Numbers(h, RealType) /\ Agree(f, h, RealType \ {t})
    BY <1>3 DEF Numbers, Agree
  <2>2. h[t] = f[t] + 1
    BY <1>3
  <2>3. h[t] = f[t] + 1 => SumFunctionOnSet(h, RealType) = SumFunctionOnSet(f, RealType) + 1
    BY <1>1, <2>1, SumStepsUp
  <2> QED
    BY <2>2, <2>3 DEF Counted
<1>4. Counted([f EXCEPT ![t] = f[t] + 1]) = Counted(f) + 1
  BY <1>3
<1>5. [f EXCEPT ![t] = f[t] + 1] \in [RealType -> Nat]
  OBVIOUS
<1> QED
  BY <1>2, <1>4, <1>5

\* No ticks are none of any type.
LEMMA CountedNone ==
  Counted([t \in RealType |-> 0]) = 0
<1>1. \A x \in RealType : [t \in RealType |-> 0][x] = 0
  OBVIOUS
<1> QED
  BY <1>1, ConstantTypes, SumZero DEF Counted

-----------------------------------------------------------------------------
(* Ticks *)

\* Ticks no later than the n-th, in the order they came.
Kept(s, n) ==
  /\ s \in Seq(Nat) /\ Increasing(s)
  /\ \A k \in DOMAIN s : 1 <= s[k] /\ s[k] <= n

\* The next tick may follow those before it.
LEMMA KeptGrows ==
  ASSUME NEW n \in Nat, NEW s, Kept(s, n)
  PROVE  Kept(Append(s, n + 1), n + 1)
<1> DEFINE r == Append(s, n + 1)
<1>1. s \in Seq(Nat) /\ Len(s) \in Nat /\ DOMAIN s = 1 .. Len(s)
  BY DEF Kept
<1>2. /\ r \in Seq(Nat) /\ DOMAIN r = 1 .. Len(s) + 1
      /\ \A k \in 1 .. Len(s) : r[k] = s[k]
      /\ r[Len(s) + 1] = n + 1
  BY <1>1
<1> HIDE DEF r
<1>3. \A k \in DOMAIN r : 1 <= r[k] /\ r[k] <= n + 1
  BY <1>1, <1>2 DEF Kept
<1>4. ASSUME NEW j \in DOMAIN r, NEW k \in DOMAIN r, j < k
      PROVE  r[j] < r[k]
  <2>1. j \in 1 .. Len(s) /\ r[j] = s[j] /\ s[j] \in Nat /\ s[j] <= n
    BY <1>1, <1>2, <1>4 DEF Kept
  <2>2. CASE k = Len(s) + 1
    BY <1>2, <2>1, <2>2
  <2>3. CASE k # Len(s) + 1
    <3>1. k \in 1 .. Len(s) /\ r[k] = s[k]
      BY <1>1, <1>2, <2>3
    <3> QED
      BY <1>1, <1>4, <2>1, <3>1 DEF Kept, Increasing
  <2> QED
    BY <2>2, <2>3
<1>5. Kept(r, n + 1)
  BY <1>2, <1>3, <1>4 DEF Kept, Increasing
<1> QED
  BY <1>5 DEF r

\* A tick behind those that are open is a tick behind all.
LEMMA AppendLast ==
  ASSUME NEW s \in Seq(Nat), NEW t \in Seq(Nat), NEW x \in Nat
  PROVE  /\ s \o Append(t, x) = Append(s \o t, x)
         /\ Append(t, x) \in Seq(Nat) /\ Len(Append(t, x)) = Len(t) + 1
OBVIOUS

\* What is open is written behind what was.
LEMMA MovedOver ==
  ASSUME NEW s \in Seq(Nat), NEW t \in Seq(Nat)
  PROVE  /\ s \o t \in Seq(Nat) /\ Len(s \o t) = Len(s) + Len(t)
         /\ (s \o t) \o <<>> = s \o t /\ Len(s) \in Nat /\ Len(t) \in Nat
OBVIOUS

\* No tick has come, so none is kept.
LEMMA KeptNone ==
  ASSUME NEW s \in Seq(Nat), NEW t \in Seq(Nat), Kept(s \o t, 0)
  PROVE  t = <<>>
<1> DEFINE q == s \o t
           l == Len(t)
           m == Len(s)
<1>1. l \in Nat /\ m \in Nat /\ DOMAIN q = 1 .. m + l /\ \A k \in DOMAIN q : q[k] \in Nat
  OBVIOUS
<1>2. \A k \in DOMAIN q : 1 <= q[k] /\ q[k] <= 0
  BY DEF Kept
<1> HIDE DEF q, l, m
<1>3. ~(1 \in DOMAIN q)
  <2> SUFFICES ASSUME 1 \in DOMAIN q PROVE FALSE
    OBVIOUS
  <2> DEFINE x == q[1]
  <2>1. x \in Nat /\ 1 <= x /\ x <= 0
    BY <1>1, <1>2
  <2> HIDE DEF x
  <2> QED
    BY <2>1
<1>4. l = 0
  BY <1>1, <1>3
<1> QED
  BY <1>4 DEF l

\* They are no later than a later tick.
LEMMA KeptLater ==
  ASSUME NEW n \in Int, NEW m \in Int, n <= m, NEW s, Kept(s, n)
  PROVE  Kept(s, m)
<1>1. \A k \in DOMAIN s : s[k] \in Nat
  BY DEF Kept
<1> QED
  BY <1>1 DEF Kept

\* What is left of them when the last ones are lost.
LEMMA KeptShrinks ==
  ASSUME NEW n \in Int, NEW s \in Seq(Nat), NEW t \in Seq(Nat), Kept(s \o t, n),
         NEW k \in 0 .. Len(t)
  PROVE  /\ SubSeq(t, 1, k) \in Seq(Nat) /\ Len(SubSeq(t, 1, k)) = k
         /\ Kept(s \o SubSeq(t, 1, k), n)
<1> DEFINE u == SubSeq(t, 1, k)
           q == s \o t
           r == s \o u
<1>1. /\ u \in Seq(Nat) /\ Len(u) = k /\ \A i \in 1 .. k : u[i] = t[i]
      /\ Len(t) \in Nat /\ Len(s) \in Nat /\ k \in Nat /\ k <= Len(t)
  OBVIOUS
<1> HIDE DEF u
<1>2. /\ q \in Seq(Nat) /\ DOMAIN q = 1 .. Len(s) + Len(t)
      /\ \A i \in 1 .. Len(s) + Len(t) : q[i] = IF i <= Len(s) THEN s[i] ELSE t[i - Len(s)]
  OBVIOUS
<1>3. /\ r \in Seq(Nat) /\ DOMAIN r = 1 .. Len(s) + k
      /\ \A i \in 1 .. Len(s) + k : r[i] = IF i <= Len(s) THEN s[i] ELSE u[i - Len(s)]
  BY <1>1
<1>4. DOMAIN r \subseteq DOMAIN q
  BY <1>1, <1>2, <1>3
<1>5. ASSUME NEW i \in DOMAIN r
      PROVE  r[i] = q[i]
  <2>1. /\ i \in Nat /\ 1 <= i /\ i <= Len(s) + k /\ i \in 1 .. Len(s) + Len(t)
        /\ r[i] = IF i <= Len(s) THEN s[i] ELSE u[i - Len(s)]
        /\ q[i] = IF i <= Len(s) THEN s[i] ELSE t[i - Len(s)]
    BY <1>1, <1>2, <1>3
  <2>2. CASE i <= Len(s)
    BY <2>1, <2>2
  <2>3. CASE ~(i <= Len(s))
    <3>1. i - Len(s) \in 1 .. k
      BY <1>1, <2>1, <2>3
    <3> QED
      BY <1>1, <2>1, <2>3, <3>1
  <2> QED
    BY <2>2, <2>3
<1>6. Kept(q, n)
  OBVIOUS
<1> HIDE DEF q, r
<1>7. Kept(r, n)
  BY <1>3, <1>4, <1>5, <1>6 DEF Kept, Increasing
<1> QED
  BY <1>1, <1>7 DEF r, u

-----------------------------------------------------------------------------
(* The CSV files *)

Files == [RealType -> Seq(Nat)]
Lengths(f) == [t \in RealType |-> Len(f[t])]

LEMMA LengthsTypes ==
  ASSUME NEW f \in Files
  PROVE  /\ Numbers(Lengths(f), RealType) /\ \A t \in RealType : Lengths(f)[t] \in Nat
         /\ Rows(f) = SumFunctionOnSet(Lengths(f), RealType) /\ Rows(f) \in Nat
<1>1. \A t \in RealType : Lengths(f)[t] \in Nat
  BY DEF Files, Lengths
<1>2. Rows(f) = SumFunctionOnSet(Lengths(f), RealType)
  BY DEF Rows, Lengths
<1> QED
  BY <1>1, <1>2, ConstantTypes, SumNat DEF Numbers

\* The rows of all files change as those of one.
LEMMA RowsChange ==
  ASSUME NEW f \in Files, NEW h \in Files, NEW t \in RealType,
         \A u \in RealType \ {t} : h[u] = f[u]
  PROVE  Rows(h) = Rows(f) + (Len(h[t]) - Len(f[t]))
<1>1. Agree(Lengths(f), Lengths(h), RealType \ {t})
  BY DEF Agree, Lengths
<1>2. Lengths(f)[t] = Len(f[t]) /\ Lengths(h)[t] = Len(h[t])
  BY DEF Lengths
<1>3. SumFunctionOnSet(Lengths(h), RealType)
        = SumFunctionOnSet(Lengths(f), RealType) + (Lengths(h)[t] - Lengths(f)[t])
  BY <1>1, ConstantTypes, LengthsTypes, SumChange
<1> QED
  BY <1>2, <1>3, LengthsTypes

LEMMA RowsNone ==
  NoRows \in Files /\ Rows(NoRows) = 0 /\ \A t \in RealType : NoRows[t] = <<>>
<1>1. NoRows \in Files /\ \A t \in RealType : NoRows[t] = <<>> /\ Len(NoRows[t]) = 0
  BY DEF NoRows, Files
<1>2. \A t \in RealType : Lengths(NoRows)[t] = 0
  BY <1>1 DEF Lengths
<1> QED
  BY <1>1, <1>2, ConstantTypes, LengthsTypes, SumZero

\* Files that are nowhere shorter have no fewer rows.
LEMMA RowsLess ==
  ASSUME NEW f \in Files, NEW h \in Files, \A t \in RealType : Len(f[t]) <= Len(h[t])
  PROVE  Rows(f) <= Rows(h)
<1> DEFINE F(s) == SumFunctionOnSet(Lengths(f), s)
           H(s) == SumFunctionOnSet(Lengths(h), s)
           T == {s \in SUBSET RealType : F(s) <= H(s)}
<1>1. ASSUME NEW s \in SUBSET RealType, \A x \in s : s \ {x} \in T
      PROVE  s \in T
  <2>1. CASE s = {}
    <3>1. F(s) = 0 /\ H(s) = 0
      BY <2>1, SumEmpty
    <3> QED
      BY <3>1
  <2>2. CASE s # {}
    <3>1. PICK x \in s : TRUE
      BY <2>2
    <3>2. IsFiniteSet(s) /\ IsFiniteSet(s \ {x})
      BY ConstantTypes, SubsetSize
    <3>3. /\ Numbers(Lengths(f), s) /\ Numbers(Lengths(h), s)
          /\ Numbers(Lengths(f), s \ {x}) /\ Numbers(Lengths(h), s \ {x})
      BY LengthsTypes DEF Numbers
    <3>4. /\ F(s) = Lengths(f)[x] + F(s \ {x}) /\ H(s) = Lengths(h)[x] + H(s \ {x})
          /\ F(s \ {x}) \in Int /\ H(s \ {x}) \in Int
      BY <3>2, <3>3, SumSplit, SumType
    <3>5. /\ Lengths(f)[x] \in Nat /\ Lengths(h)[x] \in Nat /\ Lengths(f)[x] <= Lengths(h)[x]
      BY LengthsTypes DEF Lengths
    <3>6. F(s \ {x}) <= H(s \ {x})
      BY <1>1
    <3> HIDE DEF F, H
    <3>7. F(s) <= H(s)
      BY <3>4, <3>5, <3>6
    <3> QED
      BY <3>7
  <2> QED
    BY <2>1, <2>2
<1>2. T = SUBSET RealType
  <2>1. T \in SUBSET SUBSET RealType
    OBVIOUS
  <2> HIDE DEF T
  <2> QED
    BY <1>1, <2>1, ConstantTypes, Subsets
<1>3. RealType \in T
  BY <1>2
<1> QED
  BY <1>3, LengthsTypes

-----------------------------------------------------------------------------
(* What a crash can cost *)

Living == process \in {"login", "fetching", "streaming"}

TicksTypeOK ==
  /\ counts \in [RealType -> Nat] /\ received \in Nat /\ crashes \in Nat
  /\ handler \in {"idle", "written", "flushing"}
  /\ db \in Seq(Nat) /\ open \in Seq(Nat) /\ csv \in Files /\ buffer \in Files

\* What is open has come since the last flush of a living process, at whatever
\* step of a tick it is.
OpenIsRecent ==
  /\ handler # "idle" => process = "streaming"
  /\ Living /\ handler = "idle" =>
       Rows(buffer) = Counted(counts) % FlushEvery /\ Len(open) <= Rows(buffer)
  /\ handler = "written" =>
       /\ Len(open) + 1 <= Rows(buffer)
       /\ Flushes(counts) \/ Rows(buffer) = Counted(counts) % FlushEvery
  /\ handler = "flushing" => Flushes(counts)
  /\ process \notin {"streaming", "closing"} => open = <<>> /\ buffer = NoRows
  /\ Rows(buffer) <= FlushEvery /\ Len(open) <= FlushEvery

\* The database holds the ticks in order, all of them before any crash.
DbKept(s, n, c) ==
  /\ Kept(s, n) /\ n - Len(s) <= c * FlushEvery
  /\ c = 0 => Len(s) = n

\* And so do the CSV files together.
RowsKept(rows, n, c) ==
  /\ n - rows <= c * FlushEvery
  /\ c = 0 => rows = n

FilesKept == \A t \in RealType : Kept(csv[t] \o buffer[t], received)

TickInv ==
  /\ TicksTypeOK /\ OpenIsRecent /\ FilesKept
  /\ DbKept(db \o open, InsertedRows, crashes)
  /\ RowsKept(Rows(csv) + Rows(buffer), received, crashes)

LEMMA TickInit == Init => TickInv
<1> SUFFICES ASSUME Init PROVE TickInv
  OBVIOUS
<1>1. /\ db = <<>> /\ csv = NoRows /\ open = <<>> /\ buffer = NoRows /\ handler = "idle"
      /\ received = 0 /\ crashes = 0 /\ counts = [t \in RealType |-> 0] /\ process = "login"
  BY DEF Init
<1>2. FlushEvery \in Nat \ {0} /\ 0 % FlushEvery = 0 /\ 0 * FlushEvery = 0
  BY ConstantTypes
<1>3. <<>> \in Seq(Nat) /\ Len(<<>>) = 0 /\ <<>> \o <<>> = <<>> /\ DOMAIN <<>> = {}
  OBVIOUS
<1>4. counts \in [RealType -> Nat]
  BY <1>1
<1>5. TicksTypeOK
  BY <1>1, <1>3, <1>4, RowsNone DEF TicksTypeOK
<1>6. OpenIsRecent
  BY <1>1, <1>2, <1>3, CountedNone, RowsNone DEF OpenIsRecent
<1>7. Kept(<<>>, 0)
  BY <1>3 DEF Kept, Increasing
<1>8. FilesKept
  BY <1>1, <1>3, <1>7, RowsNone DEF FilesKept
<1>9. DbKept(db \o open, InsertedRows, crashes)
  BY <1>1, <1>2, <1>3, <1>7 DEF DbKept, InsertedRows
<1>10. RowsKept(Rows(csv) + Rows(buffer), received, crashes)
  BY <1>1, <1>2, RowsNone DEF RowsKept
<1> QED
  BY <1>5, <1>6, <1>8, <1>9, <1>10 DEF TickInv

\* The types of a state of the invariant, one by one.
LEMMA TickTypes ==
  ASSUME TickInv
  PROVE  /\ db \in Seq(Nat) /\ open \in Seq(Nat) /\ csv \in Files /\ buffer \in Files
         /\ received \in Nat /\ crashes \in Nat /\ counts \in [RealType -> Nat]
         /\ FlushEvery \in Nat \ {0} /\ Len(db) \in Nat /\ Len(open) \in Nat
         /\ Rows(csv) \in Nat /\ Rows(buffer) \in Nat
         /\ Counted(counts) \in Nat /\ Counted(counts) % FlushEvery \in 0 .. FlushEvery - 1
         /\ \A t \in RealType : csv[t] \in Seq(Nat) /\ buffer[t] \in Seq(Nat)
<1>1. /\ db \in Seq(Nat) /\ open \in Seq(Nat) /\ csv \in Files /\ buffer \in Files
      /\ received \in Nat /\ crashes \in Nat /\ counts \in [RealType -> Nat]
      /\ FlushEvery \in Nat \ {0}
  BY ConstantTypes DEF TickInv, TicksTypeOK
<1>2. Rows(csv) \in Nat /\ Rows(buffer) \in Nat
  BY <1>1, LengthsTypes
<1>3. Counted(counts) \in Nat
  BY <1>1, ConstantTypes, SumNat DEF Counted
<1>4. Counted(counts) % FlushEvery \in 0 .. FlushEvery - 1
  BY <1>1, <1>3
<1>5. \A t \in RealType : csv[t] \in Seq(Nat) /\ buffer[t] \in Seq(Nat)
  BY <1>1 DEF Files
<1>6. Len(db) \in Nat /\ Len(open) \in Nat
  BY <1>1
<1> QED
  BY <1>1, <1>2, <1>3, <1>4, <1>5, <1>6

\* A row for a CSV file is one open row more.
LEMMA WriteKeeps ==
  ASSUME TickInv, NEW t \in RealType, WriteRow(t)
  PROVE  TickInv'
<1>1. /\ process = "streaming" /\ handler = "idle" /\ process' = process
      /\ received' = received + 1 /\ handler' = "written"
      /\ buffer' = [buffer EXCEPT ![t] = Append(buffer[t], received + 1)]
      /\ counts' = [counts EXCEPT ![t] = @ + 1]
      /\ db' = db /\ open' = open /\ csv' = csv /\ crashes' = crashes
  BY DEF WriteRow
<1>2. /\ csv[t] \in Seq(Nat) /\ buffer[t] \in Seq(Nat) /\ received \in Nat /\ received + 1 \in Nat
      /\ csv \in Files /\ buffer \in Files /\ FlushEvery \in Nat \ {0}
      /\ Rows(csv) \in Nat /\ Rows(buffer) \in Nat /\ Len(open) \in Nat
      /\ counts \in [RealType -> Nat] /\ Counted(counts) \in Nat
      /\ Counted(counts) % FlushEvery \in 0 .. FlushEvery - 1
  BY TickTypes
<1>3. /\ csv[t] \o Append(buffer[t], received + 1) = Append(csv[t] \o buffer[t], received + 1)
      /\ Append(buffer[t], received + 1) \in Seq(Nat)
      /\ Len(Append(buffer[t], received + 1)) = Len(buffer[t]) + 1
  BY <1>2, AppendLast
<1>4. /\ buffer' \in Files /\ buffer'[t] = Append(buffer[t], received + 1)
      /\ \A u \in RealType \ {t} : buffer'[u] = buffer[u]
  BY <1>1, <1>2, <1>3 DEF Files
<1>5. Rows(buffer') = Rows(buffer) + 1
  <2>1. Rows(buffer') = Rows(buffer) + (Len(buffer'[t]) - Len(buffer[t]))
    BY <1>2, <1>4, RowsChange
  <2>2. Len(buffer[t]) \in Nat
    BY <1>2
  <2> QED
    BY <1>2, <1>3, <1>4, <2>1, <2>2
<1>6. counts' \in [RealType -> Nat] /\ Counted(counts') = Counted(counts) + 1
  BY <1>1, <1>2, CountedOne
<1>7. TicksTypeOK'
  BY <1>1, <1>2, <1>4, <1>6 DEF TickInv, TicksTypeOK
<1>8. OpenIsRecent'
  <2>1. Rows(buffer) = Counted(counts) % FlushEvery /\ Len(open) <= Rows(buffer)
    BY <1>1 DEF TickInv, OpenIsRecent, Living
  <2>2. Rows(buffer') <= FlushEvery /\ Len(open) + 1 <= Rows(buffer') /\ Len(open) <= FlushEvery
    BY <1>2, <1>5, <2>1
  <2>3. Flushes(counts') \/ Rows(buffer') = Counted(counts') % FlushEvery
    <3>1. CASE (Counted(counts) + 1) % FlushEvery = 0
      BY <1>6, <3>1 DEF Flushes
    <3>2. CASE (Counted(counts) + 1) % FlushEvery # 0
      BY <1>2, <1>5, <1>6, <2>1, <3>2, RemainderCounts
    <3> QED
      BY <3>1, <3>2
  <2> QED
    BY <1>1, <2>2, <2>3 DEF OpenIsRecent
<1>9. FilesKept'
  <2> SUFFICES ASSUME NEW u \in RealType PROVE Kept(csv[u] \o buffer'[u], received + 1)
    BY <1>1 DEF FilesKept
  <2>1. Kept(csv[u] \o buffer[u], received) /\ received <= received + 1
    BY <1>2 DEF TickInv, FilesKept
  <2>2. CASE u = t
    BY <1>2, <1>3, <1>4, <2>1, <2>2, KeptGrows
  <2>3. CASE u # t
    BY <1>2, <1>4, <2>1, <2>3, KeptLater
  <2> QED
    BY <2>2, <2>3
<1>10. DbKept(db \o open, InsertedRows, crashes)'
  <2>1. InsertedRows = received /\ InsertedRows' = received
    BY <1>1, <1>2 DEF InsertedRows
  <2> QED
    BY <1>1, <2>1 DEF TickInv
<1>11. RowsKept(Rows(csv) + Rows(buffer), received, crashes)'
  <2> DEFINE n == Rows(csv) + Rows(buffer)
             allowed == crashes * FlushEvery
  <2>1. /\ received - n <= allowed /\ (crashes = 0 => n = received) /\ n \in Nat
    BY <1>2 DEF TickInv, RowsKept
  <2>2. Rows(csv') + Rows(buffer') = n + 1
    BY <1>1, <1>2, <1>5
  <2>3. (received + 1) - (n + 1) = received - n
    BY <1>2, <2>1
  <2> HIDE DEF n
  <2> QED
    BY <1>1, <2>1, <2>2, <2>3 DEF RowsKept
<1> QED
  BY <1>7, <1>8, <1>9, <1>10, <1>11 DEF TickInv

\* A row for the database catches up with it.
LEMMA InsertKeeps ==
  ASSUME TickInv, InsertRow
  PROVE  TickInv'
<1>1. /\ handler = "written" /\ open' = Append(open, received)
      /\ handler' = IF Flushes(counts) THEN "flushing" ELSE "idle"
      /\ process' = process /\ counts' = counts /\ buffer' = buffer /\ csv' = csv /\ db' = db
      /\ received' = received /\ crashes' = crashes
  BY DEF InsertRow
<1>2. /\ db \in Seq(Nat) /\ open \in Seq(Nat) /\ received \in Nat /\ Len(open) \in Nat
      /\ Rows(buffer) \in Nat /\ FlushEvery \in Nat
  BY TickTypes
<1>3. /\ db \o Append(open, received) = Append(db \o open, received)
      /\ Append(open, received) \in Seq(Nat) /\ Len(Append(open, received)) = Len(open) + 1
  BY <1>2, AppendLast
<1>4. TicksTypeOK'
  BY <1>1, <1>3 DEF TickInv, TicksTypeOK
<1>5. OpenIsRecent'
  <2>1. /\ process = "streaming" /\ Len(open) + 1 <= Rows(buffer) /\ Rows(buffer) <= FlushEvery
        /\ Flushes(counts) \/ Rows(buffer) = Counted(counts) % FlushEvery
    BY <1>1 DEF TickInv, OpenIsRecent
  <2>2. Len(open') = Len(open) + 1 /\ Len(open') <= FlushEvery /\ Len(open') <= Rows(buffer)
    BY <1>1, <1>2, <1>3, <2>1
  <2>3. CASE Flushes(counts)
    BY <1>1, <2>1, <2>2, <2>3 DEF OpenIsRecent
  <2>4. CASE ~Flushes(counts)
    BY <1>1, <2>1, <2>2, <2>4 DEF OpenIsRecent
  <2> QED
    BY <2>3, <2>4
<1>6. FilesKept'
  BY <1>1 DEF TickInv, FilesKept
<1>7. DbKept(db \o open, InsertedRows, crashes)'
  <2> DEFINE d == db \o open
             n == received - 1
             allowed == crashes * FlushEvery
  <2>1. received >= 1
    <3>1. Kept(d, n) /\ InsertedRows = n
      BY <1>1 DEF TickInv, DbKept, InsertedRows
    <3>2. received # 0
      <4>1. Rows(buffer) >= 1
        BY <1>1, <1>2 DEF TickInv, OpenIsRecent
      <4> SUFFICES ASSUME received = 0 PROVE FALSE
        OBVIOUS
      <4>2. \A u \in RealType : buffer[u] = <<>>
        <5> SUFFICES ASSUME NEW u \in RealType PROVE buffer[u] = <<>>
          OBVIOUS
        <5>1. csv[u] \in Seq(Nat) /\ buffer[u] \in Seq(Nat) /\ Kept(csv[u] \o buffer[u], 0)
          BY TickTypes DEF TickInv, FilesKept
        <5> QED
          BY <5>1, KeptNone
      <4>3. buffer = NoRows
        BY <4>2, TickTypes DEF NoRows, Files
      <4> QED
        BY <4>1, <4>3, RowsNone
    <3> QED
      BY <1>2, <3>2
  <2>2. InsertedRows = n /\ InsertedRows' = received /\ n \in Nat /\ received = n + 1
    BY <1>1, <1>2, <2>1 DEF InsertedRows
  <2>3. Kept(d, n) /\ n - Len(d) <= allowed /\ (crashes = 0 => Len(d) = n)
    BY <2>2 DEF TickInv, DbKept
  <2>4. d \in Seq(Nat) /\ Len(d) \in Nat /\ Len(Append(d, n + 1)) = Len(d) + 1
    BY <1>2
  <2>5. (db \o open)' = Append(d, n + 1)
    BY <1>1, <1>3, <2>2
  <2> HIDE DEF d, n
  <2>6. Kept(Append(d, n + 1), n + 1)
    BY <2>2, <2>3, KeptGrows
  <2>7. (n + 1) - (Len(d) + 1) = n - Len(d)
    BY <2>2, <2>4
  <2>8. DbKept(Append(d, n + 1), n + 1, crashes)
    BY <2>3, <2>4, <2>6, <2>7 DEF DbKept
  <2> QED
    BY <1>1, <2>2, <2>5, <2>8
<1>8. RowsKept(Rows(csv) + Rows(buffer), received, crashes)'
  BY <1>1 DEF TickInv
<1> QED
  BY <1>4, <1>5, <1>6, <1>7, <1>8 DEF TickInv

\* Flushing a CSV file moves its rows to the disk.
LEMMA FlushKeeps ==
  ASSUME TickInv, NEW t \in RealType, FlushFile(t), handler = "flushing" \/ process = "closing"
  PROVE  TickInv'
<1>1. /\ csv' = [csv EXCEPT ![t] = csv[t] \o buffer[t]]
      /\ buffer' = [buffer EXCEPT ![t] = <<>>]
      /\ process' = process /\ handler' = handler /\ counts' = counts /\ open' = open /\ db' = db
      /\ received' = received /\ crashes' = crashes
  BY DEF FlushFile
<1>2. /\ csv \in Files /\ buffer \in Files /\ csv[t] \in Seq(Nat) /\ buffer[t] \in Seq(Nat)
      /\ Rows(csv) \in Nat /\ Rows(buffer) \in Nat /\ FlushEvery \in Nat
  BY TickTypes
<1>3. /\ csv[t] \o buffer[t] \in Seq(Nat)
      /\ Len(csv[t] \o buffer[t]) = Len(csv[t]) + Len(buffer[t])
      /\ (csv[t] \o buffer[t]) \o <<>> = csv[t] \o buffer[t]
      /\ Len(csv[t]) \in Nat /\ Len(buffer[t]) \in Nat
  BY <1>2, MovedOver
<1>4. /\ csv' \in Files /\ csv'[t] = csv[t] \o buffer[t]
      /\ \A u \in RealType \ {t} : csv'[u] = csv[u]
  BY <1>1, <1>2, <1>3 DEF Files
<1>5. /\ buffer' \in Files /\ buffer'[t] = <<>>
      /\ \A u \in RealType \ {t} : buffer'[u] = buffer[u]
  BY <1>1, <1>2 DEF Files
<1>6. Rows(csv') = Rows(csv) + Len(buffer[t])
  <2>1. Rows(csv') = Rows(csv) + (Len(csv'[t]) - Len(csv[t]))
    BY <1>2, <1>4, RowsChange
  <2> QED
    BY <1>2, <1>3, <1>4, <2>1
<1>7. Rows(buffer') = Rows(buffer) - Len(buffer[t])
  <2>1. Rows(buffer') = Rows(buffer) + (Len(buffer'[t]) - Len(buffer[t]))
    BY <1>2, <1>5, RowsChange
  <2>2. Len(buffer'[t]) = 0
    BY <1>5
  <2> QED
    BY <1>2, <1>3, <2>1, <2>2
<1>8. TicksTypeOK'
  BY <1>1, <1>4, <1>5 DEF TickInv, TicksTypeOK
<1>9. OpenIsRecent'
  <2>1. Rows(buffer') <= FlushEvery
    BY <1>2, <1>3, <1>7 DEF TickInv, OpenIsRecent
  <2>2. \/ handler = "flushing" /\ process = "streaming"
        \/ handler = "idle" /\ process = "closing"
    BY DEF TickInv, TicksTypeOK, OpenIsRecent
  <2> QED
    BY <1>1, <2>1, <2>2 DEF TickInv, OpenIsRecent, Living
<1>10. FilesKept'
  <2> SUFFICES ASSUME NEW u \in RealType PROVE Kept(csv'[u] \o buffer'[u], received)
    BY <1>1 DEF FilesKept
  <2>1. Kept(csv[u] \o buffer[u], received)
    BY DEF TickInv, FilesKept
  <2>2. CASE u = t
    BY <1>3, <1>4, <1>5, <2>1, <2>2
  <2>3. CASE u # t
    BY <1>4, <1>5, <2>1, <2>3
  <2> QED
    BY <2>2, <2>3
<1>11. DbKept(db \o open, InsertedRows, crashes)'
  BY <1>1 DEF TickInv, InsertedRows
<1>12. Rows(csv') + Rows(buffer') = Rows(csv) + Rows(buffer)
  BY <1>2, <1>3, <1>6, <1>7
<1>13. RowsKept(Rows(csv) + Rows(buffer), received, crashes)'
  BY <1>1, <1>12 DEF TickInv
<1> QED
  BY <1>8, <1>9, <1>10, <1>11, <1>13 DEF TickInv

\* A commit moves the open rows to the database.
LEMMA CommitKeeps ==
  ASSUME TickInv, Commit, handler \in {"idle", "flushing"}, handler' = "idle", OpenIsRecent'
  PROVE  TickInv'
<1>1. /\ db' = db \o open /\ open' = <<>> /\ counts' = counts /\ buffer' = buffer /\ csv' = csv
      /\ received' = received /\ crashes' = crashes
  BY DEF Commit
<1>2. db \in Seq(Nat) /\ open \in Seq(Nat)
  BY TickTypes
<1>3. db \o open \in Seq(Nat) /\ (db \o open) \o <<>> = db \o open
  BY <1>2, MovedOver
<1>4. TicksTypeOK'
  BY <1>1, <1>3 DEF TickInv, TicksTypeOK
<1>5. FilesKept'
  BY <1>1 DEF TickInv, FilesKept
<1>6. DbKept(db \o open, InsertedRows, crashes)'
  <2>1. InsertedRows' = InsertedRows /\ (db \o open)' = db \o open
    BY <1>1, <1>3 DEF InsertedRows
  <2> QED
    BY <1>1, <2>1 DEF TickInv
<1>7. RowsKept(Rows(csv) + Rows(buffer), received, crashes)'
  BY <1>1 DEF TickInv
<1> QED
  BY <1>4, <1>5, <1>6, <1>7 DEF TickInv

\* The commit of a fiftieth tick, that of the timer, and the last one.
LEMMA CommitRecent ==
  ASSUME TickInv, \/ CommitFlushed /\ handler = "flushing"
                  \/ Committed
                  \/ Closing /\ EndCleanup
  PROVE  TickInv'
<1>1. Commit /\ open' = <<>> /\ buffer' = buffer /\ counts' = counts
  BY DEF CommitFlushed, Committed, EndCleanup, Commit
<1>2. /\ Rows(NoRows) = 0 /\ Len(<<>>) = 0 /\ FlushEvery \in Nat /\ Rows(buffer) \in Nat
      /\ Rows(buffer) <= FlushEvery
  BY RowsNone, TickTypes DEF TickInv, OpenIsRecent
<1>3. CASE CommitFlushed /\ handler = "flushing"
  <2>1. /\ buffer = NoRows /\ handler' = "idle" /\ process' = process
        /\ Counted(counts) % FlushEvery = 0
    BY <1>3 DEF CommitFlushed, TickInv, OpenIsRecent, Flushes
  <2>2. OpenIsRecent'
    BY <1>1, <1>2, <2>1 DEF OpenIsRecent
  <2> QED
    BY <1>1, <1>3, <2>1, <2>2, CommitKeeps
<1>4. CASE Committed
  <2>1. handler = "idle" /\ handler' = "idle" /\ process' = process /\ Living
    BY <1>4 DEF Committed, Living
  <2>2. OpenIsRecent'
    BY <1>1, <1>2, <2>1 DEF TickInv, OpenIsRecent
  <2> QED
    BY <1>1, <2>1, <2>2, CommitKeeps
<1>5. CASE Closing /\ EndCleanup
  <2>1. buffer = NoRows /\ handler' = handler /\ process' = "ended" /\ process = "closing"
    BY <1>5 DEF Closing, EndCleanup
  <2>2. handler = "idle"
    BY <2>1 DEF TickInv, TicksTypeOK, OpenIsRecent
  <2>3. OpenIsRecent'
    BY <1>1, <1>2, <2>1, <2>2 DEF OpenIsRecent, Living
  <2> QED
    BY <1>1, <2>1, <2>2, <2>3, CommitKeeps
<1> QED
  BY <1>3, <1>4, <1>5

\* A crash costs what is open, or a part of it.
LEMMA CrashKeeps ==
  ASSUME TickInv, Crash
  PROVE  TickInv'
<1>1. /\ crashes' = crashes + 1 /\ process' = "down" /\ handler' = "idle"
      /\ buffer' = NoRows /\ open' = <<>> /\ counts' = counts /\ db' = db /\ received' = received
  BY DEF Crash
<1>2. PICK n \in [RealType -> 0 .. received] :
        /\ \A t \in RealType : n[t] <= Len(buffer[t])
        /\ csv' = [t \in RealType |-> csv[t] \o SubSeq(buffer[t], 1, n[t])]
  BY DEF Crash
<1>3. /\ db \in Seq(Nat) /\ open \in Seq(Nat) /\ csv \in Files /\ buffer \in Files
      /\ received \in Nat /\ crashes \in Nat /\ FlushEvery \in Nat \ {0}
      /\ Len(db) \in Nat /\ Len(open) \in Nat /\ Rows(csv) \in Nat /\ Rows(buffer) \in Nat
  BY TickTypes
<1>4. ASSUME NEW t \in RealType
      PROVE  /\ csv'[t] \in Seq(Nat) /\ Len(csv[t]) <= Len(csv'[t])
             /\ Kept(csv'[t] \o <<>>, received)
  <2>1. /\ csv[t] \in Seq(Nat) /\ buffer[t] \in Seq(Nat) /\ received \in Nat
        /\ Kept(csv[t] \o buffer[t], received)
    BY TickTypes DEF TickInv, FilesKept
  <2>2. n[t] \in 0 .. Len(buffer[t])
    BY <1>2, <1>3, <2>1
  <2> DEFINE u == SubSeq(buffer[t], 1, n[t])
  <2>3. u \in Seq(Nat) /\ Kept(csv[t] \o u, received)
    BY <2>1, <2>2, KeptShrinks
  <2>4. csv'[t] = csv[t] \o u
    BY <1>2
  <2> HIDE DEF u
  <2>5. csv[t] \o u \in Seq(Nat) /\ (csv[t] \o u) \o <<>> = csv[t] \o u
        /\ Len(csv[t] \o u) = Len(csv[t]) + Len(u) /\ Len(csv[t]) \in Nat /\ Len(u) \in Nat
    BY <2>1, <2>3, MovedOver
  <2> QED
    BY <2>3, <2>4, <2>5
<1>5. csv' \in Files
  BY <1>2, <1>4 DEF Files
<1>6. Rows(csv) <= Rows(csv') /\ Rows(csv') \in Nat
  BY <1>3, <1>4, <1>5, RowsLess, LengthsTypes
<1>7. TicksTypeOK'
  BY <1>1, <1>3, <1>5, RowsNone DEF TickInv, TicksTypeOK
<1>8. OpenIsRecent'
  BY <1>1, <1>3, RowsNone DEF OpenIsRecent, Living
<1>9. FilesKept'
  BY <1>1, <1>4, RowsNone DEF FilesKept
<1>10. (crashes + 1) * FlushEvery = crashes * FlushEvery + FlushEvery
  BY <1>3
<1>11. DbKept(db \o open, InsertedRows, crashes)'
  <2> DEFINE i == InsertedRows
             allowed == crashes * FlushEvery
             more == (crashes + 1) * FlushEvery
  <2>1. i \in Int /\ i <= received /\ (i = received \/ (i = received - 1 /\ handler = "written"))
    BY <1>3 DEF InsertedRows
  <2>2. Len(open) <= FlushEvery /\ (handler = "written" => Len(open) + 1 <= FlushEvery)
    BY <1>3 DEF TickInv, OpenIsRecent
  <2>3. Kept(db \o open, i) /\ i - Len(db \o open) <= allowed
    BY DEF TickInv, DbKept
  <2>4. Len(db \o open) = Len(db) + Len(open)
    BY <1>3, MovedOver
  <2>5. Kept(db, received)
    <3>1. Kept(db \o SubSeq(open, 1, 0), i)
      BY <1>3, <2>1, <2>3, KeptShrinks
    <3>2. db \o SubSeq(open, 1, 0) = db
      BY <1>3
    <3> HIDE DEF i
    <3>3. Kept(db, i)
      BY <3>1, <3>2
    <3> QED
      BY <1>3, <2>1, <3>3, KeptLater
  <2>6. more = allowed + FlushEvery /\ allowed \in Nat
    BY <1>3, <1>10
  <2> HIDE DEF i, allowed, more
  <2>7. received - Len(db) <= more
    BY <1>3, <2>1, <2>2, <2>3, <2>4, <2>6
  <2>8. crashes + 1 # 0 /\ InsertedRows' = received /\ (db \o open)' = db
    BY <1>1, <1>3 DEF InsertedRows
  <2> QED
    BY <1>1, <2>5, <2>7, <2>8 DEF DbKept, more
<1>12. RowsKept(Rows(csv) + Rows(buffer), received, crashes)'
  <2> DEFINE allowed == crashes * FlushEvery
             more == (crashes + 1) * FlushEvery
  <2>1. received - (Rows(csv) + Rows(buffer)) <= allowed /\ Rows(buffer) <= FlushEvery
    BY DEF TickInv, RowsKept, OpenIsRecent
  <2>2. more = allowed + FlushEvery /\ allowed \in Nat
    BY <1>3, <1>10
  <2>3. Rows(buffer') = 0
    BY <1>1, RowsNone
  <2> HIDE DEF allowed, more
  <2>4. received - (Rows(csv') + Rows(buffer')) <= more
    BY <1>3, <1>6, <2>1, <2>2, <2>3
  <2>5. crashes + 1 # 0
    BY <1>3
  <2> QED
    BY <1>1, <2>4, <2>5 DEF RowsKept, more
<1> QED
  BY <1>7, <1>8, <1>9, <1>11, <1>12 DEF TickInv

\* A step that leaves the ticks alone.
LEMMA TickQuiet ==
  ASSUME TickInv, UNCHANGED <<tickVars, crashes>>,
         \/ process' = process
         \/ process \in {"login", "fetching"} /\ process' \in {"fetching", "streaming", "ended"}
         \/ process \in {"login", "fetching", "streaming"} /\ handler = "idle"
            /\ process' = "closing"
  PROVE  TickInv'
<1>1. /\ handler' = handler /\ counts' = counts /\ buffer' = buffer /\ open' = open
      /\ csv' = csv /\ db' = db /\ received' = received /\ crashes' = crashes
  BY DEF tickVars
<1>2. TicksTypeOK' /\ FilesKept' /\ InsertedRows' = InsertedRows
  BY <1>1 DEF TickInv, TicksTypeOK, FilesKept, InsertedRows
<1>3. OpenIsRecent'
  <2>1. CASE process' = process
    BY <1>1, <2>1 DEF TickInv, OpenIsRecent, Living
  <2>2. CASE process \in {"login", "fetching"} /\ process' \in {"fetching", "streaming", "ended"}
    <3>1. handler = "idle" /\ Living /\ open = <<>> /\ buffer = NoRows
      BY <2>2 DEF TickInv, OpenIsRecent, Living
    <3> QED
      BY <1>1, <3>1 DEF TickInv, OpenIsRecent
  <2>3. CASE handler = "idle" /\ process' = "closing"
    BY <1>1, <2>3 DEF TickInv, OpenIsRecent, Living
  <2> QED
    BY <2>1, <2>2, <2>3
<1> QED
  BY <1>1, <1>2, <1>3 DEF TickInv

\* A process started again has read and opened nothing yet.
LEMMA RestartKeeps ==
  ASSUME TickInv, Restart
  PROVE  TickInv'
<1>1. /\ process = "down" /\ process' = "login" /\ handler' = "idle"
      /\ counts' = [t \in RealType |-> 0] /\ buffer' = NoRows /\ open' = <<>>
      /\ csv' = csv /\ db' = db /\ received' = received /\ crashes' = crashes
  BY DEF Restart, Boot
<1>2. handler = "idle" /\ buffer = NoRows /\ open = <<>>
  BY <1>1 DEF TickInv, TicksTypeOK, OpenIsRecent
<1>3. FlushEvery \in Nat \ {0} /\ 0 % FlushEvery = 0 /\ Len(<<>>) = 0 /\ counts' \in [RealType -> Nat]
  BY <1>1, ConstantTypes
<1>4. TicksTypeOK'
  BY <1>1, <1>2, <1>3 DEF TickInv, TicksTypeOK
<1>5. OpenIsRecent'
  BY <1>1, <1>3, CountedNone, RowsNone DEF OpenIsRecent
<1>6. FilesKept' /\ InsertedRows' = InsertedRows
  BY <1>1, <1>2 DEF TickInv, FilesKept, InsertedRows
<1> QED
  BY <1>1, <1>2, <1>4, <1>5, <1>6 DEF TickInv

LEMMA TickNext == TickInv /\ [Next]_vars => TickInv'
<1> SUFFICES ASSUME TickInv, [Next]_vars PROVE TickInv'
  OBVIOUS
<1>1. CASE Login \/ CodeTimer
  <2>1. /\ UNCHANGED <<tickVars, crashes>> /\ process \in {"login", "fetching"}
        /\ process' = process \/ process' \in {"fetching", "streaming", "ended"}
    BY <1>1 DEF Login, CodeTimer, LoginCollector, LoginRealtime, LoginFetch, FetchNextCode, Stream
  <2> QED
    BY <2>1, TickQuiet
<1>2. CASE PageTimer \/ OnResponse \/ OnTrResponse \/ Lose \/ MinutePasses
  <2>1. UNCHANGED <<tickVars, crashes>> /\ process' = process
    BY <1>2 DEF PageTimer, OnResponse, OnTrResponse, Answered, Lose, MinutePasses
  <2> QED
    BY <2>1, TickQuiet
<1>3. CASE RealData
  <2>1. CASE \E t \in RealType : WriteRow(t)
    BY <2>1, WriteKeeps
  <2>2. CASE InsertRow
    BY <2>2, InsertKeeps
  <2>3. CASE handler = "flushing" /\ CommitFlushed
    BY <2>3, CommitRecent
  <2>4. CASE handler = "flushing" /\ \E t \in RealType : FlushFile(t)
    BY <2>4, FlushKeeps
  <2> QED
    BY <1>3, <2>1, <2>2, <2>3, <2>4 DEF RealData, Recording
<1>4. CASE Committed
  BY <1>4, CommitRecent
<1>5. CASE CleanedUp
  <2>1. CASE BeginCleanup
    <3>1. /\ UNCHANGED <<tickVars, crashes>> /\ process' = "closing" /\ handler = "idle"
          /\ process \in {"login", "fetching", "streaming"}
      BY <2>1 DEF BeginCleanup
    <3> QED
      BY <3>1, TickQuiet
  <2>2. CASE Closing /\ EndCleanup
    BY <2>2, CommitRecent
  <2>3. CASE process = "closing" /\ \E t \in RealType : FlushFile(t)
    BY <2>3, FlushKeeps
  <2> QED
    BY <1>5, <2>1, <2>2, <2>3 DEF CleanedUp, Closing
<1>6. CASE Crash
  BY <1>6, CrashKeeps
<1>7. CASE Restart
  BY <1>7, RestartKeeps
<1>8. CASE UNCHANGED vars
  <2>1. UNCHANGED <<tickVars, crashes>> /\ process' = process
    BY <1>8 DEF vars
  <2> QED
    BY <2>1, TickQuiet
<1>9. OnRealData \/ OnRealDataRealtime => RealData
  BY DEF OnRealData, OnRealDataRealtime
<1>10. CommitTimer \/ DbCommit => Committed
  BY DEF CommitTimer, DbCommit
<1>11. Cleanup \/ CleanupRealtime => CleanedUp
  BY DEF Cleanup, CleanupRealtime
<1> QED
  BY <1>1, <1>2, <1>3, <1>4, <1>5, <1>6, <1>7, <1>8, <1>9, <1>10, <1>11 DEF Next

\* The types hold, among them that no minute of a code is stored twice.
THEOREM CollectorTypes == Spec => []TypeOK
<1>1. FetchInv /\ TickInv => TypeOK
  <2> SUFFICES ASSUME FetchInv, TickInv PROVE TypeOK
    OBVIOUS
  <2>1. candles \subseteq Cutoff .. MaxMinutes
    BY ConstantTypes DEF FetchInv, FetchTypeOK, PagesJoin
  <2>2. \A row \in table : row.code \in Code /\ row.minute \in Cutoff .. now
    BY ConstantTypes DEF FetchInv, FetchTypeOK, RowsDistinct, Row
  <2>3. \A k \in DOMAIN db : db[k] \in 1 .. received
    <3> DEFINE d == db \o open
    <3>1. /\ db \in Seq(Nat) /\ open \in Seq(Nat) /\ received \in Nat /\ Kept(d, InsertedRows)
      BY TickTypes DEF TickInv, DbKept
    <3>2. \A k \in DOMAIN db : k \in DOMAIN d /\ d[k] = db[k]
      BY <3>1
    <3>3. InsertedRows \in Int /\ InsertedRows <= received
      BY <3>1 DEF InsertedRows
    <3> HIDE DEF d
    <3>4. \A k \in DOMAIN d : 1 <= d[k] /\ d[k] <= received /\ d[k] \in Nat
      BY <3>1, <3>3 DEF Kept
    <3> QED
      BY <3>1, <3>2, <3>4
  <2>4. handler \in {"idle", "written", "flushing"} /\ (handler # "idle" => process = "streaming")
    BY DEF TickInv, TicksTypeOK, OpenIsRecent
  <2> QED
    BY <2>1, <2>2, <2>3, <2>4 DEF TypeOK, FetchInv, FetchTypeOK, RowsDistinct
<1> QED
  BY <1>1, FetchInit, FetchNext, TickInit, TickNext, PTL DEF Spec

\* A crash, whatever step of a tick it falls on, costs the database no more
\* ticks than a flush comprises, and the CSV files together no more; without one
\* they hold every tick in the end, once and in order.
THEOREM TicksSurvive == Spec => []TicksKept
<1>1. TickInv => TicksKept
  <2> SUFFICES ASSUME TickInv PROVE TicksKept
    OBVIOUS
  <2>1. /\ Increasing(db \o open) /\ InsertedRows - Len(db \o open) <= crashes * FlushEvery
        /\ crashes = 0 => Len(db \o open) = InsertedRows
    BY DEF TickInv, DbKept, Kept
  <2>2. /\ received - (Rows(csv) + Rows(buffer)) <= crashes * FlushEvery
        /\ crashes = 0 => Rows(csv) + Rows(buffer) = received
    BY DEF TickInv, RowsKept
  <2>3. \A t \in RealType : Increasing(csv[t] \o buffer[t])
    BY DEF TickInv, FilesKept, Kept
  <2>4. ASSUME process = "ended", crashes = 0
        PROVE  Len(db) = received /\ Rows(csv) = received
    <3>1. open = <<>> /\ buffer = NoRows /\ InsertedRows = received
      BY <2>4 DEF TickInv, OpenIsRecent, InsertedRows
    <3>2. db \o <<>> = db /\ Rows(NoRows) = 0 /\ Rows(csv) \in Nat /\ received \in Nat
      BY TickTypes, RowsNone
    <3> QED
      BY <2>1, <2>2, <2>4, <3>1, <3>2
  <2> QED
    BY <2>1, <2>2, <2>3, <2>4 DEF TicksKept
<1> QED
  BY <1>1, TickInit, TickNext, PTL DEF Spec
=============================================================================
