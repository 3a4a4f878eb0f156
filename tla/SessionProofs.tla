---------------------------- MODULE SessionProofs ----------------------------
(***************************************************************************)
(* What AccountSession guarantees for any accounts, codes, bounds and      *)
(* interval: its types, the distance between TR requests, that the session *)
(* never falls asleep without a connection, and that the tracker holds     *)
(* what the active account does once an undisturbed reload is over.        *)
(***************************************************************************)
EXTENDS AccountSession, TLAPS

-----------------------------------------------------------------------------
(* Sequences *)

\* What Append leaves in place.
LEMMA AppendKeeps ==
  ASSUME NEW S, NEW s \in Seq(S), NEW e \in S
  PROVE  /\ Append(s, e) \in Seq(S)
         /\ \A k \in DOMAIN s : /\ k \in DOMAIN Append(s, e) /\ Append(s, e)[k] = s[k]
                                /\ k \in Nat /\ k < Len(s) + 1
         /\ Len(s) + 1 \in DOMAIN Append(s, e) /\ Append(s, e)[Len(s) + 1] = e
         /\ \A k \in DOMAIN Append(s, e) : k = Len(s) + 1 \/ k \in DOMAIN s
OBVIOUS

\* So do all events but the first, one place lower, when it is taken off.
LEMMA TailKeeps ==
  ASSUME NEW S, NEW s \in Seq(S), s # <<>>
  PROVE  /\ Head(s) \in S /\ Head(s) = s[1] /\ 1 \in DOMAIN s /\ Tail(s) \in Seq(S)
         /\ \A k \in DOMAIN Tail(s) : /\ k + 1 \in DOMAIN s /\ Tail(s)[k] = s[k + 1]
                                      /\ k \in Nat /\ k >= 1 /\ (k + 1) - 1 = k
         /\ \A k \in DOMAIN s : k = 1 \/ (/\ k - 1 \in DOMAIN Tail(s) /\ Tail(s)[k - 1] = s[k]
                                         /\ k \in Nat /\ k > 1)
OBVIOUS

-----------------------------------------------------------------------------
(* Types *)

LEMMA EnqueueType ==
  ASSUME QueueTypeOK, queue \in Seq(Request), NEW requests \in Seq(Request), Enqueue(requests)
  PROVE  /\ QueueTypeOK' /\ (queue \in Seq(Request))'
         /\ Dispatched(requests) \in Seq(Request)
<1>1. queue \o requests \in Seq(Request)
  OBVIOUS
<1>2. requests # <<>> => queue \o requests # <<>>
  OBVIOUS
<1>3. requests # <<>> =>
        Head(queue \o requests) \in Request /\ Tail(queue \o requests) \in Seq(Request)
  BY <1>1, <1>2, TailKeeps
<1>4. Dispatched(requests) \in Seq(Request) /\ (Dispatched(requests) # <<>> => requests # <<>>)
  BY <1>3 DEF Dispatched
<1>5. queue' \in Seq(Request)
  BY <1>1, <1>3, <1>4 DEF Enqueue
<1> QED
  BY <1>4, <1>5, IntervalAssumption DEF Enqueue, Dispatch, QueueTypeOK

LEMMA ProcessType ==
  ASSUME QueueTypeOK, queue \in Seq(Request), ProcessNext
  PROVE  QueueTypeOK' /\ (queue \in Seq(Request))' /\ Due \in Seq(Request)
<1>1. queue # <<>> => Head(queue) \in Request /\ Tail(queue) \in Seq(Request)
  BY TailKeeps
<1>2. Due \in Seq(Request)
  BY <1>1 DEF Due
<1> QED
  BY <1>1, <1>2, IntervalAssumption DEF ProcessNext, Dispatch, QueueTypeOK

LEMMA ElapseType ==
  ASSUME QueueTypeOK, Elapse
  PROVE  QueueTypeOK'
BY IntervalAssumption DEF QueueTypeOK, Elapse

\* The three kinds of events.
LEMMA EventType ==
  /\ \A ok \in BOOLEAN : Login(ok) \in Event
  /\ \A held \in Balance, more \in BOOLEAN : Rows(held, more) \in Event
  /\ \A c \in Code, q \in 0 .. MaxQty : Report(c, q) \in Event
BY DEF Event

\* The server answers with rows, after what was raised before.
LEMMA AnswerType ==
  ASSUME ServerTypeOK, NEW sent \in Seq(Request), NEW raised \in Seq(Event),
         Answer(sent, raised)
  PROVE  /\ wire' \in Seq(Event)
         /\ asked' \in Asked
         /\ \A k \in DOMAIN raised : k \in DOMAIN wire' /\ wire'[k] = raised[k]
<1>1. CASE sent = <<>> \/ ~up
  BY <1>1 DEF Answer, ServerTypeOK
<1>2. CASE ~(sent = <<>> \/ ~up)
  <2>1. Head(sent) \in Request
    BY <1>2, TailKeeps
  <2> DEFINE q == Query(Head(sent))
  <2>2. q \in Asked
    BY <2>1 DEF Query, ServerTypeOK, Request, Asked
  <2>3. PICK page \in SUBSET q.left :
          /\ page = {} => q.left = {}
          /\ asked' = IF page = q.left THEN NothingAsked
                      ELSE [account |-> q.account, left |-> q.left \ page]
          /\ wire' = Append(raised, Rows(IF page = {} THEN [c \in Code |-> 0]
                                         ELSE Page(q.account, page), page # q.left))
    BY <1>2 DEF Answer
  <2> DEFINE held == IF page = {} THEN [c \in Code |-> 0] ELSE Page(q.account, page)
  <2>4. q.left \subseteq Code /\ (page # {} => q.account \in Account)
    BY <2>2, <2>3 DEF Asked, NothingAsked
  <2>5. asked' \in Asked
    BY <2>3, <2>4 DEF Asked
  <2>6. held \in Balance
    BY <2>4, ServerAssumption DEF Page, ServerTypeOK, Balance
  <2>7. Rows(held, page # q.left) \in Event
    BY <2>6, EventType
  <2> QED
    BY <2>3, <2>5, <2>7, AppendKeeps
<1> QED
  BY <1>1, <1>2

\* A handler's next event, and the events behind it.
LEMMA HeadType ==
  ASSUME ServerTypeOK, wire # <<>>
  PROVE  /\ Head(wire) \in Event /\ Head(wire) = wire[1] /\ Tail(wire) \in Seq(Event)
         /\ \A k \in DOMAIN wire \ {1} : k - 1 \in DOMAIN Tail(wire) /\ Tail(wire)[k - 1] = wire[k]
BY TailKeeps DEF ServerTypeOK

\* Which event is what.
LEMMA EventCases ==
  ASSUME NEW e \in Event
  PROVE  /\ e.type = "login" => e.ok \in BOOLEAN /\ e = Login(e.ok)
         /\ e.type = "rows" => e.held \in Balance /\ e.more \in BOOLEAN
         /\ e.type = "report" => e.code \in Code /\ e.qty \in 0 .. MaxQty
BY DEF Event, Login, Rows, Report

\* The accounts a login selects are accounts, and there is one.
LEMMA LoginSelectsType ==
  ASSUME TypeOK
  PROVE  LoginSelects \in Seq(Account) /\ LoginSelects # <<>>
<1>1. Head(AccountList) \in Account /\ Preferred \in Account
  BY AccountAssumption, TailKeeps DEF Listed
<1>2. [k \in 1 .. logins |-> Head(AccountList)] \in Seq(Account)
  BY <1>1 DEF TypeOK
<1>3. account # NoAccount => <<account>> \in Seq(Account)
  BY DEF TypeOK
<1>4. <<Preferred>> \in Seq(Account)
  BY <1>1
<1>5. (IF account = NoAccount THEN <<>> ELSE <<account>>) \in Seq(Account)
  BY <1>3
<1> QED
  BY <1>2, <1>4, <1>5 DEF LoginSelects

\* What selecting accounts does to the types of what it changes.
LEMMA SelectType ==
  ASSUME TypeOK, NEW accounts \in Seq(Account), accounts # <<>>, NEW raised \in Seq(Event),
         SelectAccounts(accounts, raised)
  PROVE  /\ QueueTypeOK' /\ (queue \in Seq(Request))'
         /\ wire' \in Seq(Event) /\ asked' \in Asked
         /\ account' \in Account /\ rows' \in Balance
         /\ disturbed' \subseteq {"trade", "query"}
         /\ \A k \in DOMAIN raised : k \in DOMAIN wire' /\ wire'[k] = raised[k]
<1> DEFINE requests == [k \in DOMAIN accounts |-> [account |-> accounts[k]]]
<1>1. requests \in Seq(Request)
  <2>1. DOMAIN accounts = 1 .. Len(accounts) /\ Len(accounts) \in Nat
    OBVIOUS
  <2>2. \A k \in DOMAIN accounts : [account |-> accounts[k]] \in Request
    BY DEF Request
  <2> QED
    BY <2>1, <2>2
<1>2. /\ Enqueue(requests) /\ Answer(Dispatched(requests), raised)
      /\ account' = accounts[Len(accounts)] /\ rows' = Nothing
      /\ disturbed' \subseteq disturbed \cup {"query"}
  BY DEF SelectAccounts
<1>3. QueueTypeOK' /\ (queue \in Seq(Request))' /\ Dispatched(requests) \in Seq(Request)
  BY <1>1, <1>2, EnqueueType DEF TypeOK
<1>4. ServerTypeOK
  BY DEF TypeOK
<1>5. /\ wire' \in Seq(Event) /\ asked' \in Asked
      /\ \A k \in DOMAIN raised : k \in DOMAIN wire' /\ wire'[k] = raised[k]
  BY <1>2, <1>3, <1>4, AnswerType
<1>6. account' \in Account
  BY <1>2
<1>7. rows' \in Balance
  BY <1>2, ServerAssumption DEF Nothing, Balance
<1> QED
  BY <1>2, <1>3, <1>5, <1>6, <1>7 DEF TypeOK

LEMMA TypeInit == Init => TypeOK
<1> SUFFICES ASSUME Init PROVE TypeOK
  OBVIOUS
<1>b. hurried \in BOOLEAN /\ heartbeat \in BOOLEAN /\ reconnect \in BOOLEAN /\ up \in BOOLEAN
  BY Zenon DEF Init, QueueInit, SessionInit, ServerInit
<1>1. QueueTypeOK /\ queue \in Seq(Request)
  BY <1>b, IntervalAssumption DEF Init, QueueInit, QueueTypeOK
<1>2. SessionTypeOK
  BY <1>b, RetriesAssumption DEF Init, SessionInit, SessionTypeOK
<1>3. ServerTypeOK
  BY <1>b, ServerAssumption DEF Init, ServerInit, ServerTypeOK, Asked, Balance
<1>4. rows \in Balance /\ tracker \in Balance
  BY ServerAssumption DEF Init, Nothing, Balance
<1> QED
  BY <1>1, <1>2, <1>3, <1>4, AccountAssumption DEF Init, TypeOK

\* SessionManager's steps keep its types.
LEMMA ConnectType ==
  ASSUME SessionTypeOK, NEW ok \in BOOLEAN, OnConnect(ok) \/ CheckConnection(ok)
  PROVE  SessionTypeOK'
<1>1. ScheduleReconnect => retries' \in 0 .. MaxRetries
  BY RetriesAssumption DEF SessionTypeOK, ScheduleReconnect
<1>2. ScheduleReconnect => reconnect' \in BOOLEAN
  BY Zenon DEF SessionTypeOK, ScheduleReconnect
<1>3. retries' \in 0 .. MaxRetries
  BY <1>1, RetriesAssumption DEF SessionTypeOK, OnConnect, CheckConnection
<1>4. heartbeat' \in BOOLEAN /\ reconnect' \in BOOLEAN
  BY <1>2, Zenon DEF SessionTypeOK, OnConnect, CheckConnection
<1> QED
  BY <1>3, <1>4 DEF SessionTypeOK

LEMMA LoginType ==
  ASSUME TypeOK, HandleLogin
  PROVE  TypeOK'
<1>1. ServerTypeOK /\ wire # <<>>
  BY DEF TypeOK, HandleLogin
<1>2. Head(wire) \in Event /\ Tail(wire) \in Seq(Event) /\ Head(wire).type = "login"
  BY <1>1, HeadType DEF HandleLogin
<1>3. Head(wire).ok \in BOOLEAN
  BY <1>2, EventCases
<1>4. SessionTypeOK'
  BY <1>3, ConnectType DEF HandleLogin, TypeOK
<1>5. CASE Head(wire).ok
  <2>1. /\ SelectAccounts(LoginSelects, Tail(wire))
        /\ shown' = Head(AccountList) /\ logins' = logins + 1
    BY <1>5 DEF HandleLogin
  <2>2. Head(AccountList) \in Account
    BY AccountAssumption, TailKeeps
  <2>3. /\ QueueTypeOK' /\ (queue \in Seq(Request))'
        /\ wire' \in Seq(Event) /\ asked' \in Asked
        /\ account' \in Account /\ rows' \in Balance
        /\ disturbed' \subseteq {"trade", "query"}
    BY <1>2, <2>1, LoginSelectsType, SelectType
  <2> QED
    BY <1>4, <2>1, <2>2, <2>3 DEF HandleLogin, TypeOK, ServerTypeOK
<1>6. CASE ~Head(wire).ok
  BY <1>2, <1>4, <1>6 DEF HandleLogin, TypeOK, ServerTypeOK, QueueTypeOK, queueVars
<1> QED
  BY <1>5, <1>6

LEMMA RowsType ==
  ASSUME TypeOK, HandleRows
  PROVE  TypeOK'
<1> DEFINE all  == Accumulated(Head(wire).held)
           next == IF Head(wire).more THEN <<[account |-> NoAccount]>> ELSE <<>>
<1>1. ServerTypeOK /\ wire # <<>>
  BY DEF TypeOK, HandleRows
<1>2. Head(wire) \in Event /\ Tail(wire) \in Seq(Event) /\ Head(wire).type = "rows"
  BY <1>1, HeadType DEF HandleRows
<1>3. Head(wire).held \in Balance
  BY <1>2, EventCases
<1>4. all \in Balance
  BY <1>3 DEF Accumulated, TypeOK, Balance
<1>5. next \in Seq(Request)
  <2>1. [account |-> NoAccount] \in Request
    BY DEF Request
  <2> QED
    BY <2>1
<1>6. /\ rows' = all /\ tracker' \in {tracker, all}
      /\ Enqueue(next) /\ Answer(Dispatched(next), Tail(wire))
  BY DEF HandleRows, LoadBalance
<1>7. QueueTypeOK' /\ (queue \in Seq(Request))' /\ Dispatched(next) \in Seq(Request)
  BY <1>5, <1>6, EnqueueType DEF TypeOK
<1>8. wire' \in Seq(Event) /\ asked' \in Asked
  BY <1>1, <1>2, <1>6, <1>7, AnswerType
<1> QED
  BY <1>4, <1>6, <1>7, <1>8 DEF HandleRows, TypeOK, ServerTypeOK, SessionTypeOK, sessionVars

LEMMA ReportType ==
  ASSUME TypeOK, HandleReport
  PROVE  TypeOK'
<1>1. ServerTypeOK /\ wire # <<>>
  BY DEF TypeOK, HandleReport
<1>2. Head(wire) \in Event /\ Tail(wire) \in Seq(Event) /\ Head(wire).type = "report"
  BY <1>1, HeadType DEF HandleReport
<1>3. Head(wire).code \in Code /\ Head(wire).qty \in 0 .. MaxQty
  BY <1>2, EventCases
<1>4. tracker' \in Balance
  BY <1>3 DEF HandleReport, TypeOK, Balance
<1> QED
  BY <1>2, <1>4
     DEF HandleReport, TypeOK, ServerTypeOK, QueueTypeOK, SessionTypeOK, queueVars, sessionVars

LEMMA TimerType ==
  ASSUME TypeOK, QueueTimeout \/ Heartbeat \/ ReconnectTimeout \/ TimePasses
  PROVE  TypeOK'
<1>1. CASE QueueTimeout
  <2>1. Answer(Due, wire) /\ ProcessNext
    BY <1>1 DEF QueueTimeout
  <2>2. QueueTypeOK' /\ (queue \in Seq(Request))' /\ Due \in Seq(Request)
    BY <2>1, ProcessType DEF TypeOK
  <2>3. ServerTypeOK /\ wire \in Seq(Event)
    BY DEF TypeOK, ServerTypeOK
  <2>4. wire' \in Seq(Event) /\ asked' \in Asked
    BY <2>1, <2>2, <2>3, AnswerType
  <2> QED
    BY <1>1, <2>2, <2>4
       DEF QueueTimeout, TypeOK, ServerTypeOK, SessionTypeOK, sessionVars, sessionSystemVars
<1>2. CASE Heartbeat
  <2>1. (~up) \in BOOLEAN
    OBVIOUS
  <2>2. SessionTypeOK'
    BY <1>2, <2>1, ConnectType DEF Heartbeat, TypeOK
  <2> QED
    BY <1>2, <2>2
       DEF Heartbeat, TypeOK, ServerTypeOK, QueueTypeOK, queueVars, serverVars, sessionSystemVars
<1>3. CASE ReconnectTimeout
  <2>1. SessionTypeOK'
    BY <1>3, Zenon DEF ReconnectTimeout, AttemptReconnect, TypeOK, SessionTypeOK
  <2> QED
    BY <1>3, <2>1 DEF ReconnectTimeout, CommConnect, TypeOK, ServerTypeOK,
       QueueTypeOK, queueVars, sessionSystemVars
<1>4. CASE TimePasses
  BY <1>4, ElapseType DEF TimePasses, Elapse, TypeOK, ServerTypeOK, SessionTypeOK,
     sessionVars, serverVars, sessionSystemVars
<1> QED
  BY <1>1, <1>2, <1>3, <1>4

LEMMA UserType ==
  ASSUME TypeOK, ChangeMode \/ \E a \in Account : UserSelects(a)
  PROVE  TypeOK'
<1>1. wire \in Seq(Event) /\ selects \in Nat /\ MaxSelects \in Nat
  BY AccountAssumption DEF TypeOK, ServerTypeOK
<1>2. ASSUME NEW accounts \in Seq(Account), accounts # <<>>, SelectAccounts(accounts, wire),
             shown' \in Account \cup {NoAccount}, selects < MaxSelects, selects' = selects + 1,
             UNCHANGED <<sessionVars, up, holdings, connecting, drops, failures, trades,
                         logins, tracker>>
      PROVE  TypeOK'
  <2>1. /\ QueueTypeOK' /\ (queue \in Seq(Request))'
        /\ wire' \in Seq(Event) /\ asked' \in Asked
        /\ account' \in Account /\ rows' \in Balance
        /\ disturbed' \subseteq {"trade", "query"}
    BY <1>1, <1>2, SelectType
  <2> QED
    BY <1>1, <1>2, <2>1 DEF TypeOK, ServerTypeOK, SessionTypeOK, sessionVars
<1>3. CASE ChangeMode
  <2>1. <<account>> \in Seq(Account) /\ <<account>> # <<>>
    BY <1>3 DEF ChangeMode, TypeOK
  <2> QED
    BY <1>2, <1>3, <2>1 DEF ChangeMode, TypeOK
<1>4. ASSUME NEW a \in Account, UserSelects(a) PROVE TypeOK'
  <2>1. logins \in Nat /\ logins > 0
    BY <1>4 DEF UserSelects, TypeOK
  <2>2. [k \in 1 .. logins |-> a] \in Seq(Account) /\ [k \in 1 .. logins |-> a] # <<>>
    BY <2>1
  <2> QED
    BY <1>2, <1>4, <2>2 DEF UserSelects
<1> QED
  BY <1>3, <1>4

LEMMA ServerType ==
  ASSUME TypeOK, Connection \/ \E a \in Account, c \in Code, q \in 0 .. MaxQty : Executes(a, c, q)
  PROVE  TypeOK'
<1>1. wire \in Seq(Event) /\ ServerTypeOK
  BY DEF TypeOK, ServerTypeOK
<1>2. Append(wire, Login(TRUE)) \in Seq(Event) /\ Append(wire, Login(FALSE)) \in Seq(Event)
  BY <1>1, EventType, AppendKeeps
<1>3. CASE Connection
  <2>1. wire' \in Seq(Event)
    BY <1>1, <1>2, <1>3 DEF Connection, AnswerConnect, Drop
  <2>2. up' \in BOOLEAN
    BY <1>1, <1>3, Zenon DEF Connection, AnswerConnect, Drop, ServerTypeOK
  <2>3. connecting' \in Nat /\ failures' \in 0 .. MaxFailures /\ drops' \in 0 .. MaxDrops
    <3>0. /\ connecting \in Nat /\ failures \in 0 .. MaxFailures /\ drops \in 0 .. MaxDrops
          /\ MaxFailures \in Nat /\ MaxDrops \in Nat
      BY <1>1, ServerAssumption DEF ServerTypeOK
    <3>1. CASE AnswerConnect
      <4>1. connecting > 0 /\ connecting' = connecting - 1 /\ drops' = drops
        BY <3>1 DEF AnswerConnect
      <4>2. failures' \in {failures, 0} \/ (failures < MaxFailures /\ failures' = failures + 1)
        BY <3>1, Zenon DEF AnswerConnect
      <4> QED
        BY <3>0, <4>1, <4>2
    <3>2. CASE Drop
      <4>1. /\ drops < MaxDrops /\ drops' = drops + 1
            /\ connecting' = connecting /\ failures' = failures
        BY <3>2 DEF Drop
      <4> QED
        BY <3>0, <4>1
    <3> QED
      BY <1>3, <3>1, <3>2 DEF Connection
  <2>4. asked' \in Asked /\ UNCHANGED <<holdings, trades>>
    BY <1>1, <1>3 DEF Connection, AnswerConnect, Drop, ServerTypeOK, Asked
  <2>5. ServerTypeOK'
    BY <1>1, <2>1, <2>2, <2>3, <2>4 DEF ServerTypeOK
  <2> QED
    BY <1>3, <2>5
       DEF Connection, TypeOK, QueueTypeOK, SessionTypeOK, queueVars, sessionVars, sessionSystemVars
<1>4. ASSUME NEW a \in Account, NEW c \in Code, NEW q \in 0 .. MaxQty, Executes(a, c, q)
      PROVE  TypeOK'
  <2>1. Append(wire, Report(c, q)) \in Seq(Event)
    BY <1>1, EventType, AppendKeeps
  <2>2. holdings' \in [Account -> Balance]
    BY <1>1, <1>4 DEF Executes, Trade, ServerTypeOK, Balance
  <2>3. ServerTypeOK'
    BY <1>1, <1>4, <2>1, <2>2, ServerAssumption DEF Executes, Trade, ServerTypeOK
  <2> QED
    BY <1>4, <2>3
       DEF Executes, TypeOK, QueueTypeOK, SessionTypeOK, queueVars, sessionVars
<1> QED
  BY <1>3, <1>4

LEMMA TypeNext == TypeOK /\ [Next]_vars => TypeOK'
<1> SUFFICES ASSUME TypeOK, [Next]_vars PROVE TypeOK'
  OBVIOUS
<1>1. CASE UNCHANGED vars
  BY <1>1 DEF vars, queueVars, sessionVars, serverVars, sessionSystemVars, TypeOK,
     QueueTypeOK, SessionTypeOK, ServerTypeOK
<1>2. CASE Next
  BY <1>2, LoginType, RowsType, ReportType, TimerType, UserType, ServerType DEF Next
<1> QED
  BY <1>1, <1>2

\* Every variable of the session stays in its type, whatever the server, the
\* timers and the user do.
THEOREM SessionTypes == Spec => []TypeOK
BY TypeInit, TypeNext, PTL DEF Spec

-----------------------------------------------------------------------------
(* The distance between requests *)

\* The timer runs out no earlier than an interval after the last request;
\* when it does not run, that interval has passed.
Spaced ==
  /\ QueueTypeOK
  /\ timer = Off => since = Interval
  /\ timer # Off => timer + since >= Interval
  /\ ~hurried

LEMMA EnqueueSpaced ==
  ASSUME Spaced, NEW requests, Enqueue(requests), QueueTypeOK'
  PROVE  Spaced'
<1>1. CASE timer # Off \/ requests = <<>>
  <2>1. Dispatched(requests) = <<>>
    BY <1>1 DEF Dispatched
  <2>2. timer' = timer /\ since' = since
    BY <1>1, <2>1 DEF Enqueue, Dispatch
  <2>3. ~hurried'
    BY <2>1, Zenon DEF Enqueue, Dispatch, Spaced
  <2> QED
    BY <2>2, <2>3 DEF Spaced
<1>2. CASE timer = Off /\ requests # <<>>
  <2>1. Dispatched(requests) # <<>>
    BY <1>2 DEF Dispatched
  <2>2. timer' = Interval /\ since' = 0
    BY <1>2, <2>1 DEF Enqueue, Dispatch
  <2>3. ~(since < Interval)
    BY <1>2, IntervalAssumption DEF Spaced
  <2>4. ~hurried'
    BY <2>3, Zenon DEF Enqueue, Dispatch, Spaced
  <2> QED
    BY <2>2, <2>4, IntervalAssumption DEF Spaced
<1> QED
  BY <1>1, <1>2

LEMMA ProcessSpaced ==
  ASSUME Spaced, ProcessNext, QueueTypeOK'
  PROVE  Spaced'
<1>1. since = Interval
  BY IntervalAssumption DEF Spaced, ProcessNext, QueueTypeOK
<1>2. ~(since < Interval)
  BY <1>1, IntervalAssumption
<1>3. ~hurried'
  BY <1>2, Zenon DEF Spaced, ProcessNext, Dispatch
<1>4. CASE queue = <<>>
  BY <1>1, <1>3, <1>4 DEF ProcessNext, Dispatch, Due, Spaced
<1>5. CASE queue # <<>>
  <2>1. Due # <<>>
    BY <1>5 DEF Due
  <2>2. timer' = Interval /\ since' = 0
    BY <1>5, <2>1 DEF ProcessNext, Dispatch
  <2> QED
    BY <1>3, <2>2, IntervalAssumption DEF Spaced
<1> QED
  BY <1>4, <1>5

LEMMA ElapseSpaced ==
  ASSUME Spaced, Elapse, QueueTypeOK'
  PROVE  Spaced'
<1>1. ~hurried'
  BY Zenon DEF Spaced, Elapse
<1> QED
  BY <1>1, IntervalAssumption DEF Spaced, Elapse, QueueTypeOK

LEMMA SpacedNext == TypeOK /\ Spaced /\ [Next]_vars => Spaced'
<1> SUFFICES ASSUME TypeOK, Spaced, [Next]_vars PROVE Spaced'
  OBVIOUS
<1>0. QueueTypeOK'
  BY TypeNext DEF TypeOK
<1>1. ASSUME UNCHANGED queueVars PROVE Spaced'
  BY <1>1 DEF queueVars, Spaced, QueueTypeOK
<1>2. ASSUME NEW accounts, NEW raised, SelectAccounts(accounts, raised) PROVE Spaced'
  BY <1>0, <1>2, EnqueueSpaced DEF SelectAccounts
<1>3. CASE HandleLogin
  BY <1>1, <1>2, <1>3 DEF HandleLogin
<1>4. CASE HandleRows
  BY <1>0, <1>4, EnqueueSpaced DEF HandleRows
<1>5. CASE QueueTimeout
  BY <1>0, <1>5, ProcessSpaced DEF QueueTimeout
<1>6. CASE TimePasses
  BY <1>0, <1>6, ElapseSpaced DEF TimePasses
<1>7. CASE ChangeMode \/ \E a \in Account : UserSelects(a)
  BY <1>2, <1>7 DEF ChangeMode, UserSelects
<1>8. CASE HandleReport \/ Heartbeat \/ ReconnectTimeout \/ Connection \/ UNCHANGED vars
  BY <1>1, <1>8 DEF HandleReport, Heartbeat, ReconnectTimeout, Connection, vars
<1>9. ASSUME NEW a \in Account, NEW c \in Code, NEW q \in 0 .. MaxQty, Executes(a, c, q)
      PROVE  Spaced'
  BY <1>1, <1>9 DEF Executes
<1> QED
  BY <1>3, <1>4, <1>5, <1>6, <1>7, <1>8, <1>9 DEF Next

\* However enqueued requests meet running, idle and stopping timers, TR
\* requests leave at least tr_interval_ms apart.
THEOREM RequestsSpaced == Spec => []NeverHurried
<1>1. Init => Spaced
  BY TypeInit DEF Init, QueueInit, Spaced, TypeOK
<1>2. Spaced => NeverHurried
  BY DEF Spaced, NeverHurried
<1> QED
  BY <1>1, <1>2, SessionTypes, SpacedNext, PTL DEF Spec

-----------------------------------------------------------------------------
(* The session does not fall asleep *)

LoginArrives == \E k \in DOMAIN wire : wire[k] = Login(TRUE)

\* A connection that stands is known to stand, or about to be: the heartbeat
\* watches it, or the event of the login is on its way. Without this a
\* CommConnect ignored by a standing connection would leave nothing behind.
Awake ==
  /\ Watched
  /\ up => heartbeat \/ LoginArrives

\* A failed login event is told from a login by its ok, and events of other
\* types are neither.
LEMMA LoginEvents ==
  /\ Login(TRUE) # Login(FALSE)
  /\ Login(TRUE).type = "login" /\ Login(FALSE).type = "login"
  /\ Login(TRUE).ok = TRUE /\ Login(FALSE).ok = FALSE
BY DEF Login

\* Nothing that only adds events and CommConnect calls puts the session to
\* sleep.
LEMMA AwakeKept ==
  ASSUME TypeOK, Awake, UNCHANGED sessionVars, up' = up, connecting' = connecting,
         \A k \in DOMAIN wire : k \in DOMAIN wire' /\ wire'[k] = wire[k]
  PROVE  Awake'
<1>1. LoginArrives => LoginArrives'
  BY DEF LoginArrives
<1>2. Watched'
  BY DEF Awake, Watched, sessionVars
<1> QED
  BY <1>1, <1>2 DEF Awake, sessionVars

\* Handling an event that is no login does not either.
LEMMA AwakeOther ==
  ASSUME TypeOK, Awake, wire # <<>>, Head(wire).type # "login",
         UNCHANGED sessionVars, up' = up, connecting' = connecting,
         \A k \in DOMAIN Tail(wire) : k \in DOMAIN wire' /\ wire'[k] = Tail(wire)[k]
  PROVE  Awake'
<1>1. ASSUME NEW k \in DOMAIN wire, wire[k].type = "login"
      PROVE  k - 1 \in DOMAIN wire' /\ wire'[k - 1] = wire[k]
  BY <1>1, HeadType DEF TypeOK
<1>2. LoginArrives => LoginArrives'
  BY <1>1, LoginEvents DEF LoginArrives
<1>3. Watched'
  BY <1>1 DEF Awake, Watched, sessionVars
<1> QED
  BY <1>2, <1>3 DEF Awake, sessionVars

\* Scheduling an attempt, or having none left, is not sleeping.
LEMMA ScheduleWatched ==
  ASSUME SessionTypeOK, ScheduleReconnect
  PROVE  Watched'
<1>1. CASE retries >= MaxRetries
  BY <1>1, RetriesAssumption DEF SessionTypeOK, ScheduleReconnect, Watched
<1>2. CASE ~(retries >= MaxRetries)
  BY <1>2 DEF ScheduleReconnect, Watched
<1> QED
  BY <1>1, <1>2

LEMMA AwakeLogin ==
  ASSUME TypeOK, Awake, HandleLogin
  PROVE  Awake'
<1>1. ServerTypeOK /\ wire # <<>> /\ Head(wire).type = "login" /\ up' = up
  BY DEF TypeOK, HandleLogin
<1>2. Head(wire) \in Event /\ Head(wire) = wire[1]
  BY <1>1, HeadType
<1>3. CASE Head(wire).ok
  <2>1. heartbeat'
    BY <1>3 DEF HandleLogin, OnConnect
  <2> QED
    BY <2>1 DEF Awake, Watched
<1>4. CASE ~Head(wire).ok
  <2>1. ScheduleReconnect /\ heartbeat' = heartbeat /\ wire' = Tail(wire)
    BY <1>4 DEF HandleLogin, OnConnect
  <2>2. Watched'
    BY <2>1, ScheduleWatched DEF TypeOK
  <2>3. wire[1] # Login(TRUE)
    BY <1>2, <1>4, LoginEvents
  <2>4. LoginArrives => LoginArrives'
    BY <1>1, <2>1, <2>3, HeadType DEF LoginArrives
  <2> QED
    BY <1>1, <2>1, <2>2, <2>4 DEF Awake
<1> QED
  BY <1>3, <1>4

LEMMA AwakeTimers ==
  ASSUME TypeOK, Awake, Heartbeat \/ ReconnectTimeout
  PROVE  Awake'
<1>1. CASE Heartbeat
  <2>1. up' = up /\ wire' = wire
    BY <1>1 DEF Heartbeat, serverVars
  <2>2. CASE up
    <3>1. heartbeat'
      BY <1>1, <2>2 DEF Heartbeat, CheckConnection
    <3> QED
      BY <3>1 DEF Awake, Watched
  <2>3. CASE ~up
    <3>1. ScheduleReconnect
      BY <1>1, <2>3 DEF Heartbeat, CheckConnection
    <3> QED
      BY <2>1, <2>3, <3>1, ScheduleWatched DEF Awake, TypeOK
  <2> QED
    BY <2>2, <2>3
<1>2. CASE ReconnectTimeout
  <2>1. up' = up /\ wire' = wire /\ heartbeat' = heartbeat
    BY <1>2 DEF ReconnectTimeout, AttemptReconnect
  <2>2. LoginArrives => LoginArrives'
    BY <2>1 DEF LoginArrives
  <2>3. CASE up
    BY <2>1, <2>2, <2>3, LoginEvents DEF Awake, Watched, LoginArrives
  <2>4. CASE ~up
    <3>1. connecting' > 0
      BY <1>2, <2>4 DEF ReconnectTimeout, CommConnect, TypeOK, ServerTypeOK
    <3> QED
      BY <2>1, <2>4, <3>1 DEF Awake, Watched
  <2> QED
    BY <2>3, <2>4
<1> QED
  BY <1>1, <1>2

LEMMA AwakeConnection ==
  ASSUME TypeOK, Awake, Connection
  PROVE  Awake'
<1>0. wire \in Seq(Event) /\ Login(TRUE) \in Event /\ Login(FALSE) \in Event
  BY EventType DEF TypeOK, ServerTypeOK
<1>1. ASSUME NEW ok \in BOOLEAN, wire' = Append(wire, Login(ok))
      PROVE  /\ Watched' /\ (ok = TRUE => LoginArrives')
  <2>1. Len(wire) + 1 \in DOMAIN wire' /\ wire'[Len(wire) + 1] = Login(ok)
    BY <1>0, <1>1, AppendKeeps
  <2>2. Login(ok).type = "login"
    BY DEF Login
  <2> QED
    BY <2>1, <2>2 DEF Watched, LoginArrives
<1>2. UNCHANGED sessionVars
  BY DEF Connection
<1>3. CASE AnswerConnect
  <2>1. CASE up /\ UNCHANGED <<up, failures, wire>>
    <3>1. LoginArrives => LoginArrives'
      BY <2>1 DEF LoginArrives
    <3> QED
      BY <1>2, <2>1, <3>1, LoginEvents DEF Awake, Watched, LoginArrives, sessionVars
  <2>2. CASE up' = TRUE /\ wire' = Append(wire, Login(TRUE))
    BY <1>1, <2>2 DEF Awake
  <2>3. CASE ~up /\ up' = up /\ wire' = Append(wire, Login(FALSE))
    BY <1>1, <2>3 DEF Awake
  <2> QED
    BY <1>3, <2>1, <2>2, <2>3 DEF AnswerConnect
<1>4. CASE Drop
  <2>1. up' = FALSE /\ connecting' = connecting
    BY <1>4 DEF Drop
  <2>2. CASE wire' = wire
    BY <1>2, <2>1, <2>2 DEF Awake, Watched, sessionVars
  <2>3. CASE wire' = Append(wire, Login(FALSE))
    BY <1>1, <2>1, <2>3 DEF Awake
  <2> QED
    BY <1>4, <2>2, <2>3 DEF Drop
<1> QED
  BY <1>3, <1>4 DEF Connection

LEMMA AwakeNext == TypeOK /\ Awake /\ [Next]_vars => Awake'
<1> SUFFICES ASSUME TypeOK, Awake, [Next]_vars PROVE Awake'
  OBVIOUS
<1>0. ServerTypeOK /\ wire \in Seq(Event)
  BY DEF TypeOK, ServerTypeOK
<1>1. CASE HandleRows
  <2> DEFINE next == IF Head(wire).more THEN <<[account |-> NoAccount]>> ELSE <<>>
  <2>1. wire # <<>> /\ Head(wire).type # "login" /\ Tail(wire) \in Seq(Event)
    BY <1>0, <1>1, HeadType DEF HandleRows
  <2>2. next \in Seq(Request)
    <3>1. [account |-> NoAccount] \in Request
      BY DEF Request
    <3> QED
      BY <3>1
  <2>3. Enqueue(next) /\ Answer(Dispatched(next), Tail(wire))
    BY <1>1 DEF HandleRows
  <2>4. Dispatched(next) \in Seq(Request)
    BY <2>2, <2>3, EnqueueType DEF TypeOK
  <2>5. \A k \in DOMAIN Tail(wire) : k \in DOMAIN wire' /\ wire'[k] = Tail(wire)[k]
    BY <1>0, <2>1, <2>3, <2>4, AnswerType
  <2>6. UNCHANGED sessionVars /\ up' = up /\ connecting' = connecting
    BY <1>1 DEF HandleRows
  <2> QED
    BY <2>1, <2>5, <2>6, AwakeOther
<1>2. CASE HandleReport
  <2>1. wire # <<>> /\ Head(wire).type # "login" /\ wire' = Tail(wire)
    BY <1>2 DEF HandleReport
  <2>2. UNCHANGED sessionVars /\ up' = up /\ connecting' = connecting
    BY <1>2 DEF HandleReport
  <2> QED
    BY <2>1, <2>2, AwakeOther
<1>3. CASE QueueTimeout
  <2>1. Answer(Due, wire) /\ ProcessNext
    BY <1>3 DEF QueueTimeout
  <2>2. Due \in Seq(Request)
    BY <2>1, ProcessType DEF TypeOK
  <2>3. \A k \in DOMAIN wire : k \in DOMAIN wire' /\ wire'[k] = wire[k]
    BY <1>0, <2>1, <2>2, AnswerType
  <2>4. UNCHANGED sessionVars /\ up' = up /\ connecting' = connecting
    BY <1>3 DEF QueueTimeout
  <2> QED
    BY <2>3, <2>4, AwakeKept
<1>4. ASSUME NEW accounts \in Seq(Account), accounts # <<>>, SelectAccounts(accounts, wire),
             UNCHANGED sessionVars, up' = up, connecting' = connecting
      PROVE  Awake'
  BY <1>0, <1>4, SelectType, AwakeKept
<1>5. CASE ChangeMode
  <2>1. <<account>> \in Seq(Account) /\ <<account>> # <<>>
    BY <1>5 DEF ChangeMode, TypeOK
  <2> QED
    BY <1>4, <1>5, <2>1 DEF ChangeMode
<1>6. ASSUME NEW a \in Account, UserSelects(a) PROVE Awake'
  <2>1. logins \in Nat /\ logins > 0
    BY <1>6 DEF UserSelects, TypeOK
  <2>2. [k \in 1 .. logins |-> a] \in Seq(Account) /\ [k \in 1 .. logins |-> a] # <<>>
    BY <2>1
  <2> QED
    BY <1>4, <1>6, <2>2 DEF UserSelects
<1>7. ASSUME NEW a \in Account, NEW c \in Code, NEW q \in 0 .. MaxQty, Executes(a, c, q)
      PROVE  Awake'
  <2>1. \A k \in DOMAIN wire : k \in DOMAIN wire' /\ wire'[k] = wire[k]
    BY <1>0, <1>7, EventType, AppendKeeps DEF Executes, Trade
  <2>2. UNCHANGED sessionVars /\ up' = up /\ connecting' = connecting
    BY <1>7 DEF Executes, Trade
  <2> QED
    BY <2>1, <2>2, AwakeKept
<1>8. CASE TimePasses \/ UNCHANGED vars
  <2>1. UNCHANGED sessionVars /\ up' = up /\ connecting' = connecting /\ wire' = wire
    BY <1>8 DEF TimePasses, vars, serverVars
  <2> QED
    BY <2>1, AwakeKept
<1> QED
  BY <1>1, <1>2, <1>3, <1>5, <1>6, <1>7, <1>8, AwakeLogin, AwakeTimers, AwakeConnection
     DEF Next

\* Whenever the connection is down, or the program does not know that it
\* stands, a timer, a CommConnect under way or a login event will wake the
\* session manager, unless MAX_RETRIES attempts are used up: no order of
\* drops, failures, heartbeats and attempts leaves it waiting for nothing.
THEOREM NeverAsleep == Spec => []Watched
<1>1. Init => Awake
  BY DEF Init, ServerInit, Awake, Watched
<1>2. Awake => Watched
  BY DEF Awake
<1> QED
  BY <1>1, <1>2, SessionTypes, AwakeNext, PTL DEF Spec

-----------------------------------------------------------------------------
(* The tracker after a reload *)

\* Rows of a that are not all of it: each code has its shares, or none.
Partial(held, a) == \A c \in Code : held[c] \in {0, holdings[a][c]}

\* What is being loaded is of account a: the rows under way and those read, the
\* requests that wait, and the query the server has begun to answer.
OfAccount(a, requests, events, query, read) ==
  /\ \A k \in DOMAIN events : events[k].type = "rows" => Partial(events[k].held, a)
  /\ \A k \in DOMAIN requests : requests[k].account \in {a, NoAccount}
  /\ query.left # {} => query.account = a
  /\ Partial(read, a)

\* The shares of every code of a have been read, or will be.
Coming(a, requests, events, query, read) ==
  \A c \in Code : holdings[a][c] # 0 =>
    \/ read[c] = holdings[a][c]
    \/ \E k \in DOMAIN events : events[k].type = "rows" /\ events[k].held[c] = holdings[a][c]
    \/ c \in query.left
    \/ \E k \in DOMAIN requests : requests[k].account # NoAccount

\* Every report is handled before the last rows are.
ReportsFirst(requests, events) ==
  \A k \in DOMAIN events : events[k].type = "report" =>
    requests # <<>> \/ \E j \in DOMAIN events : k < j /\ events[j].type = "rows"

\* The pages a query has left are asked for by a request or will be.
PagesAsked(requests, events, query) ==
  query.left # {} =>
    \/ \E k \in DOMAIN requests : requests[k].account = NoAccount
    \/ \E k \in DOMAIN events : events[k].type = "rows" /\ events[k].more

\* The tracker has what account a holds of a code, or the last report under way
\* of that code brings it.
Followed(a, events) ==
  \A c \in Code :
    \/ /\ tracker[c] = holdings[a][c]
       /\ \A k \in DOMAIN events : events[k].type = "report" => events[k].code # c
    \/ \E k \in DOMAIN events :
         /\ events[k].type = "report" /\ events[k].code = c /\ events[k].qty = holdings[a][c]
         /\ \A j \in DOMAIN events : k < j /\ events[j].type = "report" => events[j].code # c

\* The connection stands, its login has been handled, and nothing disturbed
\* the reload that followed it.
Current == up /\ disturbed = {} /\ ~LoginArrives

PagesCome == (up \/ asked.left = {}) /\ PagesAsked(queue, wire, asked)
LoadsOne  ==
  Loading /\ disturbed = {} =>
    account \in Account /\ OfAccount(account, queue, wire, asked, rows)
LoadsAll ==
  Current /\ Loading => Coming(account, queue, wire, asked, rows) /\ ReportsFirst(queue, wire)
Follows == Current /\ ~Loading => account \in Account /\ Followed(account, wire)

Reloads == PagesCome /\ LoadsOne /\ LoadsAll /\ Follows

\* Loading, of any requests and events.
Awaits(requests, events) ==
  requests # <<>> \/ \E k \in DOMAIN events : events[k].type = "rows"

\* At most the first of the requests leaves.
Leaves(requests, sent) ==
  \/ sent = <<>> /\ queue' = requests
  \/ requests # <<>> /\ sent = <<Head(requests)>> /\ queue' = Tail(requests)

\* The server's rows after request r, which is for account a or for more of
\* it: some of the shares asked for, and the others are left.
Answered(r, events, a, held, more) ==
  /\ wire' = Append(events, Rows(held, more))
  /\ Partial(held, a)
  /\ asked'.left # {} => asked'.account = a
  /\ \A c \in Code :
       \/ r.account = a /\ holdings[a][c] # 0
       \/ r.account = NoAccount /\ c \in asked.left
       => held[c] = holdings[a][c] \/ c \in asked'.left

LEMMA AnswerSays ==
  ASSUME ServerTypeOK, up, NEW sent, sent # <<>>, NEW r \in Request, r = Head(sent),
         NEW events \in Seq(Event), Answer(sent, events),
         NEW a \in Account, r.account \in {a, NoAccount},
         asked.left # {} => asked.account = a
  PROVE  \E held \in Balance, more \in BOOLEAN : Answered(r, events, a, held, more)
<1> DEFINE q == Query(Head(sent))
<1>1. PICK page \in SUBSET q.left :
        /\ page = {} => q.left = {}
        /\ asked' = IF page = q.left THEN NothingAsked
                    ELSE [account |-> q.account, left |-> q.left \ page]
        /\ wire' = Append(events, Rows(IF page = {} THEN [c \in Code |-> 0]
                                       ELSE Page(q.account, page), page # q.left))
  BY DEF Answer
<1> DEFINE held == IF page = {} THEN [c \in Code |-> 0] ELSE Page(q.account, page)
<1>2. holdings[a] \in Balance /\ \A c \in Code : holdings[a][c] \in Nat
  BY ServerAssumption DEF ServerTypeOK, Balance
<1>3. q.left # {} => q.account = a
  BY DEF Query
<1>4. q.left \subseteq Code
  BY DEF Query, ServerTypeOK, Asked, NothingAsked
<1>5. asked'.left = q.left \ page /\ (asked'.left # {} => asked'.account = a)
  BY <1>1, <1>3 DEF NothingAsked
<1> HIDE DEF q
<1>6. \A c \in Code : held[c] = IF c \in page THEN holdings[a][c] ELSE 0
  BY <1>1, <1>3 DEF Page
<1>7. held \in Balance
  <2>1. \A c \in Code : held[c] \in 0 .. MaxQty
    BY <1>2, <1>6, ServerAssumption DEF Balance
  <2>2. held = [c \in Code |-> held[c]]
    BY DEF Page
  <2> HIDE DEF held
  <2> QED
    BY <2>1, <2>2 DEF Balance
<1>8. Partial(held, a)
  BY <1>6 DEF Partial
<1>9. \A c \in Code :
        \/ r.account = a /\ holdings[a][c] # 0
        \/ r.account = NoAccount /\ c \in asked.left
        => c \in q.left
  BY <1>2, ServerAssumption DEF q, Query
<1> HIDE DEF held
<1>10. wire' = Append(events, Rows(held, page # q.left)) /\ (page # q.left) \in BOOLEAN
  BY <1>1 DEF held
<1>11. Answered(r, events, a, held, page # q.left)
  BY <1>5, <1>6, <1>8, <1>9, <1>10 DEF Answered
<1> QED
  BY <1>7, <1>10, <1>11

\* A handler's requests, and a timeout, let at most one request go.
LEMMA EnqueueLeaves ==
  ASSUME queue \in Seq(Request), NEW requests \in Seq(Request), Enqueue(requests)
  PROVE  Leaves(queue \o requests, Dispatched(requests))
<1>1. requests # <<>> => queue \o requests # <<>>
  OBVIOUS
<1> QED
  BY <1>1 DEF Enqueue, Dispatched, Leaves

LEMMA DueLeaves ==
  ASSUME ProcessNext
  PROVE  Leaves(queue, Due)
BY DEF ProcessNext, Due, Leaves

\* A request that is sent moves what is to come from the queue to the events,
\* to the end of them; without a connection it is lost.
LEMMA NothingSent ==
  ASSUME NEW sent, NEW events, Answer(sent, events), sent = <<>> \/ ~up
  PROVE  wire' = events /\ asked' = asked
BY DEF Answer

LEMMA RowsEvent ==
  ASSUME NEW held, NEW more
  PROVE  /\ Rows(held, more).type = "rows" /\ Rows(held, more).held = held
         /\ Rows(held, more).more = more /\ Rows(held, more) # Login(TRUE)
BY DEF Rows, Login

LEMMA SentMoves ==
  ASSUME ServerTypeOK, up, NEW requests \in Seq(Request), NEW events \in Seq(Event), NEW sent,
         requests # <<>>, sent = <<Head(requests)>>, queue' = Tail(requests), Answer(sent, events),
         NEW a \in Account, NEW read, OfAccount(a, requests, events, asked, read)
  PROVE  /\ OfAccount(a, queue', wire', asked', read)
         /\ Coming(a, requests, events, asked, read) => Coming(a, queue', wire', asked', read)
         /\ ReportsFirst(queue', wire')
         /\ Awaits(queue', wire')
<1> DEFINE r == Head(requests)
           last == Len(events) + 1
<1>1. /\ r = requests[1] /\ 1 \in DOMAIN requests /\ r \in Request
      /\ \A k \in DOMAIN queue' : k + 1 \in DOMAIN requests /\ queue'[k] = requests[k + 1]
      /\ \A k \in DOMAIN requests : k = 1 \/ (k - 1 \in DOMAIN queue' /\ queue'[k - 1] = requests[k])
  BY TailKeeps
<1>2. r.account \in {a, NoAccount}
  BY <1>1 DEF OfAccount
<1>3. sent # <<>> /\ r = Head(sent)
  OBVIOUS
<1>4. asked.left # {} => asked.account = a
  BY DEF OfAccount
<1> HIDE DEF r
<1>5. PICK held \in Balance, more \in BOOLEAN : Answered(r, events, a, held, more)
  BY <1>1, <1>2, <1>3, <1>4, AnswerSays
<1> DEFINE e == Rows(held, more)
<1>6. e \in Event /\ e.type = "rows" /\ e.held = held
  BY EventType, RowsEvent
<1> HIDE DEF e
<1>7. /\ \A k \in DOMAIN events : /\ k \in DOMAIN wire' /\ wire'[k] = events[k]
                                  /\ k \in Nat /\ k < last
      /\ last \in DOMAIN wire' /\ wire'[last] = e
      /\ \A k \in DOMAIN wire' : k = last \/ k \in DOMAIN events
  BY <1>5, <1>6, AppendKeeps DEF e, Answered
<1> HIDE DEF last
<1>8. OfAccount(a, queue', wire', asked', read)
  <2>1. \A k \in DOMAIN wire' : wire'[k].type = "rows" => Partial(wire'[k].held, a)
    BY <1>5, <1>6, <1>7 DEF OfAccount, Answered
  <2>2. \A k \in DOMAIN queue' : queue'[k].account \in {a, NoAccount}
    BY <1>1 DEF OfAccount
  <2> QED
    BY <1>5, <2>1, <2>2 DEF OfAccount, Answered
<1>9. ASSUME Coming(a, requests, events, asked, read), NEW c \in Code, holdings[a][c] # 0
      PROVE  \/ read[c] = holdings[a][c]
             \/ \E k \in DOMAIN wire' : wire'[k].type = "rows" /\ wire'[k].held[c] = holdings[a][c]
             \/ c \in asked'.left
             \/ \E k \in DOMAIN queue' : queue'[k].account # NoAccount
  <2>1. CASE read[c] = holdings[a][c]
    BY <2>1
  <2>2. CASE \E k \in DOMAIN events : events[k].type = "rows" /\ events[k].held[c] = holdings[a][c]
    BY <1>7, <2>2
  <2>3. CASE r.account = a \/ c \in asked.left
    <3>1. held[c] = holdings[a][c] \/ c \in asked'.left
      BY <1>2, <1>5, <1>9, <2>3 DEF Answered
    <3> QED
      BY <1>6, <1>7, <3>1
  <2>4. CASE r.account # a /\ \E k \in DOMAIN requests : requests[k].account # NoAccount
    <3>1. PICK k \in DOMAIN requests : requests[k].account # NoAccount
      BY <2>4
    <3>2. k # 1
      BY <1>1, <1>2, <2>4, <3>1
    <3>3. k - 1 \in DOMAIN queue' /\ queue'[k - 1] = requests[k]
      BY <1>1, <3>2
    <3> QED
      BY <3>1, <3>3
  <2> QED
    BY <1>9, <2>1, <2>2, <2>3, <2>4 DEF Coming
<1>10. Coming(a, requests, events, asked, read) => Coming(a, queue', wire', asked', read)
  BY <1>9 DEF Coming
<1>11. ReportsFirst(queue', wire')
  BY <1>6, <1>7 DEF ReportsFirst
<1>12. Awaits(queue', wire')
  BY <1>6, <1>7 DEF Awaits
<1> QED
  BY <1>8, <1>10, <1>11, <1>12

\* The same of whatever is sent, a request or none, with and without a connection.
LEMMA Moves ==
  ASSUME ServerTypeOK, NEW requests \in Seq(Request), NEW events \in Seq(Event), NEW sent,
         Leaves(requests, sent), Answer(sent, events),
         NEW a \in Account, NEW read, OfAccount(a, requests, events, asked, read)
  PROVE  /\ OfAccount(a, queue', wire', asked', read)
         /\ up /\ Coming(a, requests, events, asked, read) => Coming(a, queue', wire', asked', read)
         /\ up /\ ReportsFirst(requests, events) => ReportsFirst(queue', wire')
         /\ up /\ Awaits(requests, events) => Awaits(queue', wire')
<1>1. CASE sent = <<>>
  <2>1. wire' = events /\ asked' = asked
    BY <1>1, NothingSent
  <2>2. queue' = requests
    <3>1. \A x : <<x>> # <<>>
      OBVIOUS
    <3> QED
      BY <1>1, <3>1 DEF Leaves
  <2> QED
    BY <2>1, <2>2
<1>2. CASE sent # <<>> /\ up
  <2>1. requests # <<>> /\ sent = <<Head(requests)>> /\ queue' = Tail(requests)
    BY <1>2 DEF Leaves
  <2> QED
    BY <1>2, <2>1, SentMoves
<1>3. CASE sent # <<>> /\ ~up
  <2>1. requests # <<>> /\ queue' = Tail(requests)
    BY <1>3 DEF Leaves
  <2>2. wire' = events /\ asked' = asked
    BY <1>3, NothingSent
  <2>3. \A k \in DOMAIN queue' : k + 1 \in DOMAIN requests /\ queue'[k] = requests[k + 1]
    BY <2>1, TailKeeps
  <2>4. OfAccount(a, queue', wire', asked', read)
    BY <2>2, <2>3 DEF OfAccount
  <2> QED
    BY <1>3, <2>4
<1> QED
  BY <1>1, <1>2, <1>3

\* Whatever is sent, the pages left are asked for again, and none are left
\* without a connection.
LEMMA PagesMove ==
  ASSUME ServerTypeOK, NEW requests \in Seq(Request), NEW events \in Seq(Event), NEW sent,
         Leaves(requests, sent), Answer(sent, events),
         up \/ asked.left = {}, PagesAsked(requests, events, asked), up' = up
  PROVE  PagesCome'
<1>1. CASE sent = <<>>
  <2>1. wire' = events /\ asked' = asked
    BY <1>1, NothingSent
  <2>2. queue' = requests
    <3>1. \A x : <<x>> # <<>>
      OBVIOUS
    <3> QED
      BY <1>1, <3>1 DEF Leaves
  <2> QED
    BY <2>1, <2>2 DEF PagesCome
<1>2. CASE sent # <<>> /\ up
  <2> DEFINE q == Query(Head(sent))
  <2>1. PICK page \in SUBSET q.left :
          /\ page = {} => q.left = {}
          /\ asked' = IF page = q.left THEN NothingAsked
                      ELSE [account |-> q.account, left |-> q.left \ page]
          /\ wire' = Append(events, Rows(IF page = {} THEN [c \in Code |-> 0]
                                         ELSE Page(q.account, page), page # q.left))
    BY <1>2 DEF Answer
  <2> DEFINE more == page # q.left
             held == IF page = {} THEN [c \in Code |-> 0] ELSE Page(q.account, page)
             e == Rows(held, more)
  <2>2. e.type = "rows" /\ e.more = more
    <3> HIDE DEF more, held
    <3> QED
      BY RowsEvent
  <2>3. asked'.left # {} => page # q.left
    BY <2>1 DEF NothingAsked
  <2> HIDE DEF e, q
  <2>4. Len(events) + 1 \in DOMAIN wire' /\ wire'[Len(events) + 1] = e
    BY <2>1 DEF e
  <2> QED
    BY <1>2, <2>2, <2>3, <2>4 DEF PagesCome, PagesAsked
<1>3. CASE sent # <<>> /\ ~up
  <2>1. asked' = asked
    BY <1>3, NothingSent
  <2> QED
    BY <1>3, <2>1 DEF PagesCome, PagesAsked
<1> QED
  BY <1>1, <1>2, <1>3

-----------------------------------------------------------------------------
(* The steps of a reload *)

\* An event added, or the first taken away, if it is no login, leaves the
\* logins as they are.
LoginIn(events) == \E k \in DOMAIN events : events[k] = Login(TRUE)

LEMMA LoginsIn ==
  ASSUME NEW S, NEW s \in Seq(S), NEW e \in S
  PROVE  /\ e # Login(TRUE) => (LoginIn(Append(s, e)) <=> LoginIn(s))
         /\ s # <<>> /\ s[1] # Login(TRUE) => (LoginIn(Tail(s)) <=> LoginIn(s))
<1>1. ASSUME e # Login(TRUE)
      PROVE  LoginIn(Append(s, e)) <=> LoginIn(s)
  <2> DEFINE t == Append(s, e)
  <2>1. /\ \A k \in DOMAIN s : k \in DOMAIN t /\ t[k] = s[k]
        /\ t[Len(s) + 1] = e
        /\ \A k \in DOMAIN t : k = Len(s) + 1 \/ k \in DOMAIN s
    BY AppendKeeps
  <2> HIDE DEF t
  <2>2. LoginIn(t) <=> LoginIn(s)
    BY <1>1, <2>1 DEF LoginIn
  <2> QED
    BY <2>2 DEF t
<1>2. ASSUME s # <<>>, s[1] # Login(TRUE)
      PROVE  LoginIn(Tail(s)) <=> LoginIn(s)
  <2> DEFINE t == Tail(s)
  <2>1. /\ \A k \in DOMAIN t : k + 1 \in DOMAIN s /\ t[k] = s[k + 1]
        /\ \A k \in DOMAIN s : k = 1 \/ (k - 1 \in DOMAIN t /\ t[k - 1] = s[k])
    BY <1>2, TailKeeps
  <2> HIDE DEF t
  <2>2. ASSUME NEW k \in DOMAIN s, s[k] = Login(TRUE) PROVE \E j \in DOMAIN t : t[j] = Login(TRUE)
    <3>1. k - 1 \in DOMAIN t /\ t[k - 1] = s[k]
      BY <1>2, <2>1, <2>2
    <3> QED
      BY <2>2, <3>1
  <2>3. ASSUME NEW j \in DOMAIN t, t[j] = Login(TRUE) PROVE \E k \in DOMAIN s : s[k] = Login(TRUE)
    BY <2>1, <2>3
  <2>4. LoginIn(t) <=> LoginIn(s)
    BY <2>2, <2>3 DEF LoginIn
  <2> QED
    BY <2>4 DEF t
<1> QED
  BY <1>1, <1>2

\* What is sent puts no login among the events.
LEMMA NoLoginSent ==
  ASSUME ServerTypeOK, NEW requests \in Seq(Request), NEW events \in Seq(Event), NEW sent,
         Leaves(requests, sent), Answer(sent, events)
  PROVE  LoginArrives' <=> LoginIn(events)
<1>1. CASE sent = <<>> \/ ~up
  <2>1. wire' = events
    BY <1>1, NothingSent
  <2> QED
    BY <2>1 DEF LoginArrives, LoginIn
<1>2. CASE ~(sent = <<>> \/ ~up)
  <2> DEFINE q == Query(Head(sent))
  <2>1. PICK page \in SUBSET q.left :
          wire' = Append(events, Rows(IF page = {} THEN [c \in Code |-> 0]
                                      ELSE Page(q.account, page), page # q.left))
    BY <1>2 DEF Answer
  <2> DEFINE more == page # q.left
             held == IF page = {} THEN [c \in Code |-> 0] ELSE Page(q.account, page)
             e == Rows(held, more)
  <2>2. e # Login(TRUE)
    <3> HIDE DEF more, held
    <3> QED
      BY RowsEvent
  <2> HIDE DEF e
  <2>3. wire' = Append(events, e)
    BY <2>1 DEF e
  <2>4. /\ \A k \in DOMAIN events : k \in DOMAIN wire' /\ wire'[k] = events[k]
        /\ \A k \in DOMAIN wire' : k \in DOMAIN events \/ wire'[k] = e
    BY <2>3
  <2> QED
    BY <2>2, <2>4 DEF LoginArrives, LoginIn
<1> QED
  BY <1>1, <1>2

\* The queue's timeout sends its first request.
LEMMA TimeoutReloads ==
  ASSUME TypeOK, Reloads, QueueTimeout
  PROVE  Reloads'
<1>0. ServerTypeOK /\ queue \in Seq(Request) /\ wire \in Seq(Event)
  BY DEF TypeOK, ServerTypeOK
<1>1. /\ Leaves(queue, Due) /\ Answer(Due, wire)
      /\ up' = up /\ holdings' = holdings /\ account' = account /\ rows' = rows
      /\ tracker' = tracker /\ disturbed' = disturbed
  BY DueLeaves DEF QueueTimeout, sessionSystemVars
<1>2. PagesCome'
  BY <1>0, <1>1, PagesMove DEF Reloads, PagesCome
<1>3. LoginArrives' <=> LoginArrives
  BY <1>0, <1>1, NoLoginSent DEF LoginArrives, LoginIn
<1>4. CASE Loading /\ disturbed = {}
  <2>1. account \in Account /\ OfAccount(account, queue, wire, asked, rows)
    BY <1>4 DEF Reloads, LoadsOne
  <2>2. /\ OfAccount(account, queue', wire', asked', rows)
        /\ up /\ Coming(account, queue, wire, asked, rows) =>
             Coming(account, queue', wire', asked', rows)
        /\ up /\ ReportsFirst(queue, wire) => ReportsFirst(queue', wire')
        /\ up /\ Awaits(queue, wire) => Awaits(queue', wire')
    BY <1>0, <1>1, <2>1, Moves
  <2>3. LoadsOne'
    BY <1>1, <2>1, <2>2 DEF LoadsOne, OfAccount, Partial
  <2>4. Current => /\ Coming(account, queue', wire', asked', rows)
                   /\ ReportsFirst(queue', wire') /\ Loading'
    BY <1>4, <2>2 DEF Reloads, LoadsAll, Current, Awaits, Loading
  <2>5. Current' => Current
    BY <1>1, <1>3 DEF Current
  <2>6. LoadsAll' /\ Follows'
    BY <1>1, <2>4, <2>5 DEF LoadsAll, Follows, Coming, ReportsFirst
  <2> QED
    BY <1>2, <2>3, <2>6 DEF Reloads
<1>5. CASE disturbed # {}
  BY <1>1, <1>2, <1>5 DEF Reloads, LoadsOne, LoadsAll, Follows, Current
<1>6. CASE ~Loading
  <2>1. Due = <<>> /\ queue' = queue
    <3>1. queue = <<>>
      BY <1>6 DEF Loading
    <3> QED
      BY <3>1 DEF Due, QueueTimeout, ProcessNext
  <2>2. wire' = wire /\ asked' = asked
    BY <1>1, <2>1, NothingSent
  <2>3. ~Loading'
    BY <1>6, <2>1, <2>2 DEF Loading
  <2>4. Follows'
    BY <1>1, <1>3, <1>6, <2>2 DEF Reloads, Follows, Followed, Current
  <2> QED
    BY <1>2, <2>3, <2>4 DEF Reloads, LoadsOne, LoadsAll
<1> QED
  BY <1>4, <1>5, <1>6

\* The rows of a response added to those of the query.
LEMMA RowsReload ==
  ASSUME TypeOK, Reloads, HandleRows
  PROVE  Reloads'
<1> DEFINE e == Head(wire)
           rest == Tail(wire)
           read == Accumulated(e.held)
           next == IF e.more THEN <<[account |-> NoAccount]>> ELSE <<>>
           all == queue \o next
<1>0. ServerTypeOK /\ queue \in Seq(Request) /\ wire \in Seq(Event) /\ wire # <<>> /\ e.type = "rows"
  BY DEF TypeOK, ServerTypeOK, HandleRows
<1>1. /\ rows' = read /\ tracker' = (IF e.more THEN tracker ELSE LoadBalance(read))
      /\ Enqueue(next) /\ Answer(Dispatched(next), rest)
      /\ up' = up /\ holdings' = holdings /\ account' = account /\ disturbed' = disturbed
  BY DEF HandleRows
<1>2. /\ e = wire[1] /\ 1 \in DOMAIN wire /\ e \in Event /\ rest \in Seq(Event)
      /\ \A k \in DOMAIN rest : /\ k + 1 \in DOMAIN wire /\ rest[k] = wire[k + 1]
                                /\ k \in Nat /\ k >= 1 /\ (k + 1) - 1 = k
      /\ \A k \in DOMAIN wire : k = 1 \/ (/\ k - 1 \in DOMAIN rest /\ rest[k - 1] = wire[k]
                                         /\ k \in Nat /\ k > 1)
  BY <1>0, TailKeeps
<1>3. e.held \in Balance /\ e.more \in BOOLEAN /\ e # Login(TRUE)
  BY <1>0, <1>2, EventCases, LoginEvents
<1>4. /\ next \in Seq(Request) /\ all \in Seq(Request)
      /\ \A k \in DOMAIN queue : k \in DOMAIN all /\ all[k] = queue[k]
      /\ \A k \in DOMAIN all : (k \in DOMAIN queue /\ all[k] = queue[k]) \/ all[k].account = NoAccount
      /\ e.more = TRUE => all # <<>> /\ \E k \in DOMAIN all : all[k].account = NoAccount
      /\ queue # <<>> => all # <<>>
      /\ all = <<>> => queue = <<>> /\ e.more = FALSE /\ next = <<>>
  <2>1. [account |-> NoAccount] \in Request
    BY DEF Request
  <2>2. next \in Seq(Request) /\ all \in Seq(Request)
    BY <1>0, <2>1
  <2>3. CASE e.more = TRUE
    <3>1. next = <<[account |-> NoAccount]>>
      BY <2>3
    <3> HIDE DEF next
    <3>2. /\ Len(queue) + 1 \in DOMAIN all /\ all[Len(queue) + 1] = [account |-> NoAccount]
          /\ \A k \in DOMAIN queue : k \in DOMAIN all /\ all[k] = queue[k]
          /\ \A k \in DOMAIN all : k \in DOMAIN queue \/ k = Len(queue) + 1
      BY <1>0, <3>1
    <3>3. all # <<>>
      BY <3>2
    <3> QED
      BY <2>2, <2>3, <3>2, <3>3
  <2>4. CASE e.more = FALSE
    <3>1. next = <<>>
      BY <2>4
    <3> HIDE DEF next
    <3>2. all = queue
      BY <1>0, <3>1
    <3> QED
      BY <2>2, <2>4, <3>1, <3>2
  <2> QED
    BY <1>3, <2>3, <2>4
<1> HIDE DEF next, rest, e, read, all
<1>5. Leaves(all, Dispatched(next))
  BY <1>0, <1>1, <1>4, EnqueueLeaves DEF all
<1>6. PagesAsked(all, rest, asked)
  <2>1. PagesAsked(queue, wire, asked)
    BY DEF Reloads, PagesCome
  <2>2. CASE \E k \in DOMAIN queue : queue[k].account = NoAccount
    BY <1>4, <2>2 DEF PagesAsked
  <2>3. CASE e.more
    BY <1>3, <1>4, <2>3 DEF PagesAsked
  <2>4. CASE \E k \in DOMAIN wire : k # 1 /\ wire[k].type = "rows" /\ wire[k].more
    <3>1. PICK k \in DOMAIN wire : k # 1 /\ wire[k].type = "rows" /\ wire[k].more
      BY <2>4
    <3>2. k - 1 \in DOMAIN rest /\ rest[k - 1] = wire[k]
      BY <1>2, <3>1
    <3> QED
      BY <3>1, <3>2 DEF PagesAsked
  <2> QED
    BY <1>2, <2>1, <2>2, <2>3, <2>4 DEF PagesAsked
<1>7. PagesCome'
  BY <1>0, <1>1, <1>2, <1>4, <1>5, <1>6, PagesMove DEF Reloads, PagesCome
<1>8. LoginArrives' <=> LoginArrives
  <2>1. LoginIn(rest) <=> LoginIn(wire)
    BY <1>0, <1>2, <1>3, LoginsIn DEF rest
  <2>2. LoginArrives' <=> LoginIn(rest)
    BY <1>0, <1>1, <1>2, <1>4, <1>5, NoLoginSent
  <2> QED
    BY <2>1, <2>2 DEF LoginArrives, LoginIn
<1>9. CASE disturbed # {}
  BY <1>1, <1>7, <1>9 DEF Reloads, LoadsOne, LoadsAll, Follows, Current
<1>10. CASE disturbed = {}
  <2>0. Loading
    BY <1>0, <1>2 DEF Loading
  <2>1. account \in Account /\ OfAccount(account, queue, wire, asked, rows)
    BY <1>10, <2>0 DEF Reloads, LoadsOne
  <2>2. \A c \in Code : read[c] = IF e.held[c] > 0 THEN e.held[c] ELSE rows[c]
    BY DEF read, Accumulated
  <2>3. Partial(e.held, account) /\ Partial(rows, account)
    BY <1>0, <1>2, <2>1 DEF OfAccount
  <2>4. Partial(read, account)
    BY <2>2, <2>3 DEF Partial
  <2>5. OfAccount(account, all, rest, asked, read)
    <3>1. \A k \in DOMAIN rest : rest[k].type = "rows" => Partial(rest[k].held, account)
      BY <1>2, <2>1 DEF OfAccount
    <3>2. \A k \in DOMAIN all : all[k].account \in {account, NoAccount}
      BY <1>4, <2>1 DEF OfAccount
    <3> QED
      BY <2>1, <2>4, <3>1, <3>2 DEF OfAccount
  <2>6. /\ OfAccount(account, queue', wire', asked', read)
        /\ up /\ Coming(account, all, rest, asked, read) =>
             Coming(account, queue', wire', asked', read)
        /\ up /\ ReportsFirst(all, rest) => ReportsFirst(queue', wire')
        /\ up /\ Awaits(all, rest) => Awaits(queue', wire')
    BY <1>0, <1>1, <1>2, <1>4, <1>5, <2>1, <2>5, Moves
  <2>7. LoadsOne'
    BY <1>1, <2>1, <2>6 DEF LoadsOne, OfAccount, Partial
  <2>8. \A c \in Code : holdings[account][c] \in Nat /\ rows[c] \in Nat /\ e.held[c] \in Nat
    BY <1>3, <2>1, ServerAssumption DEF TypeOK, ServerTypeOK, Balance
  <2>9. ASSUME Current
        PROVE  Coming(account, all, rest, asked, read) /\ ReportsFirst(all, rest)
    <3>1. Coming(account, queue, wire, asked, rows) /\ ReportsFirst(queue, wire)
      BY <2>0, <2>9 DEF Reloads, LoadsAll
    <3>2. ASSUME NEW c \in Code, holdings[account][c] # 0
          PROVE  \/ read[c] = holdings[account][c]
                 \/ \E k \in DOMAIN rest :
                      rest[k].type = "rows" /\ rest[k].held[c] = holdings[account][c]
                 \/ c \in asked.left
                 \/ \E k \in DOMAIN all : all[k].account # NoAccount
      <4>1. CASE rows[c] = holdings[account][c] \/ e.held[c] = holdings[account][c]
        BY <2>2, <2>3, <2>8, <3>2, <4>1 DEF Partial
      <4>2. CASE \E k \in DOMAIN wire :
                   k # 1 /\ wire[k].type = "rows" /\ wire[k].held[c] = holdings[account][c]
        BY <1>2, <4>2
      <4>3. CASE \E k \in DOMAIN queue : queue[k].account # NoAccount
        BY <1>4, <4>3
      <4> QED
        BY <1>2, <3>1, <3>2, <4>1, <4>2, <4>3 DEF Coming
    <3>3. ReportsFirst(all, rest)
      <4> SUFFICES ASSUME NEW k \in DOMAIN rest, rest[k].type = "report", all = <<>>
                   PROVE  \E j \in DOMAIN rest : k < j /\ rest[j].type = "rows"
        BY DEF ReportsFirst
      <4>1. k + 1 \in DOMAIN wire /\ wire[k + 1].type = "report" /\ queue = <<>>
        BY <1>2, <1>4
      <4>2. PICK j \in DOMAIN wire : k + 1 < j /\ wire[j].type = "rows"
        BY <3>1, <4>1 DEF ReportsFirst
      <4>3. k \in Nat /\ k >= 1 /\ j \in Nat
        BY <1>2, <4>2
      <4>4. j - 1 \in DOMAIN rest /\ rest[j - 1] = wire[j] /\ k < j - 1
        BY <1>2, <4>2, <4>3
      <4> QED
        BY <4>2, <4>4
    <3> QED
      BY <3>2, <3>3 DEF Coming
  <2>10. Current' => Current /\ up
    BY <1>1, <1>8 DEF Current
  <2>11. LoadsAll'
    BY <1>1, <2>6, <2>9, <2>10 DEF LoadsAll, Coming, ReportsFirst
  <2>12. ASSUME Current', ~Loading' PROVE account' \in Account /\ Followed(account, wire)'
    <3>1. all = <<>> /\ \A k \in DOMAIN rest : rest[k].type # "rows"
      BY <2>6, <2>10, <2>12 DEF Awaits, Loading
    <3>2. e.more = FALSE /\ next = <<>>
      BY <1>4, <3>1
    <3>3. Dispatched(next) = <<>>
      BY <3>2 DEF Dispatched
    <3>4. wire' = rest
      BY <1>1, <3>3, NothingSent
    <3>5. tracker' = read
      BY <1>1, <3>2 DEF LoadBalance
    <3>6. asked.left = {}
      BY <1>6, <3>1 DEF PagesAsked
    <3>7. \A c \in Code : read[c] = holdings[account][c]
      BY <2>4, <2>9, <2>10, <2>12, <3>1, <3>6 DEF Coming, Partial
    <3>8. \A k \in DOMAIN rest : rest[k].type # "report"
      BY <2>9, <2>10, <2>12, <3>1 DEF ReportsFirst
    <3> QED
      BY <1>1, <2>1, <3>4, <3>5, <3>7, <3>8 DEF Followed
  <2> QED
    BY <1>7, <2>7, <2>11, <2>12 DEF Reloads, Follows
<1> QED
  BY <1>9, <1>10

\* Selecting accounts starts a reload, or adds to the one of the same account.
LEMMA SelectReloads ==
  ASSUME TypeOK, Reloads, NEW accounts \in Seq(Account), accounts # <<>>, NEW raised \in Seq(Event),
         SelectAccounts(accounts, raised), up' = up, holdings' = holdings,
         \A k \in DOMAIN raised : \E j \in DOMAIN wire : wire[j] = raised[k],
         \A j \in DOMAIN wire : wire[j].type = "rows" => \E k \in DOMAIN raised : raised[k] = wire[j]
  PROVE  Reloads'
<1> DEFINE requests == [k \in DOMAIN accounts |-> [account |-> accounts[k]]]
           a   == accounts[Len(accounts)]
           all == queue \o requests
<1>0. ServerTypeOK /\ queue \in Seq(Request) /\ wire \in Seq(Event)
  BY DEF TypeOK, ServerTypeOK
<1>1. /\ account' = a /\ rows' = Nothing
      /\ Enqueue(requests) /\ Answer(Dispatched(requests), raised)
      /\ disturbed' = {} => /\ \A k \in DOMAIN accounts : accounts[k] = IF Loading THEN account ELSE a
                            /\ Loading => disturbed = {}
  BY DEF SelectAccounts
<1>2. /\ Len(accounts) \in DOMAIN accounts /\ a \in Account /\ a # NoAccount
      /\ DOMAIN accounts = 1 .. Len(accounts) /\ Len(accounts) \in Nat
  BY ServerAssumption
<1>3. /\ requests \in Seq(Request) /\ DOMAIN requests = DOMAIN accounts /\ requests # <<>>
      /\ \A k \in DOMAIN requests : requests[k].account = accounts[k]
  <2>1. \A k \in DOMAIN accounts : [account |-> accounts[k]] \in Request
    BY DEF Request
  <2> QED
    BY <1>2, <2>1
<1> HIDE DEF requests, a
<1>4. /\ all \in Seq(Request) /\ all # <<>>
      /\ \A k \in DOMAIN queue : k \in DOMAIN all /\ all[k] = queue[k]
      /\ \A k \in DOMAIN all : \/ k \in DOMAIN queue /\ all[k] = queue[k]
                               \/ \E j \in DOMAIN requests : all[k] = requests[j]
      /\ \A j \in DOMAIN requests : \E k \in DOMAIN all : all[k] = requests[j]
  <2>1. /\ Len(queue) \in Nat /\ Len(requests) \in Nat /\ Len(requests) > 0
        /\ DOMAIN queue = 1 .. Len(queue) /\ DOMAIN requests = 1 .. Len(requests)
    BY <1>0, <1>3
  <2>2. /\ all \in Seq(Request) /\ DOMAIN all = 1 .. Len(queue) + Len(requests)
        /\ \A k \in DOMAIN queue : all[k] = queue[k]
        /\ \A k \in DOMAIN all : k > Len(queue) => all[k] = requests[k - Len(queue)]
    BY <1>0, <1>3
  <2> HIDE DEF all
  <2>3. ASSUME NEW j \in DOMAIN requests PROVE \E k \in DOMAIN all : all[k] = requests[j]
    <3>1. /\ j + Len(queue) \in DOMAIN all /\ j + Len(queue) > Len(queue)
          /\ (j + Len(queue)) - Len(queue) = j
      BY <2>1, <2>2
    <3> QED
      BY <2>2, <3>1
  <2>4. \A k \in DOMAIN all : k > Len(queue) => k - Len(queue) \in DOMAIN requests
    BY <2>1, <2>2
  <2>5. \A k \in DOMAIN all : k > Len(queue) \/ k \in DOMAIN queue
    BY <2>1, <2>2
  <2>6. DOMAIN queue \subseteq DOMAIN all /\ all # <<>>
    BY <2>1, <2>2
  <2> QED
    BY <2>2, <2>3, <2>4, <2>5, <2>6
<1>5. Leaves(all, Dispatched(requests))
  BY <1>0, <1>1, <1>3, EnqueueLeaves
<1> HIDE DEF all
<1>6. PagesAsked(all, raised, asked)
  <2>1. PagesAsked(queue, wire, asked)
    BY DEF Reloads, PagesCome
  <2> QED
    BY <1>4, <2>1 DEF PagesAsked
<1>7. PagesCome'
  BY <1>0, <1>1, <1>4, <1>5, <1>6, PagesMove DEF Reloads, PagesCome
<1>8. CASE disturbed' # {}
  BY <1>7, <1>8 DEF Reloads, LoadsOne, LoadsAll, Follows, Current
<1>9. CASE disturbed' = {}
  <2>1. \A k \in DOMAIN accounts : accounts[k] = a
    BY <1>1, <1>2, <1>9 DEF a
  <2>2. \A k \in DOMAIN requests : requests[k].account = a
    BY <1>3, <2>1
  <2>3. Partial(Nothing, a)
    BY DEF Partial, Nothing
  <2>4. OfAccount(a, all, raised, asked, Nothing)
    <3>1. CASE Loading
      <4>1. a = account /\ OfAccount(account, queue, wire, asked, rows)
        BY <1>1, <1>2, <1>9, <3>1 DEF Reloads, LoadsOne, a
      <4>2. \A k \in DOMAIN raised : raised[k].type = "rows" => Partial(raised[k].held, a)
        BY <4>1 DEF OfAccount
      <4>3. \A k \in DOMAIN all : all[k].account \in {a, NoAccount}
        BY <1>4, <2>2, <4>1 DEF OfAccount
      <4> QED
        BY <2>3, <4>1, <4>2, <4>3 DEF OfAccount
    <3>2. CASE ~Loading
      <4>1. queue = <<>> /\ \A k \in DOMAIN wire : wire[k].type # "rows"
        BY <3>2 DEF Loading
      <4>2. asked.left = {}
        BY <4>1 DEF Reloads, PagesCome, PagesAsked
      <4>3. \A k \in DOMAIN raised : raised[k].type # "rows"
        BY <4>1
      <4>4. DOMAIN queue = {}
        BY <4>1
      <4>5. \A k \in DOMAIN all : all[k].account \in {a, NoAccount}
        BY <1>4, <2>2, <4>4
      <4> QED
        BY <2>3, <4>2, <4>3, <4>5 DEF OfAccount
    <3> QED
      BY <3>1, <3>2
  <2>5. Coming(a, all, raised, asked, Nothing)
    <3>1. \E k \in DOMAIN all : all[k].account # NoAccount
      BY <1>2, <1>3, <1>4, <2>2
    <3> QED
      BY <3>1 DEF Coming
  <2>6. ReportsFirst(all, raised) /\ Awaits(all, raised)
    BY <1>4 DEF ReportsFirst, Awaits
  <2>7. /\ OfAccount(a, queue', wire', asked', Nothing)
        /\ up => /\ Coming(a, queue', wire', asked', Nothing)
                 /\ ReportsFirst(queue', wire') /\ Awaits(queue', wire')
    BY <1>0, <1>1, <1>2, <1>4, <1>5, <2>4, <2>5, <2>6, Moves
  <2>8. LoadsOne'
    BY <1>1, <1>2, <2>7 DEF LoadsOne, OfAccount, Partial
  <2>9. LoadsAll'
    BY <1>1, <2>7 DEF LoadsAll, Current, Coming, ReportsFirst
  <2>10. Follows'
    BY <2>7 DEF Follows, Current, Awaits, Loading
  <2> QED
    BY <1>7, <2>8, <2>9, <2>10 DEF Reloads
<1> QED
  BY <1>8, <1>9

\* An event is handled that is neither rows nor a login; a report changes the
\* tracker in its code.
LEMMA RestReloads ==
  ASSUME TypeOK, Reloads, wire # <<>>, wire' = Tail(wire), Head(wire).type # "rows",
         Head(wire) # Login(TRUE), asked' = asked, queue' = queue,
         UNCHANGED <<up, holdings, account, rows, disturbed>>,
         IF Head(wire).type = "report"
         THEN tracker' = [tracker EXCEPT ![Head(wire).code] = Head(wire).qty]
         ELSE tracker' = tracker
  PROVE  Reloads'
<1>0. wire \in Seq(Event) /\ tracker \in Balance
  BY DEF TypeOK, ServerTypeOK
<1> DEFINE e == Head(wire)
<1>1. /\ e = wire[1] /\ 1 \in DOMAIN wire /\ e \in Event
      /\ \A k \in DOMAIN wire' : /\ k + 1 \in DOMAIN wire /\ wire'[k] = wire[k + 1]
                                 /\ k \in Nat /\ k >= 1 /\ (k + 1) - 1 = k
      /\ \A k \in DOMAIN wire : k = 1 \/ (/\ k - 1 \in DOMAIN wire' /\ wire'[k - 1] = wire[k]
                                         /\ k \in Nat /\ k > 1)
  BY <1>0, TailKeeps
<1>2. e.type # "rows" /\ e # Login(TRUE)
  OBVIOUS
<1> HIDE DEF e
<1>3. LoginArrives' <=> LoginArrives
  <2>1. LoginIn(Tail(wire)) <=> LoginIn(wire)
    BY <1>0, <1>1, <1>2, LoginsIn
  <2> QED
    BY <2>1 DEF LoginArrives, LoginIn
<1>4. \A k \in DOMAIN wire : wire[k].type = "rows" =>
        k - 1 \in DOMAIN wire' /\ wire'[k - 1] = wire[k]
  BY <1>1, <1>2
<1>5. Loading' <=> Loading
  <2>1. (\E k \in DOMAIN wire : wire[k].type = "rows")
          => \E j \in DOMAIN wire' : wire'[j].type = "rows"
    <3>1. ASSUME NEW k \in DOMAIN wire, wire[k].type = "rows"
          PROVE  \E j \in DOMAIN wire' : wire'[j].type = "rows"
      <4>1. k - 1 \in DOMAIN wire' /\ wire'[k - 1] = wire[k]
        BY <1>4, <3>1
      <4> QED
        BY <3>1, <4>1
    <3> QED
      BY <3>1
  <2>2. \A j \in DOMAIN wire' : j + 1 \in DOMAIN wire /\ wire'[j] = wire[j + 1]
    BY <1>1
  <2> QED
    BY <2>1, <2>2 DEF Loading
<1>6. PagesCome'
  <2>1. ASSUME NEW k \in DOMAIN wire, wire[k].type = "rows", wire[k].more
        PROVE  \E j \in DOMAIN wire' : wire'[j].type = "rows" /\ wire'[j].more
    <3>1. k - 1 \in DOMAIN wire' /\ wire'[k - 1] = wire[k]
      BY <1>4, <2>1
    <3> QED
      BY <2>1, <3>1
  <2>2. PagesAsked(queue, wire, asked) => PagesAsked(queue, wire', asked)
    BY <2>1 DEF PagesAsked
  <2> QED
    BY <2>2 DEF Reloads, PagesCome
<1>7. LoadsOne'
  <2>1. OfAccount(account, queue, wire, asked, rows) => OfAccount(account, queue, wire', asked, rows)
    BY <1>1 DEF OfAccount
  <2> QED
    BY <1>5, <2>1 DEF Reloads, LoadsOne, OfAccount, Partial
<1>8. LoadsAll'
  <2>0. ASSUME NEW c \in Code, NEW k \in DOMAIN wire, wire[k].type = "rows",
               wire[k].held[c] = holdings[account][c]
        PROVE  \E j \in DOMAIN wire' :
                 wire'[j].type = "rows" /\ wire'[j].held[c] = holdings[account][c]
    <3>1. k - 1 \in DOMAIN wire' /\ wire'[k - 1] = wire[k]
      BY <1>4, <2>0
    <3> QED
      BY <2>0, <3>1
  <2>1. Coming(account, queue, wire, asked, rows) => Coming(account, queue, wire', asked, rows)
    BY <2>0 DEF Coming
  <2>2. ASSUME ReportsFirst(queue, wire) PROVE ReportsFirst(queue, wire')
    <3> SUFFICES ASSUME NEW k \in DOMAIN wire', wire'[k].type = "report", queue = <<>>
                 PROVE  \E j \in DOMAIN wire' : k < j /\ wire'[j].type = "rows"
      BY DEF ReportsFirst
    <3>1. PICK j \in DOMAIN wire : k + 1 < j /\ wire[j].type = "rows"
      BY <1>1, <2>2 DEF ReportsFirst
    <3>2. j - 1 \in DOMAIN wire' /\ wire'[j - 1] = wire[j] /\ k < j - 1
      BY <1>1, <3>1
    <3> QED
      BY <3>1, <3>2
  <2>3. Current' => Current
    BY <1>3 DEF Current
  <2> QED
    BY <1>5, <2>1, <2>2, <2>3 DEF Reloads, LoadsAll, Coming, ReportsFirst
<1>9. ASSUME Current', ~Loading' PROVE account' \in Account /\ Followed(account, wire)'
  <2>1. account \in Account /\ Followed(account, wire)
    BY <1>3, <1>5, <1>9 DEF Reloads, Follows, Current
  <2>2. ASSUME NEW c \in Code
        PROVE  \/ /\ tracker'[c] = holdings[account][c]
                  /\ \A k \in DOMAIN wire' : wire'[k].type = "report" => wire'[k].code # c
               \/ \E k \in DOMAIN wire' :
                    /\ wire'[k].type = "report" /\ wire'[k].code = c
                    /\ wire'[k].qty = holdings[account][c]
                    /\ \A j \in DOMAIN wire' : k < j /\ wire'[j].type = "report" => wire'[j].code # c
    <3>1. e.type = "report" => tracker' = [tracker EXCEPT ![e.code] = e.qty]
      BY DEF e
    <3>2. e.type # "report" => tracker' = tracker
      BY DEF e
    <3>3. DOMAIN tracker = Code
      BY <1>0 DEF Balance
    <3>4. CASE /\ tracker[c] = holdings[account][c]
               /\ \A k \in DOMAIN wire : wire[k].type = "report" => wire[k].code # c
      <4>1. tracker'[c] = tracker[c]
        BY <1>1, <3>1, <3>2, <3>3, <3>4
      <4> QED
        BY <1>1, <3>4, <4>1
    <3>5. ASSUME NEW k \in DOMAIN wire, wire[k].type = "report", wire[k].code = c,
                 wire[k].qty = holdings[account][c],
                 \A j \in DOMAIN wire : k < j /\ wire[j].type = "report" => wire[j].code # c
          PROVE  \/ /\ tracker'[c] = holdings[account][c]
                    /\ \A j \in DOMAIN wire' : wire'[j].type = "report" => wire'[j].code # c
                 \/ \E i \in DOMAIN wire' :
                      /\ wire'[i].type = "report" /\ wire'[i].code = c
                      /\ wire'[i].qty = holdings[account][c]
                      /\ \A j \in DOMAIN wire' : i < j /\ wire'[j].type = "report" => wire'[j].code # c
      <4>1. CASE k = 1
        <5>1. tracker'[c] = holdings[account][c]
          BY <1>1, <3>1, <3>3, <3>5, <4>1
        <5>2. \A j \in DOMAIN wire' : j + 1 \in DOMAIN wire /\ k < j + 1 /\ wire'[j] = wire[j + 1]
          BY <1>1, <4>1
        <5> QED
          BY <3>5, <5>1, <5>2
      <4>2. CASE k # 1
        <5>1. k - 1 \in DOMAIN wire' /\ wire'[k - 1] = wire[k] /\ k \in Nat
          BY <1>1, <4>2
        <5>2. \A j \in DOMAIN wire' : /\ j + 1 \in DOMAIN wire /\ wire'[j] = wire[j + 1]
                                      /\ k - 1 < j => k < j + 1
          BY <1>1, <5>1
        <5>3. \A j \in DOMAIN wire' : k - 1 < j /\ wire'[j].type = "report" => wire'[j].code # c
          BY <3>5, <5>2
        <5>4. /\ wire'[k - 1].type = "report" /\ wire'[k - 1].code = c
              /\ wire'[k - 1].qty = holdings[account][c]
          BY <3>5, <5>1
        <5> DEFINE i == k - 1
        <5>5. i \in DOMAIN wire' /\ wire'[i].type = "report" /\ wire'[i].code = c
              /\ wire'[i].qty = holdings[account][c]
              /\ \A j \in DOMAIN wire' : i < j /\ wire'[j].type = "report" => wire'[j].code # c
          BY <5>1, <5>3, <5>4
        <5> HIDE DEF i
        <5> QED
          BY <5>5
      <4> QED
        BY <4>1, <4>2
    <3> QED
      BY <2>1, <3>4, <3>5 DEF Followed
  <2> QED
    BY <2>1, <2>2 DEF Followed
<1> QED
  BY <1>6, <1>7, <1>8, <1>9 DEF Reloads, Follows

\* Steps that change nothing of this, or only timers and counters.
LEMMA QuietReloads ==
  ASSUME Reloads, UNCHANGED <<queue, wire, asked, up, holdings, account, rows, tracker, disturbed>>
  PROVE  Reloads'
<1>1. PagesCome'
  BY DEF Reloads, PagesCome, PagesAsked
<1>2. (Loading' <=> Loading) /\ (Current' <=> Current)
  BY DEF Loading, Current, LoginArrives
<1>3. LoadsOne'
  BY <1>2 DEF Reloads, LoadsOne, OfAccount, Partial
<1>4. LoadsAll'
  BY <1>2 DEF Reloads, LoadsAll, Coming, ReportsFirst
<1>5. Follows'
  BY <1>2 DEF Reloads, Follows, Followed
<1> QED
  BY <1>1, <1>3, <1>4, <1>5 DEF Reloads

\* A login is on its way, or the connection is gone, or nothing has changed:
\* the pages of a query a lost connection had begun are not asked for again.
LEMMA ConnectionReloads ==
  ASSUME TypeOK, Reloads, Connection
  PROVE  Reloads'
<1>0. wire \in Seq(Event)
  BY DEF TypeOK, ServerTypeOK
<1>1. /\ queue' = queue /\ holdings' = holdings /\ account' = account /\ rows' = rows
      /\ tracker' = tracker /\ disturbed' = disturbed
  BY DEF Connection, queueVars, sessionSystemVars, AnswerConnect, Drop
<1>2. \/ up' = up /\ wire' = wire /\ asked' = asked
      \/ ~up /\ up' = TRUE /\ wire' = Append(wire, Login(TRUE)) /\ asked' = asked
      \/ /\ up' = FALSE /\ wire' \in {wire, Append(wire, Login(FALSE))}
         /\ (asked' = asked /\ ~up) \/ asked'.left = {}
  <2>1. CASE AnswerConnect
    <3>1. CASE up
      BY <2>1, <3>1 DEF AnswerConnect
    <3>2. CASE ~up
      BY <2>1, <3>2, Zenon DEF AnswerConnect, TypeOK, ServerTypeOK
    <3> QED
      BY <3>1, <3>2
  <2>2. CASE Drop
    BY <2>2 DEF Drop, NothingAsked
  <2> QED
    BY <2>1, <2>2 DEF Connection
<1>3. CASE up' = up /\ wire' = wire /\ asked' = asked
  BY <1>1, <1>3, QuietReloads
<1>4. ASSUME NEW ok \in BOOLEAN, wire' = Append(wire, Login(ok)) \/ wire' = wire
      PROVE  /\ Loading' <=> Loading
             /\ \A k \in DOMAIN wire' : wire'[k].type = "rows" => k \in DOMAIN wire /\ wire'[k] = wire[k]
             /\ wire' = Append(wire, Login(ok)) /\ ok => LoginArrives'
  <2>1. Login(ok) \in Event /\ Login(ok).type = "login"
    BY EventType DEF Login
  <2>2. /\ \A k \in DOMAIN wire : k \in DOMAIN wire' /\ wire'[k] = wire[k]
        /\ \A k \in DOMAIN wire' : k \in DOMAIN wire \/ wire'[k] = Login(ok)
        /\ wire' = Append(wire, Login(ok)) => \E k \in DOMAIN wire' : wire'[k] = Login(ok)
    BY <1>0, <1>4, <2>1, AppendKeeps
  <2> QED
    BY <1>1, <2>1, <2>2 DEF Loading, LoginArrives
<1>5. CASE ~(up' = up /\ wire' = wire /\ asked' = asked)
  <2>1. /\ Loading' <=> Loading
        /\ \A k \in DOMAIN wire' : wire'[k].type = "rows" => k \in DOMAIN wire /\ wire'[k] = wire[k]
        /\ up' => LoginArrives'
    BY <1>2, <1>4, <1>5
  <2>2. (asked' = asked /\ ~up) \/ asked'.left = {}
    BY <1>2, <1>5
  <2>3. asked'.left = {}
    BY <2>2 DEF Reloads, PagesCome
  <2>4. PagesCome'
    BY <2>3 DEF PagesCome, PagesAsked
  <2>5. LoadsOne'
    BY <1>1, <2>1, <2>3 DEF Reloads, LoadsOne, OfAccount, Partial
  <2> QED
    BY <2>1, <2>4, <2>5 DEF Reloads, LoadsAll, Follows, Current
<1> QED
  BY <1>3, <1>5

\* An execution disturbs a reload; otherwise it is of the active account, and
\* its report comes after every other.
LEMMA ExecutionReloads ==
  ASSUME TypeOK, Reloads, NEW b \in Account, NEW d \in Code, NEW q \in 0 .. MaxQty,
         Executes(b, d, q)
  PROVE  Reloads'
<1>0. wire \in Seq(Event) /\ holdings \in [Account -> Balance]
  BY DEF TypeOK, ServerTypeOK
<1>1. /\ queue' = queue /\ up' = up /\ asked' = asked /\ account' = account /\ rows' = rows
      /\ tracker' = tracker
      /\ holdings' = [holdings EXCEPT ![b][d] = q]
      /\ wire' = (IF up THEN Append(wire, Report(d, q)) ELSE wire)
      /\ disturbed' = disturbed \cup (IF Loading \/ (up /\ b # account) THEN {"trade"} ELSE {})
  BY DEF Executes, Trade, queueVars
<1>2. /\ Report(d, q) \in Event /\ Report(d, q).type = "report"
      /\ Report(d, q).code = d /\ Report(d, q).qty = q /\ Report(d, q) # Login(TRUE)
  BY EventType DEF Report, Login
<1> DEFINE last == Len(wire) + 1
<1>3. /\ \A k \in DOMAIN wire : /\ k \in DOMAIN wire' /\ wire'[k] = wire[k]
                                /\ k \in Nat /\ k < last
      /\ \A k \in DOMAIN wire' : k \in DOMAIN wire \/ (up /\ k = last /\ wire'[k] = Report(d, q))
      /\ up => last \in DOMAIN wire' /\ wire'[last] = Report(d, q)
  BY <1>0, <1>1, <1>2, AppendKeeps
<1>4. last \in Nat
  BY <1>0
<1> HIDE DEF last
<1>5. PagesCome'
  <2>1. PagesAsked(queue, wire, asked) => PagesAsked(queue, wire', asked)
    BY <1>3 DEF PagesAsked
  <2> QED
    BY <1>1, <2>1 DEF Reloads, PagesCome
<1>6. CASE disturbed' # {}
  BY <1>5, <1>6 DEF Reloads, LoadsOne, LoadsAll, Follows, Current
<1>7. CASE disturbed' = {}
  <2>1. ~Loading /\ disturbed = {} /\ (up => b = account)
    BY <1>1, <1>7
  <2>2. ~Loading'
    BY <1>1, <1>2, <1>3, <2>1 DEF Loading
  <2>3. ASSUME Current' PROVE account' \in Account /\ Followed(account, wire)'
    <3>1. up /\ Current
      BY <1>1, <1>3, <2>1, <2>3 DEF Current, LoginArrives
    <3>2. account \in Account /\ Followed(account, wire) /\ b = account
      BY <2>1, <3>1 DEF Reloads, Follows
    <3>3. \A c \in Code : holdings'[account][c] = IF c = d THEN q ELSE holdings[account][c]
      BY <1>0, <1>1, <3>2 DEF Balance
    <3>4. ASSUME NEW c \in Code
          PROVE  \/ /\ tracker'[c] = holdings'[account][c]
                    /\ \A k \in DOMAIN wire' : wire'[k].type = "report" => wire'[k].code # c
                 \/ \E k \in DOMAIN wire' :
                      /\ wire'[k].type = "report" /\ wire'[k].code = c
                      /\ wire'[k].qty = holdings'[account][c]
                      /\ \A j \in DOMAIN wire' : k < j /\ wire'[j].type = "report" => wire'[j].code # c
      <4>1. CASE c = d
        <5>1. \A j \in DOMAIN wire' : ~(last < j)
          BY <1>3, <1>4
        <5> QED
          BY <1>2, <1>3, <3>1, <3>3, <4>1, <5>1
      <4>2. CASE c # d
        <5>1. holdings'[account][c] = holdings[account][c]
          BY <3>3, <4>2
        <5>2. \A k \in DOMAIN wire' : wire'[k].type = "report" /\ wire'[k].code = c =>
                k \in DOMAIN wire /\ wire'[k] = wire[k]
          BY <1>2, <1>3, <4>2
        <5>3. CASE /\ tracker[c] = holdings[account][c]
                   /\ \A k \in DOMAIN wire : wire[k].type = "report" => wire[k].code # c
          BY <1>1, <5>1, <5>2, <5>3
        <5>4. ASSUME NEW k \in DOMAIN wire, wire[k].type = "report", wire[k].code = c,
                     wire[k].qty = holdings[account][c],
                     \A j \in DOMAIN wire : k < j /\ wire[j].type = "report" => wire[j].code # c
              PROVE  \E i \in DOMAIN wire' :
                       /\ wire'[i].type = "report" /\ wire'[i].code = c
                       /\ wire'[i].qty = holdings'[account][c]
                       /\ \A j \in DOMAIN wire' : i < j /\ wire'[j].type = "report" => wire'[j].code # c
          <6>1. k \in DOMAIN wire' /\ wire'[k] = wire[k]
            BY <1>3
          <6>2. \A j \in DOMAIN wire' : k < j /\ wire'[j].type = "report" => wire'[j].code # c
            BY <5>2, <5>4
          <6> QED
            BY <5>1, <5>4, <6>1, <6>2
        <5> QED
          BY <3>2, <5>3, <5>4 DEF Followed
      <4> QED
        BY <4>1, <4>2
    <3> QED
      BY <1>1, <3>2, <3>4 DEF Followed
  <2> QED
    BY <1>5, <2>2, <2>3 DEF Reloads, LoadsOne, LoadsAll, Follows
<1> QED
  BY <1>6, <1>7

-----------------------------------------------------------------------------
(* Every step *)

\* A login selects accounts; one that failed only leaves the events.
LEMMA LoginReloads ==
  ASSUME TypeOK, Reloads, HandleLogin
  PROVE  Reloads'
<1>0. wire \in Seq(Event) /\ wire # <<>> /\ Head(wire).type = "login"
  BY DEF TypeOK, ServerTypeOK, HandleLogin
<1>1. /\ Head(wire) = wire[1] /\ 1 \in DOMAIN wire /\ Head(wire) \in Event /\ Tail(wire) \in Seq(Event)
      /\ \A k \in DOMAIN Tail(wire) : k + 1 \in DOMAIN wire /\ Tail(wire)[k] = wire[k + 1]
      /\ \A k \in DOMAIN wire : k = 1 \/ (k - 1 \in DOMAIN Tail(wire) /\ Tail(wire)[k - 1] = wire[k])
  BY <1>0, TailKeeps
<1>2. CASE Head(wire).ok
  <2>1. SelectAccounts(LoginSelects, Tail(wire)) /\ up' = up /\ holdings' = holdings
    BY <1>2 DEF HandleLogin
  <2>2. LoginSelects \in Seq(Account) /\ LoginSelects # <<>>
    BY LoginSelectsType
  <2>3. \A k \in DOMAIN Tail(wire) : \E j \in DOMAIN wire : wire[j] = Tail(wire)[k]
    BY <1>1
  <2>4. \A j \in DOMAIN wire : wire[j].type = "rows" =>
          \E k \in DOMAIN Tail(wire) : Tail(wire)[k] = wire[j]
    BY <1>0, <1>1
  <2> QED
    BY <1>1, <2>1, <2>2, <2>3, <2>4, SelectReloads
<1>3. CASE ~Head(wire).ok
  <2>1. /\ wire' = Tail(wire) /\ asked' = asked /\ queue' = queue /\ tracker' = tracker
        /\ UNCHANGED <<up, holdings, account, rows, disturbed>>
    BY <1>3 DEF HandleLogin, queueVars
  <2>2. Head(wire).type # "rows" /\ Head(wire).type # "report" /\ Head(wire) # Login(TRUE)
    BY <1>0, <1>3 DEF Login
  <2> QED
    BY <1>0, <2>1, <2>2, RestReloads
<1> QED
  BY <1>2, <1>3

LEMMA ReportReloads ==
  ASSUME TypeOK, Reloads, HandleReport
  PROVE  Reloads'
<1>1. /\ wire # <<>> /\ Head(wire).type = "report"
      /\ wire' = Tail(wire) /\ asked' = asked /\ queue' = queue
      /\ UNCHANGED <<up, holdings, account, rows, disturbed>>
      /\ tracker' = [tracker EXCEPT ![Head(wire).code] = Head(wire).qty]
  BY DEF HandleReport, queueVars
<1>2. Head(wire).type # "rows" /\ Head(wire) # Login(TRUE)
  BY <1>1 DEF Login
<1> QED
  BY <1>1, <1>2, RestReloads

LEMMA UserReloads ==
  ASSUME TypeOK, Reloads, ChangeMode \/ \E a \in Account : UserSelects(a)
  PROVE  Reloads'
<1>1. wire \in Seq(Event)
  BY DEF TypeOK, ServerTypeOK
<1>2. ASSUME NEW accounts \in Seq(Account), accounts # <<>>, SelectAccounts(accounts, wire),
             up' = up, holdings' = holdings
      PROVE  Reloads'
  BY <1>1, <1>2, SelectReloads
<1>3. ASSUME NEW a \in Account, UserSelects(a) PROVE Reloads'
  <2>1. logins > 0 /\ SelectAccounts([k \in 1 .. logins |-> a], wire) /\ up' = up /\ holdings' = holdings
    BY <1>3 DEF UserSelects
  <2>2. logins \in Nat
    BY DEF TypeOK
  <2>3. [k \in 1 .. logins |-> a] \in Seq(Account)
    BY <2>2
  <2>4. [k \in 1 .. logins |-> a] # <<>>
    BY <2>1, <2>2
  <2> QED
    BY <1>2, <2>1, <2>3, <2>4
<1>4. CASE ChangeMode
  <2>1. account # NoAccount /\ SelectAccounts(<<account>>, wire) /\ up' = up /\ holdings' = holdings
    BY <1>4 DEF ChangeMode
  <2>2. <<account>> \in Seq(Account) /\ <<account>> # <<>>
    BY <2>1 DEF TypeOK
  <2> QED
    BY <1>2, <2>1, <2>2
<1> QED
  BY <1>3, <1>4

\* Reloads is inductive, with the types.
LEMMA ReloadsNext == TypeOK /\ Reloads /\ [Next]_vars => Reloads'
<1> SUFFICES ASSUME TypeOK, Reloads, [Next]_vars PROVE Reloads'
  OBVIOUS
<1>1. CASE HandleLogin
  BY <1>1, LoginReloads
<1>2. CASE HandleRows
  BY <1>2, RowsReload
<1>3. CASE HandleReport
  BY <1>3, ReportReloads
<1>4. CASE QueueTimeout
  BY <1>4, TimeoutReloads
<1>5. CASE Heartbeat
  BY <1>5, QuietReloads DEF Heartbeat, queueVars, serverVars, sessionSystemVars
<1>6. CASE ReconnectTimeout
  BY <1>6, QuietReloads DEF ReconnectTimeout, queueVars, sessionSystemVars
<1>7. CASE TimePasses
  BY <1>7, QuietReloads DEF TimePasses, Elapse, serverVars, sessionSystemVars
<1>8. CASE ChangeMode \/ \E a \in Account : UserSelects(a)
  BY <1>8, UserReloads
<1>9. CASE \E a \in Account, c \in Code, q \in 0 .. MaxQty : Executes(a, c, q)
  BY <1>9, ExecutionReloads
<1>10. CASE Connection
  BY <1>10, ConnectionReloads
<1>11. CASE UNCHANGED vars
  BY <1>11, QuietReloads DEF vars, queueVars, serverVars, sessionSystemVars
<1> QED
  BY <1>1, <1>2, <1>3, <1>4, <1>5, <1>6, <1>7, <1>8, <1>9, <1>10, <1>11 DEF Next

LEMMA ReloadsInit == Init => Reloads
<1> SUFFICES ASSUME Init PROVE Reloads
  OBVIOUS
<1>1. up = FALSE /\ asked.left = {} /\ wire = <<>> /\ queue = <<>>
  BY DEF Init, QueueInit, ServerInit, NothingAsked
<1>2. ~Loading
  BY <1>1 DEF Loading
<1> QED
  BY <1>1, <1>2 DEF Reloads, PagesCome, PagesAsked, LoadsOne, LoadsAll, Follows, Current

\* Once nothing is under way and nothing disturbed the last reload, the tracker
\* holds what the active account holds (_on_balance_loaded, handle_chejan_data):
\* for any accounts, any number of pages, and connections lost at any point.
THEOREM AccountTracked == Spec => []TrackerIsAccount
<1>1. ASSUME TypeOK, Reloads, Settled, disturbed = {} PROVE tracker = holdings[account]
  <2>1. up /\ queue = <<>> /\ DOMAIN wire = {}
    BY <1>1 DEF Settled
  <2>2. ~Loading /\ Current
    BY <1>1, <2>1 DEF Loading, Current, LoginArrives
  <2>3. account \in Account /\ Followed(account, wire)
    BY <1>1, <2>2 DEF Reloads, Follows
  <2>4. \A c \in Code : tracker[c] = holdings[account][c]
    BY <2>1, <2>3 DEF Followed
  <2>5. tracker \in Balance /\ holdings[account] \in Balance
    BY <1>1, <2>3 DEF TypeOK, ServerTypeOK
  <2> QED
    BY <2>4, <2>5 DEF Balance
<1>2. TypeOK /\ Reloads => TrackerIsAccount
  BY <1>1 DEF TrackerIsAccount
<1> QED
  BY ReloadsInit, ReloadsNext, SessionTypes, <1>2, PTL DEF Spec
=============================================================================
