--------------------------- MODULE AccountSession ---------------------------
(***************************************************************************)
(* Which account is active and what the tracker holds of it: main.py wires *)
(* the session manager, the account selector of the dashboard and the      *)
(* balance query (kiwoom_trader/api/balance_query.py) so that a login, a   *)
(* choice of the user and a change of mode query the balance through the   *)
(* TR queue and load the tracker anew, while balance reports change it.    *)
(***************************************************************************)
EXTENDS TRRequestQueue, SessionManager, AccountServer

CONSTANTS
  AccountList,    \* GetLoginInfo("ACCNO")
  Preferred,      \* the stock account (suffix 31) of the list, or its first
  InitialAccounts, \* KIWOOM_ACCOUNT_NO at the start
  MaxSelects      \* bound: choices of the user

Listed == {AccountList[k] : k \in DOMAIN AccountList}

ASSUME AccountAssumption ==
  /\ AccountList \in Seq(Account) /\ AccountList # <<>>
  /\ Preferred \in Listed
  /\ InitialAccounts \subseteq Account \cup {NoAccount}
  /\ MaxSelects \in Nat

VARIABLES
  account,        \* KIWOOM_ACCOUNT_NO and OrderManager._account_no
  shown,          \* the account the selector shows
  logins,         \* logins handled: also the slots connected to the selector,
                  \* and the subscriptions the session manager restores
  rows,           \* _positions of the balance query registered last
  tracker,        \* the quantities of PositionTracker._positions
  selects,
  disturbed       \* what happened while the balance was being loaded

sessionSystemVars == <<account, shown, logins, rows, tracker, selects, disturbed>>
vars == <<queueVars, sessionVars, serverVars, sessionSystemVars>>

TypeOK ==
  /\ QueueTypeOK /\ queue \in Seq(Request) /\ SessionTypeOK /\ ServerTypeOK
  /\ account \in Account \cup {NoAccount} /\ shown \in Account \cup {NoAccount}
  /\ logins \in Nat
  /\ rows \in Balance /\ tracker \in Balance
  /\ selects \in 0 .. MaxSelects
  /\ disturbed \subseteq {"trade", "query"}

Nothing == [c \in Code |-> 0]

Init ==
  /\ QueueInit /\ SessionInit /\ ServerInit
  /\ account \in InitialAccounts
  /\ shown = NoAccount
  /\ logins = 0
  /\ rows = Nothing /\ tracker = Nothing
  /\ selects = 0
  /\ disturbed = {}

-----------------------------------------------------------------------------
(* Selecting accounts *)

\* A balance query has been enqueued and its last page not been loaded.
Loading == queue # <<>> \/ \E k \in DOMAIN wire : wire[k].type = "rows"

\* The accounts a login selects, in order: the one that was active
\* (_on_session_restored), the stock account, and, since filling the selector
\* changes its index, its first account once for each slot earlier logins
\* connected. (Emptying it selects "", which is ignored.)
LoginSelects ==
  (IF account = NoAccount THEN <<>> ELSE <<account>>)
    \o <<Preferred>> \o [k \in 1 .. logins |-> Head(AccountList)]

\* _select_account for each of the accounts, in one handler whose event leaves
\* raised on the wire. Each makes a balance query of its own; the response
\* handler of the last replaces the others.
SelectAccounts(accounts, raised) ==
  LET requests == [k \in DOMAIN accounts |-> [account |-> accounts[k]]]
      last     == accounts[Len(accounts)]
      same     == \A k \in DOMAIN accounts : accounts[k] = IF Loading THEN account ELSE last
  IN /\ account' = last
     /\ rows' = Nothing
     /\ Enqueue(requests)
     /\ Answer(Dispatched(requests), raised)
     /\ disturbed' = (IF Loading THEN disturbed ELSE {}) \cup (IF same THEN {} ELSE {"query"})

-----------------------------------------------------------------------------
(* Events *)

\* OnEventConnect: SessionManager._on_connect, then _on_login_success.
HandleLogin ==
  /\ wire # <<>> /\ Head(wire).type = "login"
  /\ LET ok == Head(wire).ok
     IN /\ OnConnect(ok)
        /\ IF ok
           THEN /\ SelectAccounts(LoginSelects, Tail(wire))
                /\ shown' = Head(AccountList)
                /\ logins' = logins + 1
           ELSE /\ wire' = Tail(wire)
                /\ UNCHANGED <<queueVars, asked, account, shown, logins, rows, disturbed>>
  /\ UNCHANGED <<up, holdings, connecting, drops, failures, trades, tracker, selects>>

\* The rows read so far with those of a response; rows of no shares are not
\* kept, and of two rows of a code the later counts.
Accumulated(held) == [c \in Code |-> IF held[c] > 0 THEN held[c] ELSE rows[c]]

\* Mutant: codes no row names keep what the tracker held.
LoadOver(all) == [c \in Code |-> IF all[c] > 0 THEN all[c] ELSE tracker[c]]

\* _on_balance_loaded: the tracker is cleared, and filled with the rows.
LoadBalance(all) == all

\* BalanceQuery._on_receive: a page asks for the next one, the last loads the
\* tracker; the rows stay with the query.
HandleRows ==
  /\ wire # <<>> /\ Head(wire).type = "rows"
  /\ LET all  == Accumulated(Head(wire).held)
         next == IF Head(wire).more THEN <<[account |-> NoAccount]>> ELSE <<>>
     IN /\ rows' = all
        /\ tracker' = IF Head(wire).more THEN tracker ELSE LoadBalance(all)
        /\ Enqueue(next)
        /\ Answer(Dispatched(next), Tail(wire))
  /\ UNCHANGED <<sessionVars, up, holdings, connecting, drops, failures, trades,
                 account, shown, logins, selects, disturbed>>

\* handle_chejan_data with gubun 1: whatever account the report is of.
HandleReport ==
  /\ wire # <<>> /\ Head(wire).type = "report"
  /\ tracker' = [tracker EXCEPT ![Head(wire).code] = Head(wire).qty]
  /\ wire' = Tail(wire)
  /\ UNCHANGED <<queueVars, sessionVars, up, holdings, asked, connecting, drops, failures,
                 trades, account, shown, logins, rows, selects, disturbed>>

-----------------------------------------------------------------------------
(* Timers, the user, the server *)

QueueTimeout ==
  /\ Answer(Due, wire)
  /\ ProcessNext
  /\ UNCHANGED <<sessionVars, up, holdings, connecting, drops, failures, trades,
                 sessionSystemVars>>

Heartbeat ==
  /\ CheckConnection(~up)
  /\ UNCHANGED <<queueVars, serverVars, sessionSystemVars>>

ReconnectTimeout ==
  /\ AttemptReconnect
  /\ CommConnect
  /\ UNCHANGED <<queueVars, up, holdings, asked, wire, drops, failures, trades,
                 sessionSystemVars>>

TimePasses == Elapse /\ UNCHANGED <<sessionVars, serverVars, sessionSystemVars>>

\* currentIndexChanged: every slot the logins connected selects the account.
UserSelects(a) ==
  /\ selects < MaxSelects
  /\ selects' = selects + 1
  /\ logins > 0 /\ a \in Listed /\ a # shown
  /\ shown' = a
  /\ SelectAccounts([k \in 1 .. logins |-> a], wire)
  /\ UNCHANGED <<sessionVars, up, holdings, connecting, drops, failures, trades,
                 logins, tracker>>

\* _on_mode_change
ChangeMode ==
  /\ selects < MaxSelects
  /\ selects' = selects + 1
  /\ account # NoAccount
  /\ SelectAccounts(<<account>>, wire)
  /\ UNCHANGED <<sessionVars, up, holdings, connecting, drops, failures, trades,
                 shown, logins, tracker>>

Executes(a, c, q) ==
  /\ Trade(a, c, q)
  /\ disturbed' = disturbed \cup IF Loading \/ (up /\ a # account) THEN {"trade"} ELSE {}
  /\ UNCHANGED <<queueVars, sessionVars, account, shown, logins, rows, tracker, selects>>

Connection == (AnswerConnect \/ Drop) /\ UNCHANGED <<queueVars, sessionVars, sessionSystemVars>>

Next ==
  \/ HandleLogin
  \/ HandleRows
  \/ HandleReport
  \/ QueueTimeout
  \/ Heartbeat
  \/ ReconnectTimeout
  \/ TimePasses
  \/ \E a \in Account : UserSelects(a)
  \/ ChangeMode
  \/ \E a \in Account, c \in Code, q \in 0 .. MaxQty : Executes(a, c, q)
  \/ Connection

\* The event loop handles events and timeouts, time passes, and the server
\* answers a CommConnect.
Spec ==
  /\ Init
  /\ [][Next]_vars
  /\ WF_vars(HandleLogin \/ HandleRows \/ HandleReport)
  /\ WF_vars(QueueTimeout)
  /\ WF_vars(TimePasses)
  /\ WF_vars(Heartbeat)
  /\ WF_vars(ReconnectTimeout)
  /\ WF_vars(AnswerConnect /\ UNCHANGED <<queueVars, sessionVars, sessionSystemVars>>)

-----------------------------------------------------------------------------
(* Properties *)

\* Nothing is under way.
Settled == up /\ wire = <<>> /\ queue = <<>>

\* The tracker holds what the active account holds, after connections lost at
\* any point of a query, executions nobody reported and a change of account:
\* provided nothing was executed while the balance was loading, or on another
\* account, and no two accounts were being queried at once.
TrackerIsAccount == Settled /\ disturbed = {} => tracker = holdings[account]

\* The session does not fall asleep without a connection: a timer, an answer
\* or an event will wake it, unless the retries are used up.
Watched ==
  \/ heartbeat \/ reconnect \/ connecting > 0
  \/ \E k \in DOMAIN wire : wire[k].type = "login"
  \/ retries = MaxRetries

\* The connection comes back and the balance is loaded, however often it is
\* lost, if logins do not fail more often than the retries allow.
Recovers == <>[](Settled /\ logins > 0)

-----------------------------------------------------------------------------
(* What the documents say and the code does not do *)

\* "Update the active account and reload balance", "Reload balance on
\* reconnect to sync PositionTracker with broker" (main.py): whichever account
\* was being queried before, the tracker ends up with the active one's shares.
ReloadSyncs == Settled /\ "trade" \notin disturbed => tracker = holdings[account]
=============================================================================
