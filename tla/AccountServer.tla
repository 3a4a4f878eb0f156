---------------------------- MODULE AccountServer ----------------------------
(***************************************************************************)
(* The Kiwoom server as the session sees it: a connection that drops, and  *)
(* logins that fail; the accounts and what they hold; balance queries,     *)
(* answered in pages; balance reports of every account of the login. What  *)
(* happens while the connection is down is reported to nobody. Events      *)
(* reach the program in the order they were raised. None of it is code of  *)
(* this repository.                                                        *)
(***************************************************************************)
EXTENDS Integers, Sequences, FiniteSets

CONSTANTS
  Account, NoAccount,
  Code,
  InitialHoldings, \* bound: what the accounts may hold at the start
  MaxQty,         \* bound: shares of one code an account holds
  MaxDrops,       \* bound: connections lost
  MaxFailures,    \* bound: logins that fail in a row
  MaxTrades       \* bound: executions

ASSUME ServerAssumption ==
  /\ NoAccount \notin Account
  /\ InitialHoldings \subseteq [Account -> [Code -> 0 .. MaxQty]]
  /\ MaxQty \in Nat \ {0} /\ MaxDrops \in Nat /\ MaxFailures \in Nat /\ MaxTrades \in Nat

VARIABLES
  up,             \* whether the connection stands
  holdings,       \* the shares of each code each account holds
  asked,          \* the query in progress: its account, the codes not yet sent
  wire,           \* events on their way to the program
  connecting,     \* CommConnect calls not yet answered
  drops, failures, trades

serverVars == <<up, holdings, asked, wire, connecting, drops, failures, trades>>

\* A balance query, and the request for its next page, which names no account.
Request == [account : Account \cup {NoAccount}]

Balance == [Code -> 0 .. MaxQty]
Login(ok)         == [type |-> "login", ok |-> ok]
Rows(held, more)  == [type |-> "rows", held |-> held, more |-> more]
Report(c, q)      == [type |-> "report", code |-> c, qty |-> q]
Event ==
  {Login(ok) : ok \in BOOLEAN}
    \cup {Rows(held, more) : held \in Balance, more \in BOOLEAN}
    \cup {Report(c, q) : c \in Code, q \in 0 .. MaxQty}

NothingAsked == [account |-> NoAccount, left |-> {}]
Asked == [account : Account, left : SUBSET Code] \cup {NothingAsked}

ServerTypeOK ==
  /\ up \in BOOLEAN
  /\ holdings \in [Account -> Balance]
  /\ asked \in Asked
  /\ wire \in Seq(Event)
  /\ connecting \in Nat
  /\ drops \in 0 .. MaxDrops /\ failures \in 0 .. MaxFailures /\ trades \in 0 .. MaxTrades

\* The program starts with a CommConnect under way.
ServerInit ==
  /\ up = FALSE
  /\ holdings \in InitialHoldings
  /\ asked = NothingAsked
  /\ wire = <<>>
  /\ connecting = 1
  /\ drops = 0 /\ failures = 0 /\ trades = 0

\* The query whose next page the request asks for.
Query(r) ==
  IF r.account = NoAccount THEN asked
  ELSE [account |-> r.account, left |-> {c \in Code : holdings[r.account][c] > 0}]

\* The shares of the codes of page in account a.
Page(a, page) == [c \in Code |-> IF c \in page THEN holdings[a][c] ELSE 0]

\* The requests of sent, at most one, reach the server after the events of
\* raised: it answers with all the rows left or with some and a mark that
\* there are more. Without a connection CommRqData returns an error.
Answer(sent, raised) ==
  IF sent = <<>> \/ ~up THEN wire' = raised /\ UNCHANGED asked
  ELSE LET q == Query(Head(sent))
       IN \E page \in SUBSET q.left :
            /\ page = {} => q.left = {}
            /\ asked' = IF page = q.left THEN NothingAsked
                        ELSE [account |-> q.account, left |-> q.left \ page]
            /\ wire' = Append(raised, Rows(IF page = {} THEN [c \in Code |-> 0]
                                           ELSE Page(q.account, page), page # q.left))

\* CommConnect: ignored when the connection stands.
CommConnect == connecting' = IF up THEN connecting ELSE connecting + 1

\* A CommConnect is answered; a connection that stands is left as it is.
AnswerConnect ==
  /\ connecting > 0
  /\ connecting' = connecting - 1
  /\ \/ up /\ UNCHANGED <<up, failures, wire>>
     \/ ~up /\ up' = TRUE /\ failures' = 0 /\ wire' = Append(wire, Login(TRUE))
     \/ /\ ~up /\ failures < MaxFailures
        /\ failures' = failures + 1
        /\ wire' = Append(wire, Login(FALSE))
        /\ UNCHANGED up
  /\ UNCHANGED <<holdings, asked, drops, trades>>

\* The connection is lost; OnEventConnect may say so.
Drop ==
  /\ up
  /\ drops < MaxDrops
  /\ drops' = drops + 1
  /\ up' = FALSE
  /\ asked' = NothingAsked
  /\ wire' \in {wire, Append(wire, Login(FALSE))}
  /\ UNCHANGED <<holdings, connecting, failures, trades>>

\* An execution leaves account a with q shares of c.
Trade(a, c, q) ==
  /\ trades < MaxTrades
  /\ trades' = trades + 1
  /\ holdings[a][c] # q
  /\ holdings' = [holdings EXCEPT ![a][c] = q]
  /\ wire' = IF up THEN Append(wire, Report(c, q)) ELSE wire
  /\ UNCHANGED <<up, asked, connecting, drops, failures>>
=============================================================================
