------------------------------ MODULE RealData ------------------------------
(***************************************************************************)
(* kiwoom_trader/api/real_data.py and the subscriptions that               *)
(* session_manager.py keeps to restore them. A SetRealReg is a screen with *)
(* its codes; every subscription adds ("1"), none replaces. The server,    *)
(* external, forgets what is registered when the connection is lost.       *)
(***************************************************************************)
EXTENDS Naturals, Sequences

VARIABLES
  subscriptions,  \* RealDataManager._subscriptions
  tracked,        \* SessionManager._real_subscriptions
  screen,         \* _screen_counter, from SCREEN.REAL_BASE
  registered      \* external: what the server sends ticks for

realDataVars == <<subscriptions, tracked, screen, registered>>

\* _STANDARD_FIDS: all that a subscriber is handed of a tick.
StandardFids ==
  {"CURRENT_PRICE", "VOLUME", "EXEC_VOLUME", "OPEN_PRICE", "HIGH_PRICE", "LOW_PRICE"}

RealDataInit ==
  /\ subscriptions = <<>> /\ tracked = <<>>
  /\ screen = 0
  /\ registered = {}

\* _restore_real_subscriptions, when a login succeeds. (Mutant: only the
\* subscription made last.)
RestoredLast(subs) == IF subs = <<>> THEN {} ELSE {subs[Len(subs)]}
Restored(subs) == {subs[k] : k \in DOMAIN subs}

\* _next_screen_no, and track_real_subscription of the session manager.
NextScreenNo == screen' = screen + 1
Track(sub)   == tracked' = Append(tracked, sub)

\* subscribe, on a screen of its own.
Subscribe(codes, restored) ==
  LET sub == [screen |-> screen, codes |-> codes]
  IN /\ subscriptions' = Append(subscriptions, sub)
     /\ Track(sub)
     /\ registered' = restored \cup {sub}
     /\ NextScreenNo

\* The server sends ticks of these codes.
Streamed == UNION {r.codes : r \in registered}
=============================================================================
