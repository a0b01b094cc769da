------------------------------- MODULE StopBook -------------------------------
(***************************************************************************)
(* What the engine promises about the records of its open positions, with  *)
(* no word of strategies, orders, retries, awaits or files: what each of   *)
(* the few events that touch a record may do to it, and that nothing else  *)
(* touches it.                                                             *)
(*                                                                         *)
(* What is promised is less than one would wish: a purchase on top of a    *)
(* holding replaces its record, a market is recovered on the strength of   *)
(* what the tick read when it began, from the last purchase that was       *)
(* logged, whichever that was, and a lost file loses every record.         *)
(***************************************************************************)
EXTENDS Integers

CONSTANTS
  Market,
  Account,  \* "paper" is among them
  Position, \* the records there can be
  None      \* no record, no purchase

VARIABLES
  up,      \* does the process run
  clock,   \* the hour
  held,    \* account -> market -> lots
  seen,    \* market -> the lots the tick in progress read when it began
  sold,    \* the market just sold, as a set: its record is about to go
  bought,  \* market -> price and time of its last logged purchase, or None
  book     \* market -> its record, or None

vars == <<up, clock, held, seen, sold, bought, book>>

NoLots  == [m \in Market |-> 0]
NoStops == [m \in Market |-> None]

\* The trading day a moment belongs to begins at 09:00.
Session(t) == (t - 9) \div 24

\* A record whose stops lie at or below its peak.
Sound(r) ==
  /\ r \in Position
  /\ r.trail <= 100 * r.high
  /\ r.hard <= 100 * r.entry
  /\ r.entry <= r.high

Init ==
  /\ up = FALSE
  /\ clock \in Int
  /\ held = [c \in Account |-> NoLots]
  /\ seen = NoLots
  /\ sold = {}
  /\ bought = NoStops
  /\ book = NoStops

-----------------------------------------------------------------------------
\* Only the record of m changes.
Only(m) == book' = [book EXCEPT ![m] = book'[m]]

\* Only what account c has of m changes.
OnlyLots(c, m) == held' = [held EXCEPT ![c][m] = held'[c][m]]

Buys(m) == \E c \in Account : OnlyLots(c, m) /\ held'[c][m] > held[c][m]

Sells(m) == \E c \in Account : OnlyLots(c, m) /\ held'[c][m] < held[c][m]

\* The tick goes on with what it read, or ends.
GoesOn == seen' \in {seen, NoLots}

\* The record of a purchase made now: stops, peak and age start from its fill.
Fresh(new) ==
  /\ new.high = new.entry
  /\ new.time = clock
  /\ new.session = Session(clock)

\* The price made a new high or the session changed: peak and trail may rise;
\* entry, hard stop, session and purchase time stay.
Tighter(new, old) ==
  /\ new.high >= old.high
  /\ new.trail >= old.trail
  /\ new = [old EXCEPT !.high = new.high, !.trail = new.trail]

\* The record of the purchase that was logged last.
OfLogged(new, buy) ==
  /\ buy # None
  /\ new.entry = buy.price
  /\ new.hard = 95 * buy.price
  /\ new.time = buy.time
  /\ new.session = Session(buy.time)

\* A record made up at the current price, old enough to be sold on its age.
MadeUp(new) ==
  /\ new.high = new.entry
  /\ new.hard = 95 * new.entry
  /\ new.trail >= 97 * new.entry
  /\ new.time = clock - 25
  /\ new.session = Session(clock) - 1

-----------------------------------------------------------------------------
\* A purchase fills: the only event that may replace a record.
Purchase(m) ==
  /\ up
  /\ Buys(m)
  /\ Only(m) /\ Sound(book'[m]) /\ Fresh(book'[m])
  /\ UNCHANGED <<up, clock, seen, sold, bought>>

\* A market the tick read as held is evaluated: its record only tightens, or is
\* recovered if there is none; the market may be sold on the spot.
Evaluate(m) ==
  /\ up
  /\ seen[m] > 0
  /\ Only(m) /\ Sound(book'[m])
  /\ \/ book[m] # None /\ Tighter(book'[m], book[m])
     \/ book[m] = None /\ (OfLogged(book'[m], bought[m]) \/ MadeUp(book'[m]))
  /\ \/ UNCHANGED <<held, sold>>
     \/ Sells(m) /\ sold' = {m}
  /\ GoesOn
  /\ UNCHANGED <<up, clock, bought>>

\* A sale of m is confirmed.
Sell(m) ==
  /\ up
  /\ Sells(m) /\ sold' = {m}
  /\ UNCHANGED <<up, clock, seen, bought, book>>

\* The record of the market just sold goes; no other record ever does.
Close(m) ==
  /\ up
  /\ m \in sold /\ sold' = {}
  /\ book' = [book EXCEPT ![m] = None]
  /\ GoesOn
  /\ UNCHANGED <<up, clock, held, bought>>

\* The exchange traded and the engine did not hear of it.
Unheard(m) ==
  /\ up
  /\ Buys(m) \/ Sells(m)
  /\ GoesOn
  /\ UNCHANGED <<up, clock, sold, bought, book>>

\* The purchase a record stands for is logged.
Log(m) ==
  /\ up
  /\ book[m] # None
  /\ bought' = [bought EXCEPT ![m] = [price |-> book[m].entry, time |-> clock]]
  /\ GoesOn
  /\ UNCHANGED <<up, clock, held, sold, book>>

\* A tick reads an account, or fails to and goes on with nothing, or ends.
Read ==
  /\ up
  /\ seen' \in {held[c] : c \in Account} \union {NoLots}
  /\ UNCHANGED <<up, clock, held, sold, bought, book>>

\* The process dies; the records stay, or all of them are lost at once.
Die ==
  /\ up /\ ~up'
  /\ book' \in {book, NoStops}
  /\ held' = [held EXCEPT !["paper"] = NoLots]
  /\ seen' = NoLots
  /\ sold' = {}
  /\ UNCHANGED <<clock, bought>>

\* It is started again with the records it had.
Boot == ~up /\ up' /\ UNCHANGED <<clock, held, seen, sold, bought, book>>

Wait == clock' >= clock /\ UNCHANGED <<up, held, seen, sold, bought, book>>

Next ==
  \/ \E m \in Market :
       Purchase(m) \/ Evaluate(m) \/ Sell(m) \/ Close(m) \/ Unheard(m) \/ Log(m)
  \/ Read \/ Die \/ Boot \/ Wait

Spec == Init /\ [][Next]_vars

=============================================================================
