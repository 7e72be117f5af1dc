--------------------------- MODULE CopyCollector ---------------------------
(***************************************************************************)
(* collect_once of the smart-money collector, for one followed wallet: the *)
(* trades past the cursor are recorded as signals and the cursor is moved  *)
(* past all that was seen, in one commit at the end of the pass.  A timer  *)
(* runs it, and a person may run it beside the timer.                      *)
(***************************************************************************)
EXTENDS Integers, FiniteSets, Sequences

CONSTANTS
  Collectors,
  Window,     \* limit of fetch_wallet_trades: how many trades one answer holds
  Limit,      \* MAX_SIGNALS_PER_WALLET_PER_RUN
  MaxAge,     \* MAX_TRADE_AGE_SECONDS
  MaxTime,    \* bound: clock
  MaxTrades,  \* bound: trades of the wallet
  MaxFaults   \* bound: passes that raise or die

CollectorAssumption == {Window, Limit, MaxAge, MaxTime, MaxTrades, MaxFaults} \subseteq Nat

VARIABLES
  clock,
  trades,   \* the wallet's at the exchange, in order of appearance: [ts, big]
  cursor, rows,  \* committed: the cursor, and how often each trade is recorded
  pass,     \* per collector, the pass under way
  writer,   \* {} or {the collector whose transaction is open}
  leftOut,  \* history: trades a pass had to leave, as too old, one too many or not shown
  raced,    \* history: trades two passes had in hand at once
  faults

vars == <<clock, trades, cursor, rows, pass, writer, leftOut, raced, faults>>

Trade == 1 .. MaxTrades
NoPass == [at |-> "idle", now |-> 0, cursor |-> 0, seen |-> {}, todo |-> {}, added |-> {}]

Init ==
  /\ clock = 1 /\ trades = <<>> /\ cursor = 0
  /\ rows = [i \in Trade |-> 0]
  /\ pass = [c \in Collectors |-> NoPass]
  /\ writer = {} /\ leftOut = {} /\ raced = {} /\ faults = 0

-----------------------------------------------------------------------------
\* A roster that is a day old is renewed first, which opens the transaction.
StartPass(c) ==
  /\ pass[c].at = "idle"
  /\ writer' \in {writer} \cup (IF writer = {} THEN {{c}} ELSE {})
  /\ pass' = [pass EXCEPT ![c] = [NoPass EXCEPT !.at = "fetch", !.now = clock, !.cursor = cursor]]
  /\ UNCHANGED <<clock, trades, cursor, rows, leftOut, raced, faults>>

TooOld(c, i) == pass[c].now - trades[i].ts > MaxAge

\* filter_new_trades: new, recent and large, the oldest first.
New(c, i) == trades[i].big /\ trades[i].ts > pass[c].cursor /\ ~TooOld(c, i)

Before(i, j) == trades[i].ts < trades[j].ts \/ (trades[i].ts = trades[j].ts /\ i < j)

OneTooMany(c, shown, i) == Cardinality({j \in shown : New(c, j) /\ Before(j, i)}) >= Limit

Filtered(c, shown) == {i \in shown : New(c, i) /\ ~OneTooMany(c, shown, i)}

Earliest(S) == CHOOSE i \in S : \A j \in S \ {i} : Before(i, j)

\* The exchange answers with the newest trades only.
Shown == {i \in DOMAIN trades : Cardinality({j \in DOMAIN trades : Before(i, j)}) < Window}

\* Past the cursor and pushed out of the answer by newer ones: no pass will see it.
PushedOut(c) == {i \in DOMAIN trades \ Shown : trades[i].ts > pass[c].cursor}

Fetch(c) ==
  /\ pass[c].at = "fetch"
  /\ pass' = [pass EXCEPT ![c].at = "judge", ![c].seen = Shown, ![c].todo = Filtered(c, Shown)]
  /\ leftOut' = leftOut \cup PushedOut(c)
  /\ UNCHANGED <<clock, trades, cursor, rows, writer, raced, faults>>

InHand(c) == pass[c].todo \cup pass[c].added

\* Mutant: what this pass has written is all there is.
RecordedHere(c, i) == i \in pass[c].added

\* already_recorded: the committed rows and those of this pass.
AlreadyRecorded(c, i) == rows[i] > 0 \/ i \in pass[c].added

\* The trade is looked up here, and written once the book has been fetched.
Judge(c) ==
  /\ pass[c].at = "judge" /\ pass[c].todo # {}
  /\ LET i == Earliest(pass[c].todo)
     IN  /\ pass' = IF AlreadyRecorded(c, i)
                    THEN [pass EXCEPT ![c].todo = @ \ {i}]
                    ELSE [pass EXCEPT ![c].at = "write"]
         /\ raced' = IF \E d \in Collectors \ {c} : i \in InHand(d) THEN raced \cup {i} ELSE raced
  /\ UNCHANGED <<clock, trades, cursor, rows, writer, leftOut, faults>>

Write(c) ==
  /\ pass[c].at = "write" /\ writer \subseteq {c}
  /\ writer' = {c}
  /\ LET i == Earliest(pass[c].todo)
     IN  pass' = [pass EXCEPT ![c].at = "judge", ![c].todo = @ \ {i}, ![c].added = @ \cup {i}]
  /\ UNCHANGED <<clock, trades, cursor, rows, leftOut, raced, faults>>

MaxOf(S, floor) == CHOOSE n \in S \cup {floor} : \A k \in S \cup {floor} : k <= n

\* Mutant: the cursor goes to the present.
AdvancedToNow(c) == pass[c].now

\* max(max_ts, min(newest_seen, now)): what was left out is passed as well.
Advanced(c) ==
  LET newest == MaxOf({trades[i].ts : i \in pass[c].seen}, pass[c].cursor)
      taken == MaxOf({trades[i].ts : i \in Filtered(c, pass[c].seen)}, pass[c].cursor)
  IN  MaxOf({taken}, IF newest < pass[c].now THEN newest ELSE pass[c].now)

\* Rows and cursor are committed together.
EndPass(c) ==
  /\ pass[c].at = "judge" /\ pass[c].todo = {}
  /\ Advanced(c) > pass[c].cursor => writer \subseteq {c}
  /\ cursor' = IF Advanced(c) > pass[c].cursor THEN Advanced(c) ELSE cursor
  /\ rows' = [i \in Trade |-> IF i \in pass[c].added THEN rows[i] + 1 ELSE rows[i]]
  /\ leftOut' = leftOut \cup {i \in pass[c].seen : TooOld(c, i) \/ OneTooMany(c, pass[c].seen, i)}
  /\ writer' = writer \ {c}
  /\ pass' = [pass EXCEPT ![c] = NoPass]
  /\ UNCHANGED <<clock, trades, raced, faults>>

\* The wait for the lock was too long, or the process died; or the trades of
\* the wallet could not be had, and the pass goes on to the next one.
PassLost(c) ==
  /\ pass[c].at # "idle" /\ faults < MaxFaults
  /\ faults' = faults + 1
  /\ pass' = [pass EXCEPT ![c] = NoPass] /\ writer' = writer \ {c}
  /\ UNCHANGED <<clock, trades, cursor, rows, leftOut, raced>>

-----------------------------------------------------------------------------
\* A trade may be shown a little after it was made.
Publish ==
  /\ Len(trades) < MaxTrades
  /\ \E ts \in {clock, clock - 1} \ {0}, big \in BOOLEAN :
       trades' = Append(trades, [ts |-> ts, big |-> big])
  /\ UNCHANGED <<clock, cursor, rows, pass, writer, leftOut, raced, faults>>

Tick ==
  /\ clock < MaxTime /\ clock' = clock + 1
  /\ UNCHANGED <<trades, cursor, rows, pass, writer, leftOut, raced, faults>>

Next ==
  \/ Publish \/ Tick
  \/ \E c \in Collectors :
       \/ StartPass(c) \/ Fetch(c) \/ Judge(c) \/ Write(c) \/ EndPass(c) \/ PassLost(c)

Spec == Init /\ [][Next]_vars

-----------------------------------------------------------------------------
\* Shown when a trade of the same second or a later one had been passed.
Late(i) == \E j \in 1 .. (i - 1) : trades[j].ts >= trades[i].ts

\* Whatever a pass lost half-way, every large trade behind the cursor is
\* recorded once: twice only when two passes had it in hand together, and never
\* only when it was too old, one too many or no longer shown, or came late.
TradesRecordedOnce ==
  \A i \in DOMAIN trades :
    /\ rows[i] > 1 => i \in raced
    /\ trades[i].big /\ trades[i].ts <= cursor /\ ~Late(i) /\ i \notin leftOut => rows[i] > 0
=============================================================================
