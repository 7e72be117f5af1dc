--------------------------- MODULE ExecutionLedger --------------------------
(***************************************************************************)
(* What the executions table promises the rest of the system: a book in    *)
(* which every entry is written once, as open, filled or failed; an open   *)
(* entry later closes, as filled or failed, and never changes again; and   *)
(* neither a proposal nor a (market, outcome) pair that is not released    *)
(* has two entries that are open or filled.                                *)
(*                                                                         *)
(* It says nothing of loops, transactions, the exchange or crashes.        *)
(***************************************************************************)
EXTENDS Naturals

CONSTANTS Proposals, Markets, MarketOf, Execs, NoProposal

VARIABLES
  entry,      \* the state of an entry, "none" before it is written
  holder,     \* the proposal it was written for
  released    \* pairs that may be entered again, their market being resolved

ledgerVars == <<entry, holder, released>>

Standing == {"open", "filled"}
Unused == {e \in Execs : entry[e] = "none"}

LedgerInit ==
  /\ entry = [e \in Execs |-> "none"]
  /\ holder = [e \in Execs |-> NoProposal]
  /\ released = [m \in Markets |-> FALSE]

\* No standing entry is in the way of a new one for p.
Enterable(p) ==
  \A e \in Execs :
    entry[e] \in Standing =>
      /\ holder[e] # p
      /\ MarketOf[holder[e]] = MarketOf[p] => released[MarketOf[p]]

\* One commit writes the entries of N, at most one of them standing.
Book(N, h, s) ==
  /\ \A e \in N : s[e] \in Standing => Enterable(h[e])
  /\ \A e, f \in N : s[e] \in Standing /\ s[f] \in Standing => e = f
  /\ entry' = [e \in Execs |-> IF e \in N THEN s[e] ELSE entry[e]]
  /\ holder' = [e \in Execs |-> IF e \in N THEN h[e] ELSE holder[e]]
  /\ UNCHANGED released

BookSome ==
  \E N \in SUBSET Unused :
    \E h \in [N -> Proposals], s \in [N -> {"open", "filled", "failed"}] :
      Book(N, h, s)

Close(e, s) ==
  /\ entry[e] = "open"
  /\ entry' = [entry EXCEPT ![e] = s]
  /\ UNCHANGED <<holder, released>>

Release(m) ==
  /\ released' = [released EXCEPT ![m] = TRUE]
  /\ UNCHANGED <<entry, holder>>

LedgerNext ==
  \/ BookSome
  \/ \E e \in Execs, s \in {"filled", "failed"} : Close(e, s)
  \/ \E m \in Markets : Release(m)

LedgerSpec == LedgerInit /\ [][LedgerNext]_ledgerVars

=============================================================================
