---------------------------- MODULE AlphaImport ----------------------------
(***************************************************************************)
(* import_signals: the signals the research system has made ready become   *)
(* proposals, best edge first and a few at a time, in one commit.  Two     *)
(* signals that say the same thing have the same proposal.  A signal that  *)
(* cannot be converted ends the run, whose work is lost.                   *)
(***************************************************************************)
EXTENDS Integers, Sequences, SequencesExt

CONSTANTS
  ByEdge,     \* the signals in order of net_edge_bps
  ContentOf,  \* what each proposes: proposals are named by their content
  Malformed,  \* without what normalize_proposal asks for: a size, an outcome
  MaxSignals, \* --max-signals
  MaxFaults   \* bound: runs that die

Signals == Range(ByEdge)
Contents == Range(ContentOf)

ImportAssumption ==
  /\ DOMAIN ContentOf = Signals /\ Malformed \subseteq Signals
  /\ MaxSignals \in Nat \ {0} /\ MaxFaults \in Nat

VARIABLES
  sig,       \* status of each signal, "none" before the research system wrote it
  stale,     \* signals whose signal_expires_at has passed
  listed,    \* signals whose market is in the database
  prop,      \* per content the proposal: [status, signal]
  run,       \* [on, list, existing, count, done]: the run under way
  faults

outside == <<stale, listed>>
vars == <<sig, outside, prop, run, faults>>

NoRun == [on |-> FALSE, list |-> <<>>, existing |-> {}, count |-> 0, done |-> <<>>]

Init ==
  /\ sig = [s \in Signals |-> "none"] /\ stale = {} /\ listed = {}
  /\ prop = [c \in Contents |-> [status |-> "none", signal |-> "none"]]
  /\ run = NoRun /\ faults = 0

-----------------------------------------------------------------------------
\* list_importable_signals and already_imported_signal_ids, once for the run.
StartRun ==
  /\ ~run.on
  /\ run' = [NoRun EXCEPT !.on = TRUE,
       !.list = SelectSeq(ByEdge, LAMBDA s : sig[s] = "ready"),
       !.existing = {prop[c].signal : c \in Contents} \ {"none"}]
  /\ UNCHANGED <<sig, outside, prop, faults>>

Verdict(s) ==
  IF s \in run.existing THEN "synced"
  ELSE IF s \in stale THEN "expired"
  ELSE IF s \notin listed THEN "skipped_no_market"
  ELSE IF run.count >= MaxSignals THEN "skipped_max_reached" ELSE "imported"

Skipped == {"skipped_no_market", "skipped_max_reached"}

\* Mutant: signals without a market use up the run.
CountedAll(verdict) == IF verdict \in {"imported", "skipped_no_market"} THEN 1 ELSE 0

Counted(verdict) == IF verdict = "imported" THEN 1 ELSE 0

\* signal_to_proposal or normalize_proposal raises and nothing catches it.
Raises(s) == s \in Malformed /\ Verdict(s) = "imported"

Consider ==
  /\ run.on /\ run.list # <<>> /\ ~Raises(Head(run.list))
  /\ LET s == Head(run.list)
     IN  run' = [run EXCEPT !.list = Tail(@), !.count = @ + Counted(Verdict(s)),
                            !.done = Append(@, [signal |-> s, verdict |-> Verdict(s)])]
  /\ UNCHANGED <<sig, outside, prop, faults>>

\* upsert_proposal: what exists keeps its status and gets the new signal.
Upserted(table, d) ==
  IF d.verdict # "imported" THEN table
  ELSE [table EXCEPT ![ContentOf[d.signal]] =
         [status |-> IF @.status = "none" THEN "proposed" ELSE @.status, signal |-> d.signal]]

NewStatus(s) ==
  IF \E d \in Range(run.done) : d.signal = s /\ d.verdict \in {"imported", "synced"} THEN "imported"
  ELSE IF \E d \in Range(run.done) : d.signal = s /\ d.verdict = "expired" THEN "expired"
  ELSE sig[s]

EndRun ==
  /\ run.on /\ run.list = <<>>
  /\ prop' = FoldLeft(Upserted, prop, run.done)
  /\ sig' = [s \in Signals |-> NewStatus(s)]
  /\ run' = NoRun
  /\ UNCHANGED <<outside, faults>>

RunRaises ==
  /\ run.on /\ run.list # <<>> /\ Raises(Head(run.list))
  /\ run' = NoRun
  /\ UNCHANGED <<sig, outside, prop, faults>>

RunDies ==
  /\ run.on /\ faults < MaxFaults
  /\ faults' = faults + 1 /\ run' = NoRun
  /\ UNCHANGED <<sig, outside, prop>>

-----------------------------------------------------------------------------
Arrive(s) ==
  /\ sig[s] = "none" /\ sig' = [sig EXCEPT ![s] = "ready"]
  /\ UNCHANGED <<outside, prop, run, faults>>

Expire(s) ==
  /\ s \notin stale /\ stale' = stale \cup {s}
  /\ UNCHANGED <<sig, listed, prop, run, faults>>

MarketAppears(s) ==
  /\ s \notin listed /\ listed' = listed \cup {s}
  /\ UNCHANGED <<sig, stale, prop, run, faults>>

\* The workflow takes the proposal on; not while the run has written.
Proceed(c) ==
  /\ prop[c].status = "proposed" /\ \A d \in Range(run.done) : d.verdict \in Skipped
  /\ prop' = [prop EXCEPT ![c].status = "taken"]
  /\ UNCHANGED <<sig, outside, run, faults>>

RunStep == StartRun \/ Consider \/ RunRaises \/ EndRun

Next ==
  \/ RunStep \/ RunDies
  \/ \E s \in Signals : Arrive(s) \/ Expire(s) \/ MarketAppears(s)
  \/ \E c \in Contents : Proceed(c)

\* The import is run again and again.
Fairness == WF_vars(RunStep)

Spec == Init /\ [][Next]_vars /\ Fairness

-----------------------------------------------------------------------------
Handled(s) ==
  \/ sig[s] = "expired"
  \/ sig[s] = "imported" /\ prop[ContentOf[s]].status # "none"

\* A malformed signal that is up for import, until it expires.
Obstructed == \E s \in Malformed : sig[s] = "ready" /\ s \in listed \ stale

\* A signal that is ready and whose market is known is handled in the end,
\* however many with better edges wait for a market before it, and whatever
\* runs die: it is expired, or there is a proposal that says what it says.  Only
\* malformed signals that never expire can keep it from that.
SignalsGetThrough ==
  []<>~Obstructed =>
    \A s \in Signals : (sig[s] = "ready" /\ s \in listed) ~> Handled(s)
=============================================================================
