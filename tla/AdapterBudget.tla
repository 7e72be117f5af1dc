--------------------------- MODULE AdapterBudget ---------------------------
(***************************************************************************)
(* The daily budgets of the paid adapters.  A caller reads the counter on  *)
(* one connection, sends its request, and counts it on another connection  *)
(* when the answer has come.  Three programs do so: the context loop, the  *)
(* event-fetcher command and the odds-divergence run.  The last two write  *)
(* to the database before they are through, so that their own connection   *)
(* can hold the write lock the count has to wait for.                      *)
(***************************************************************************)
EXTENDS Integers, FiniteSets, Sequences, Functions

CONSTANTS
  Callers,    \* subset of {"loop", "command", "divergence"}
  Cap,        \* TAVILY_DAILY_CAP, ODDS_API_DAILY_CAP, ODDS_DIVERGENCE_DAILY_CAP
  RunLength,  \* markets that one run looks at
  MaxRuns,    \* bound: runs of each caller
  MaxDays     \* bound: midnights (UTC) that pass

BudgetAssumption ==
  /\ Callers \subseteq {"loop", "command", "divergence"}
  /\ {RunLength} \subseteq Nat \ {0} /\ {Cap, MaxRuns, MaxDays} \subseteq Nat

VARIABLES
  counter,  \* per provider, adapter_budget_tracking.calls of the day
  sent,     \* per provider, the requests of the day
  missed,   \* per provider, those that were not counted
  at,       \* per caller: [step, todo, queue], markets and providers to go
  locked,   \* callers whose own connection holds the write lock
  runs, day

vars == <<counter, sent, missed, at, locked, runs, day>>

Providers == {"odds_api", "tavily", "odds_divergence"}

\* The order of fetch_contexts_for_market; the free adapters between them, which
\* fail softly, have no budget.
Asked(c) == IF c = "divergence" THEN <<"odds_divergence">> ELSE <<"odds_api", "tavily">>
Rest == [step |-> "idle", todo |-> 0, queue |-> <<>>]
Provider(c) == Head(at[c].queue)
Market(c, todo) == [step |-> "reading", todo |-> todo, queue |-> Asked(c)]

\* Mutant: the last call of the budget is allowed twice.
AllowedAtCap(p) == counter[p] <= Cap

Allowed(p) == counter[p] < Cap

-----------------------------------------------------------------------------
\* event_fetcher's main stores the market before it asks for its contexts.
StartRun(c) ==
  /\ at[c] = Rest /\ runs[c] < MaxRuns
  /\ c = "command" => locked = {}
  /\ locked' = IF c = "command" THEN {c} ELSE locked
  /\ at' = [at EXCEPT ![c] = Market(c, RunLength)]
  /\ runs' = [runs EXCEPT ![c] = @ + 1]
  /\ UNCHANGED <<counter, sent, missed, day>>

ReadBudget(c) ==
  /\ at[c].step = "reading" /\ at[c].queue # <<>>
  /\ at' = IF Allowed(Provider(c)) THEN [at EXCEPT ![c].step = "sending"]
           ELSE [at EXCEPT ![c].queue = Tail(@)]
  /\ UNCHANGED <<counter, sent, missed, locked, runs, day>>

Send(c) ==
  /\ at[c].step = "sending"
  /\ sent' = [sent EXCEPT ![Provider(c)] = @ + 1]
  /\ at' = [at EXCEPT ![c].step = "counting"]
  /\ UNCHANGED <<counter, missed, locked, runs, day>>

\* A request that failed, or whose body cannot be read, is not counted.
SendFails(c) ==
  /\ at[c].step = "sending"
  /\ sent' = [sent EXCEPT ![Provider(c)] = @ + 1]
  /\ missed' = [missed EXCEPT ![Provider(c)] = @ + 1]
  /\ at' = [at EXCEPT ![c].step = "reading", ![c].queue = Tail(@)]
  /\ UNCHANGED <<counter, locked, runs, day>>

\* adapter_budget_increment, on a connection of its own.
Count(c) ==
  /\ at[c].step = "counting" /\ locked = {}
  /\ counter' = [counter EXCEPT ![Provider(c)] = @ + 1]
  /\ at' = [at EXCEPT ![c].step = "reading", ![c].queue = Tail(@)]
  /\ UNCHANGED <<sent, missed, locked, runs, day>>

\* The count waits for the lock until the busy timeout and raises; the caller
\* swallows it, and what the provider answered is lost with it.
CountFails(c) ==
  /\ at[c].step = "counting" /\ locked # {}
  /\ missed' = [missed EXCEPT ![Provider(c)] = @ + 1]
  /\ at' = [at EXCEPT ![c].step = "reading", ![c].queue = Tail(@)]
  /\ UNCHANGED <<counter, sent, locked, runs, day>>

\* The command and the divergence run store the result of the market, which
\* takes the write lock for the rest of the run, unless the run has none; the
\* context loop stores all of its results at the end.
NextMarket(c) ==
  /\ at[c].step = "reading" /\ at[c].queue = <<>> /\ at[c].todo > 1
  /\ \/ c # "loop" /\ locked \subseteq {c} /\ locked' = {c}
     \/ c # "command" /\ locked' = locked
  /\ at' = [at EXCEPT ![c] = Market(c, @.todo - 1)]
  /\ UNCHANGED <<counter, sent, missed, runs, day>>

EndRun(c) ==
  /\ at[c].step = "reading" /\ at[c].queue = <<>> /\ at[c].todo = 1
  /\ locked \subseteq {c}
  /\ locked' = {}
  /\ at' = [at EXCEPT ![c] = Rest]
  /\ UNCHANGED <<counter, sent, missed, runs, day>>

\* The rows of the new day start from zero.
Midnight ==
  /\ day < MaxDays /\ day' = day + 1
  /\ counter' = [p \in Providers |-> 0] /\ sent' = [p \in Providers |-> 0]
  /\ missed' = [p \in Providers |-> 0]
  /\ UNCHANGED <<at, locked, runs>>

Init ==
  /\ counter = [p \in Providers |-> 0] /\ sent = [p \in Providers |-> 0]
  /\ missed = [p \in Providers |-> 0]
  /\ at = [c \in Callers |-> Rest] /\ locked = {}
  /\ runs = [c \in Callers |-> 0] /\ day = 0

Next ==
  \/ \E c \in Callers : \/ StartRun(c) \/ ReadBudget(c) \/ Send(c) \/ SendFails(c)
                        \/ Count(c) \/ CountFails(c) \/ NextMarket(c) \/ EndRun(c)
  \/ Midnight

Spec == Init /\ [][Next]_vars

-----------------------------------------------------------------------------
Sharing(p) == {c \in Callers : p \in Range(Asked(c))}

\* Whatever the callers interleave, a day's requests to a provider exceed its
\* cap by no more than the callers that can be between their reading and their
\* counting, besides the requests that were never counted.
BudgetKept ==
  \A p \in Providers :
    Sharing(p) # {} => sent[p] <= Cap + Cardinality(Sharing(p)) - 1 + missed[p]

=============================================================================
