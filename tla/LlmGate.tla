------------------------------ MODULE LlmGate ------------------------------
(***************************************************************************)
(* The language-model adapter under the loops that share it.  Each loop    *)
(* thread asks on its own; the cooldowns, the metadata of the last answer  *)
(* and the time of the last propose cycle are globals of the process.  A   *)
(* cooldown is checked before a call and set after it, minutes later, so   *)
(* calls of several loops can be under way when the limit is hit.  Time    *)
(* runs in ticks; a bucket keeps how long ago its last hit was.            *)
(***************************************************************************)
EXTENDS Integers, FiniteSets, Sequences

CONSTANTS
  Loops,        \* threads that ask the model
  Nobody,
  Proposer,     \* the one of them that runs the proposal pipeline
  Schedule,     \* _COOLDOWN_SCHEDULE_SEC, in ticks
  Window,       \* _RESET_WINDOW_SEC
  HttpPauses,   \* the pauses after a transient error of the HTTP endpoint
  MinInterval,  \* POLY_LLM_MIN_INTERVAL_SECONDS
  Modes,        \* OPENCLAW_TRANSPORT: subset of {"cli", "http"}
  Fallbacks     \* OPENCLAW_FALLBACK_PROVIDER set and keyed: subset of BOOLEAN

ASSUME LlmAssumption ==
  /\ IsFiniteSet(Loops) /\ Proposer \in Loops /\ Nobody \notin Loops
  /\ Schedule \in Seq(Nat \ {0}) /\ Schedule # <<>>
  /\ \A i, j \in DOMAIN Schedule : i < j => Schedule[i] <= Schedule[j]
  /\ Window = Schedule[Len(Schedule)]
  /\ HttpPauses \subseteq Nat \ {0} /\ MinInterval \in Nat
  /\ Modes \subseteq {"cli", "http"} /\ Fallbacks \subseteq BOOLEAN

VARIABLES
  mode, fallback,
  bucket,     \* per transport: [left, since, count], the cooldown that remains
  call,       \* per loop: [at, stage], the call it makes and what for
  meta,       \* _LAST_META: the loop whose answer came last
  llmMeta,    \* what the proposer read as the metadata of its own answer
  sinceCycle, \* ticks since _LAST_LLM_PROPOSE_AT
  hits        \* per transport: limits recorded since it last was open

vars == <<mode, fallback, bucket, call, meta, llmMeta, sinceCycle, hits>>
configVars == <<mode, fallback>>

Transports == {"default", "primary", "fallback", "http"}
Never == Window + 1
Idle == [at |-> "idle", stage |-> "none"]

\* The proposer asks for proposals, for a memo and for a supervisor's opinion.
Stages(l) == IF l = Proposer THEN <<"pick", "memo", "supervise">> ELSE <<"ask">>

-----------------------------------------------------------------------------
(***************************************************************************)
(* Cooldowns.                                                              *)
(***************************************************************************)
\* _record_llm_rate_limit_hit: the count starts again after the window; more
\* than the schedule's length is the last step of it.
Escalated(b) ==
  LET before == IF b.since > Window THEN 0 ELSE b.count
      count == IF before < Len(Schedule) THEN before + 1 ELSE before
  IN  [left |-> Schedule[count], since |-> 0, count |-> count]

\* Bound: counts to one more than there are loops.
Counted(n) == IF n > Cardinality(Loops) THEN n ELSE n + 1

Hit(t) ==
  /\ bucket' = [bucket EXCEPT ![t] = Escalated(@)]
  /\ hits' = [hits EXCEPT ![t] = Counted(@)]

NoHit == UNCHANGED <<bucket, hits>>

\* Mutant: the check reads the bucket of another transport.
OpenDefault(t) == bucket["default"].left = 0

\* llm_cooldown_remaining_sec
Open(t) == bucket[t].left = 0

\* Mutant: a call that is turned away is one more hit.
TurnedAwayCounts(t) == Hit(t)

\* A call that finds its transport in cooldown raises with what is stored.
TurnedAway(t) == NoHit

\* _set_cooldown keeps the later end.
Pause(pause) ==
  /\ bucket' = [bucket EXCEPT !["http"].left = IF @ < pause THEN pause ELSE @]
  /\ hits' = [hits EXCEPT !["http"] = Counted(@)]

-----------------------------------------------------------------------------
(***************************************************************************)
(* One call: chat_payload.                                                 *)
(***************************************************************************)
To(l, at) == call' = [call EXCEPT ![l].at = at]

\* LLMRateLimitError and RuntimeError go to the fallback, if there is one.
\* Without one they are raised to the caller, as everything else is.
Failed(l) == To(l, IF fallback THEN "falling" ELSE "raised")

\* _loop_propose looks at the cooldown of a transport nobody sets, and at the
\* time of its last complete cycle.
MayStart(l) == l = Proposer => Open("default") /\ sinceCycle >= MinInterval

StartCycle(l) ==
  /\ call[l] = Idle /\ MayStart(l)
  /\ call' = [call EXCEPT ![l] = [at |-> "ready", stage |-> Head(Stages(l))]]
  /\ UNCHANGED <<configVars, bucket, meta, llmMeta, sinceCycle, hits>>

CallCli(l) ==
  /\ mode = "cli" /\ call[l].at = "ready"
  /\ IF Open("primary") THEN To(l, "primary") /\ NoHit
     ELSE Failed(l) /\ TurnedAway("primary")
  /\ UNCHANGED <<configVars, meta, llmMeta, sinceCycle>>

Answered(l, t) ==
  /\ call[l].at = t
  /\ To(l, "answered") /\ meta' = l
  /\ NoHit /\ UNCHANGED <<configVars, llmMeta, sinceCycle>>

CliLimited(l) ==
  /\ call[l].at = "primary" /\ Failed(l) /\ Hit("primary")
  /\ UNCHANGED <<configVars, meta, llmMeta, sinceCycle>>

CliFails(l) ==
  /\ call[l].at = "primary" /\ Failed(l)
  /\ NoHit /\ UNCHANGED <<configVars, meta, llmMeta, sinceCycle>>

\* subprocess.TimeoutExpired is no RuntimeError.
CliTimesOut(l) ==
  /\ call[l].at = "primary" /\ To(l, "raised")
  /\ NoHit /\ UNCHANGED <<configVars, meta, llmMeta, sinceCycle>>

CallFallback(l) ==
  /\ call[l].at = "falling"
  /\ IF Open("fallback") THEN To(l, "fallback") /\ NoHit
     ELSE To(l, "none") /\ TurnedAway("fallback")
  /\ UNCHANGED <<configVars, meta, llmMeta, sinceCycle>>

\* Both have failed: an event is recorded and the caller gets None.
FallbackFails(l) ==
  /\ call[l].at = "fallback" /\ To(l, "none")
  /\ Hit("fallback") \/ NoHit
  /\ UNCHANGED <<configVars, meta, llmMeta, sinceCycle>>

CallHttp(l) ==
  /\ mode = "http" /\ call[l].at = "ready"
  /\ To(l, IF Open("http") THEN "http" ELSE "none")
  /\ NoHit /\ UNCHANGED <<configVars, meta, llmMeta, sinceCycle>>

\* The HTTP transport leaves no metadata.
HttpEnds(l) ==
  /\ call[l].at = "http"
  /\ \/ (\E at \in {"answered", "raised"} : To(l, at)) /\ NoHit
     \/ To(l, "none") /\ \E pause \in HttpPauses : Pause(pause)
  /\ UNCHANGED <<configVars, meta, llmMeta, sinceCycle>>

-----------------------------------------------------------------------------
(***************************************************************************)
(* What the caller does with the outcome.                                  *)
(***************************************************************************)
\* A memo is written when there is none yet; without one from the model there
\* is a deterministic one.
Following(c) ==
  IF c.at = "answered" /\ c.stage = "pick" THEN {"memo", "supervise"}
  ELSE IF c.at \in {"answered", "none"} /\ c.stage = "memo" THEN {"supervise"}
  ELSE {}

Continue(l) ==
  /\ \E stage \in Following(call[l]) :
       call' = [call EXCEPT ![l] = [at |-> "ready", stage |-> stage]]
  /\ llmMeta' = IF call[l].stage = "pick" THEN meta ELSE llmMeta
  /\ UNCHANGED <<configVars, bucket, meta, sinceCycle, hits>>

\* The cycle is over, also when nothing usable was proposed.  What the
\* supervisor call raises is swallowed.  A cycle that raised before does not
\* count for the interval, one that got no proposals does.
EndCycle(l) ==
  /\ call[l].at \in {"answered", "none", "raised"}
  /\ call[l].stage = "memo" => call[l].at = "raised"
  /\ call' = [call EXCEPT ![l] = Idle]
  /\ sinceCycle' =
       IF l = Proposer /\ (call[l].at = "raised" => call[l].stage = "supervise") THEN 0
       ELSE sinceCycle
  /\ UNCHANGED <<configVars, bucket, meta, llmMeta, hits>>

Tick ==
  /\ bucket' = [t \in Transports |->
       [bucket[t] EXCEPT !.left = IF @ = 0 THEN 0 ELSE @ - 1,
                         !.since = IF @ = Never THEN Never ELSE @ + 1]]
  /\ hits' = [t \in Transports |-> IF bucket[t].left <= 1 THEN 0 ELSE hits[t]]
  /\ sinceCycle' = IF sinceCycle = MinInterval THEN sinceCycle ELSE sinceCycle + 1
  /\ UNCHANGED <<configVars, call, meta, llmMeta>>

Init ==
  /\ mode \in Modes /\ fallback \in Fallbacks
  /\ bucket = [t \in Transports |-> [left |-> 0, since |-> Never, count |-> 0]]
  /\ call = [l \in Loops |-> Idle]
  /\ meta = Nobody /\ llmMeta = Nobody
  /\ sinceCycle = MinInterval
  /\ hits = [t \in Transports |-> 0]

Next ==
  \/ \E l \in Loops :
       \/ StartCycle(l) \/ CallCli(l) \/ CliLimited(l) \/ CliFails(l) \/ CliTimesOut(l)
       \/ CallFallback(l) \/ FallbackFails(l) \/ CallHttp(l) \/ HttpEnds(l)
       \/ \E t \in {"primary", "fallback"} : Answered(l, t)
       \/ Continue(l) \/ EndCycle(l)
  \/ Tick

Spec == Init /\ [][Next]_vars

\* Time passes.  Nothing says that a call ever returns.
FairSpec == Spec /\ WF_vars(Tick)

-----------------------------------------------------------------------------
\* The exit loop asks again every thirty seconds while a transport is in
\* cooldown, and "without this guard it turns a 30-min cooldown into many hours"
\* (openclaw_adapter.py:447-452): between two moments at which a transport is
\* open, its cooldown is set at most once by each loop, for a call that was
\* under way when the first one failed.
EscalationsAreCalls == \A t \in Transports : hits[t] <= Cardinality(Loops)

\* Whatever the loops ask meanwhile, a transport in cooldown opens again.
TransportReturns == \A t \in Transports : ~Open(t) ~> Open(t)
=============================================================================
