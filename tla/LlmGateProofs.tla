--------------------------- MODULE LlmGateProofs ---------------------------
(***************************************************************************)
(* However many loops ask, a cooldown escalates by calls that were really  *)
(* made: for any schedule, any pauses and any configuration of transports. *)
(***************************************************************************)
EXTENDS LlmGate, FiniteSetTheorems, TLAPS

Places ==
  {"idle", "ready", "primary", "falling", "fallback", "http", "answered", "none", "raised"}

Calls == [at : Places, stage : {"none", "ask", "pick", "memo", "supervise"}]

Buckets == [left : Nat, since : Nat, count : 0 .. Len(Schedule)]

Typed ==
  /\ bucket \in [Transports -> Buckets]
  /\ call \in [Loops -> Calls]
  /\ hits \in [Transports -> Nat]

\* The loops whose call a transport has not answered yet.
Calling(t) == {l \in Loops : call[l].at = t}

\* Each limit recorded since a transport was open belongs to a loop that is no
\* longer calling it: while it is in cooldown nobody starts.
HitsAreCalls ==
  \A t \in Transports :
    /\ bucket[t].left = 0 => hits[t] = 0
    /\ hits[t] + Cardinality(Calling(t)) <= Cardinality(Loops)

LInv == Typed /\ HitsAreCalls

-----------------------------------------------------------------------------
LEMMA LoopCount ==
  /\ IsFiniteSet(Loops) /\ Cardinality(Loops) \in Nat
  /\ \A S : S \subseteq Loops => /\ IsFiniteSet(S) /\ Cardinality(S) \in Nat
                                 /\ Cardinality(S) <= Cardinality(Loops)
BY FS_Subset, FS_CardinalityType, LlmAssumption DEF LlmAssumption

\* An escalated cooldown is never over at once.
LEMMA EscalatedType ==
  ASSUME NEW b \in Buckets
  PROVE  Escalated(b) \in Buckets /\ Escalated(b).left > 0
<1> DEFINE before == IF b.since > Window THEN 0 ELSE b.count
           count == IF before < Len(Schedule) THEN before + 1 ELSE before
<1>1. Len(Schedule) \in Nat \ {0} /\ DOMAIN Schedule = 1 .. Len(Schedule)
  BY LlmAssumption DEF LlmAssumption
<1>2. before \in 0 .. Len(Schedule)  BY <1>1 DEF Buckets
<1> HIDE DEF before
<1>3. count \in 1 .. Len(Schedule)  BY <1>1, <1>2
<1> HIDE DEF count
<1>4. Schedule[count] \in Nat \ {0}
  BY <1>1, <1>3, LlmAssumption DEF LlmAssumption
<1>5. Escalated(b) = [left |-> Schedule[count], since |-> 0, count |-> count]
  BY DEF Escalated, before, count
<1> QED  BY <1>1, <1>3, <1>4, <1>5 DEF Buckets

\* A step of a loop that records no limit: a transport is called only if it
\* is open.
LEMMA WithoutLimit ==
  ASSUME LInv, call' \in [Loops -> Calls], NoHit,
         \A t \in Transports : bucket[t].left = 0 \/ Calling(t)' \subseteq Calling(t)
  PROVE  LInv'
<1>1. Typed'  BY DEF LInv, Typed, NoHit
<1>2. ASSUME NEW t \in Transports
      PROVE  hits[t] + Cardinality(Calling(t)') <= Cardinality(Loops)
  <2>1. Calling(t)' \subseteq Loops /\ Calling(t) \subseteq Loops
    BY DEF Calling
  <2>2. CASE bucket[t].left = 0
    BY <2>1, <2>2, LoopCount DEF LInv, HitsAreCalls
  <2>3. CASE Calling(t)' \subseteq Calling(t)
    <3>1. Cardinality(Calling(t)') <= Cardinality(Calling(t))
      BY <2>1, <2>3, LoopCount, FS_Subset
    <3>2. hits[t] + Cardinality(Calling(t)) <= Cardinality(Loops)
      BY DEF LInv, HitsAreCalls
    <3> QED  BY <2>1, <3>1, <3>2, LoopCount DEF LInv, Typed
  <2> QED  BY <2>2, <2>3
<1> QED  BY <1>1, <1>2 DEF LInv, HitsAreCalls, NoHit

\* A step in which a loop's call to u ends and puts u in cooldown.
LEMMA WithLimit ==
  ASSUME LInv, NEW u \in Transports, NEW l \in Loops, call[l].at = u,
         NEW where \in Places \ Transports, To(l, where),
         NEW b \in Buckets, b.left > 0, bucket' = [bucket EXCEPT ![u] = b],
         hits' = [hits EXCEPT ![u] = Counted(@)]
  PROVE  LInv'
<1>1. call' \in [Loops -> Calls] /\ call'[l].at = where
      /\ \A k \in Loops \ {l} : call'[k] = call[k]
  BY DEF To, LInv, Typed, Calls, Places
<1>2. Calling(u)' = Calling(u) \ {l}
      /\ \A t \in Transports \ {u} : Calling(t)' = Calling(t)
  BY <1>1 DEF Calling
<1>3. IsFiniteSet(Calling(u)) /\ l \in Calling(u) /\ Cardinality(Calling(u)) \in Nat
  BY LoopCount DEF Calling
<1>4. Cardinality(Calling(u)') = Cardinality(Calling(u)) - 1
  BY <1>2, <1>3, FS_RemoveElement
<1>5. Cardinality(Calling(u)) > 0
  BY <1>3, FS_EmptySet
<1>6. hits[u] \in Nat /\ hits[u] + Cardinality(Calling(u)) <= Cardinality(Loops)
  BY DEF LInv, Typed, HitsAreCalls
<1>7. Counted(hits[u]) = hits[u] + 1
  BY <1>3, <1>5, <1>6, LoopCount DEF Counted
<1>8. Typed'
  BY <1>1, <1>6, <1>7 DEF LInv, Typed
<1>9. hits'[u] + Cardinality(Calling(u)') <= Cardinality(Loops)
  BY <1>3, <1>4, <1>6, <1>7, LoopCount DEF LInv, Typed
<1>10. ASSUME NEW t \in Transports
       PROVE  /\ bucket'[t].left = 0 => hits'[t] = 0
              /\ hits'[t] + Cardinality(Calling(t)') <= Cardinality(Loops)
  <2>1. CASE t = u  BY <1>9, <2>1 DEF LInv, Typed
  <2>2. CASE t # u  BY <1>2, <2>2 DEF LInv, Typed, HitsAreCalls
  <2> QED  BY <2>1, <2>2
<1> QED  BY <1>8, <1>10 DEF LInv, HitsAreCalls

-----------------------------------------------------------------------------
\* What the loops do between their calls does not reach a transport.
LEMMA QuietPreserves ==
  ASSUME LInv, NEW l \in Loops,
         \/ StartCycle(l) \/ Continue(l) \/ EndCycle(l) \/ CliFails(l) \/ CliTimesOut(l)
         \/ \E t \in {"primary", "fallback"} : Answered(l, t)
  PROVE  LInv'
<1>1. NoHit /\ call' \in [Loops -> Calls]
  BY DEF StartCycle, Continue, EndCycle, CliFails, CliTimesOut, Answered, To, Failed,
         NoHit, LInv, Typed, Calls, Places, Idle, Stages, Following
<1>2. call'[l].at \notin Transports /\ \A k \in Loops \ {l} : call'[k] = call[k]
  BY DEF StartCycle, Continue, EndCycle, CliFails, CliTimesOut, Answered, To, Failed,
         LInv, Typed, Calls, Transports, Idle
<1>3. \A t \in Transports : Calling(t)' \subseteq Calling(t)
  BY <1>2 DEF Calling
<1> QED  BY <1>1, <1>3, WithoutLimit

\* A call begins on a transport that is open, or is turned away.
LEMMA BeginPreserves ==
  ASSUME LInv, NEW l \in Loops, CallCli(l) \/ CallFallback(l) \/ CallHttp(l)
  PROVE  LInv'
<1>1. NoHit /\ call' \in [Loops -> Calls]
  BY DEF CallCli, CallFallback, CallHttp, To, Failed, TurnedAway, NoHit, LInv, Typed, Calls, Places
<1>2. /\ call'[l].at \in Transports => Open(call'[l].at)
      /\ \A k \in Loops \ {l} : call'[k] = call[k]
  BY DEF CallCli, CallFallback, CallHttp, To, Failed, LInv, Typed, Calls, Transports
<1>3. \A t \in Transports : bucket[t].left = 0 \/ Calling(t)' \subseteq Calling(t)
  BY <1>2 DEF Calling, Open
<1> QED  BY <1>1, <1>3, WithoutLimit

LEMMA LimitPreserves ==
  ASSUME LInv, NEW l \in Loops, CliLimited(l) \/ FallbackFails(l) \/ HttpEnds(l)
  PROVE  LInv'
<1>1. CASE CliLimited(l)
  <2>1. Escalated(bucket["primary"]) \in Buckets /\ Escalated(bucket["primary"]).left > 0
    BY EscalatedType DEF LInv, Typed, Transports
  <2>2. PICK where \in {"falling", "raised"} : To(l, where)
    BY <1>1 DEF CliLimited, Failed
  <2>3. "primary" \in Transports /\ where \in Places \ Transports
    BY DEF Transports, Places
  <2> QED  BY <1>1, <2>1, <2>2, <2>3, WithLimit DEF CliLimited, Hit
<1>2. CASE FallbackFails(l) /\ Hit("fallback")
  <2>1. Escalated(bucket["fallback"]) \in Buckets /\ Escalated(bucket["fallback"]).left > 0
    BY EscalatedType DEF LInv, Typed, Transports
  <2>2. "fallback" \in Transports /\ "none" \in Places \ Transports
    BY DEF Transports, Places
  <2> QED  BY <1>2, <2>1, <2>2, WithLimit DEF FallbackFails, Hit
<1>3. CASE HttpEnds(l) /\ \E pause \in HttpPauses : To(l, "none") /\ Pause(pause)
  <2>1. PICK pause \in HttpPauses : To(l, "none") /\ Pause(pause)  BY <1>3
  <2> DEFINE left == IF bucket["http"].left < pause THEN pause ELSE bucket["http"].left
             b == [bucket["http"] EXCEPT !.left = left]
  <2>2. pause \in Nat \ {0} /\ bucket["http"] \in Buckets /\ bucket["http"].left \in Nat
    BY LlmAssumption DEF LlmAssumption, LInv, Typed, Transports, Buckets
  <2>3. left \in Nat /\ left > 0  BY <2>2
  <2> HIDE DEF left
  <2>4. b \in Buckets /\ b.left > 0
    BY <2>2, <2>3 DEF Buckets
  <2>5. bucket' = [bucket EXCEPT !["http"] = b]
    BY <2>1 DEF Pause, left
  <2>6. "http" \in Transports /\ "none" \in Places \ Transports
    BY DEF Transports, Places
  <2> HIDE DEF b
  <2> QED  BY <1>3, <2>1, <2>4, <2>5, <2>6, WithLimit DEF HttpEnds, Pause
<1>4. CASE NoHit
  <2>1. call' \in [Loops -> Calls] /\ call'[l].at \notin Transports
        /\ \A k \in Loops \ {l} : call'[k] = call[k]
    BY DEF CliLimited, FallbackFails, HttpEnds, Failed, To, LInv, Typed, Calls, Places,
           Transports
  <2>2. \A t \in Transports : Calling(t)' \subseteq Calling(t)
    BY <2>1 DEF Calling
  <2> QED  BY <1>4, <2>1, <2>2, WithoutLimit
<1> QED  BY <1>1, <1>2, <1>3, <1>4 DEF FallbackFails, HttpEnds

\* Time only opens transports, and what opens has no limits on record.
LEMMA TickPreserves ==
  ASSUME LInv, Tick
  PROVE  LInv'
<1>1. /\ call' = call
      /\ bucket' = [t \in Transports |->
           [bucket[t] EXCEPT !.left = IF @ = 0 THEN 0 ELSE @ - 1,
                             !.since = IF @ = Never THEN Never ELSE @ + 1]]
      /\ hits' = [t \in Transports |-> IF bucket[t].left <= 1 THEN 0 ELSE hits[t]]
  BY DEF Tick
<1>2. Never \in Nat
  BY LlmAssumption DEF LlmAssumption, Never
<1>3. \A t \in Transports : bucket'[t] \in Buckets /\ (bucket'[t].left = 0 => hits'[t] = 0)
  <2> SUFFICES ASSUME NEW t \in Transports
               PROVE  bucket'[t] \in Buckets /\ (bucket'[t].left = 0 => hits'[t] = 0)
    OBVIOUS
  <2> DEFINE left == IF bucket[t].left = 0 THEN 0 ELSE bucket[t].left - 1
             since == IF bucket[t].since = Never THEN Never ELSE bucket[t].since + 1
  <2>1. /\ bucket[t] \in Buckets /\ bucket[t].left \in Nat /\ bucket[t].since \in Nat
    BY DEF LInv, Typed, Buckets
  <2>2. left \in Nat /\ since \in Nat /\ (left = 0 => bucket[t].left <= 1)
    BY <1>2, <2>1
  <2>3. bucket'[t] = [bucket[t] EXCEPT !.left = left, !.since = since]
    BY <1>1
  <2> HIDE DEF left, since
  <2>4. bucket'[t] \in Buckets /\ bucket'[t].left = left
    BY <2>1, <2>2, <2>3 DEF Buckets
  <2> QED  BY <1>1, <2>2, <2>4
<1>4. Typed'
  BY <1>1, <1>3 DEF LInv, Typed
<1>5. ASSUME NEW t \in Transports
      PROVE  hits'[t] + Cardinality(Calling(t)') <= Cardinality(Loops)
  <2>1. Calling(t)' = Calling(t) /\ Calling(t) \subseteq Loops
    BY <1>1 DEF Calling
  <2>2. Cardinality(Calling(t)) \in Nat
        /\ Cardinality(Calling(t)) <= Cardinality(Loops)
    BY <2>1, LoopCount
  <2>3. hits'[t] \in {0, hits[t]}  BY <1>1
  <2> QED  BY <2>1, <2>2, <2>3, LoopCount DEF LInv, Typed, HitsAreCalls
<1> QED  BY <1>3, <1>4, <1>5 DEF LInv, HitsAreCalls

-----------------------------------------------------------------------------
LEMMA LInit == Init => LInv
<1> SUFFICES ASSUME Init PROVE LInv
  OBVIOUS
<1>1. Typed
  BY LlmAssumption DEF LlmAssumption, Init, Typed, Buckets, Never, Calls, Places, Idle
<1>2. \A t \in Transports : hits[t] = 0 /\ Calling(t) \subseteq Loops
  BY DEF Init, Calling
<1> QED  BY <1>1, <1>2, LoopCount DEF LInv, HitsAreCalls

LEMMA LNext == LInv /\ [Next]_vars => LInv'
<1> SUFFICES ASSUME LInv, [Next]_vars PROVE LInv'
  OBVIOUS
<1>1. CASE Tick  BY <1>1, TickPreserves
<1>2. CASE UNCHANGED vars
  BY <1>2 DEF vars, LInv, Typed, HitsAreCalls, Calling
<1>3. CASE \E l \in Loops :
             \/ StartCycle(l) \/ Continue(l) \/ EndCycle(l) \/ CliFails(l) \/ CliTimesOut(l)
             \/ \E t \in {"primary", "fallback"} : Answered(l, t)
  BY <1>3, QuietPreserves
<1>4. CASE \E l \in Loops : CallCli(l) \/ CallFallback(l) \/ CallHttp(l)
  BY <1>4, BeginPreserves
<1>5. CASE \E l \in Loops : CliLimited(l) \/ FallbackFails(l) \/ HttpEnds(l)
  BY <1>5, LimitPreserves
<1> QED  BY <1>1, <1>2, <1>3, <1>4, <1>5 DEF Next

\* A loop that keeps asking does not prolong a cooldown: between two moments at
\* which a transport is open, each loop sets its cooldown at most once, for any
\* number of loops and any schedule (_record_llm_rate_limit_hit).
THEOREM Escalations == Spec => []EscalationsAreCalls
<1>1. LInv => EscalationsAreCalls
  <2> SUFFICES ASSUME LInv, NEW t \in Transports PROVE hits[t] <= Cardinality(Loops)
    BY DEF EscalationsAreCalls
  <2>1. Calling(t) \subseteq Loops  BY DEF Calling
  <2> QED  BY <2>1, LoopCount DEF LInv, Typed, HitsAreCalls
<1> QED  BY <1>1, LInit, LNext, PTL DEF Spec
=============================================================================
