------------------------ MODULE AdapterBudgetProofs ------------------------
(***************************************************************************)
(* The excess over a daily cap is bounded by the callers that share it,    *)
(* for any cap, any length of a run and any number of runs and midnights.  *)
(***************************************************************************)
EXTENDS AdapterBudget, FiniteSetTheorems, TLAPS

Steps == {"idle", "reading", "sending", "counting"}

Place(c) == [step : Steps, todo : Nat, queue : Seq(Range(Asked(c)))]

\* A caller between its reading and its counting has a provider in hand, which
\* is one that it asks.
Typed ==
  /\ counter \in [Providers -> Nat] /\ sent \in [Providers -> Nat]
  /\ missed \in [Providers -> Nat]
  /\ DOMAIN at = Callers
  /\ \A c \in Callers :
       /\ at[c] \in Place(c)
       /\ at[c].step \in {"sending", "counting"} => at[c].queue # <<>>

Doing(step, p) == {c \in Callers : at[c].step = step /\ Provider(c) = p}

\* What is not in the counter yet was missed or waits to be counted.
CountedOrPending ==
  \A p \in Providers :
    sent[p] <= counter[p] + missed[p] + Cardinality(Doing("counting", p))

\* Who is about to send found the counter below the cap.
SendersFit ==
  \A p \in Providers :
    /\ Doing("sending", p) # {} => Cap > 0
    /\ Sharing(p) # {} => sent[p] + Cardinality(Doing("sending", p))
                            <= Cap + Cardinality(Sharing(p)) - 1 + missed[p]

BInv == Typed /\ CountedOrPending /\ SendersFit

-----------------------------------------------------------------------------
LEMMA CallersFinite ==
  ASSUME BudgetAssumption
  PROVE  /\ IsFiniteSet(Callers)
         /\ \A S : S \subseteq Callers => IsFiniteSet(S) /\ Cardinality(S) \in Nat
<1>1. IsFiniteSet({"loop", "command", "divergence"})
  <2>1. IsFiniteSet({"loop"} \cup {"command"})
    BY FS_Singleton, FS_AddElement
  <2>2. IsFiniteSet(({"loop"} \cup {"command"}) \cup {"divergence"})
    BY <2>1, FS_AddElement
  <2>3. ({"loop"} \cup {"command"}) \cup {"divergence"} = {"loop", "command", "divergence"}
    OBVIOUS
  <2> QED  BY <2>2, <2>3
<1>2. IsFiniteSet(Callers)
  BY <1>1, FS_Subset DEF BudgetAssumption
<1> QED  BY <1>2, FS_Subset, FS_CardinalityType

LEMMA AskedOnes ==
  ASSUME NEW c \in Callers
  PROVE  /\ Asked(c) \in Seq(Range(Asked(c))) /\ Range(Asked(c)) \subseteq Providers
         /\ \A p \in Range(Asked(c)) : c \in Sharing(p)
<1>1. CASE c = "divergence"
  <2>1. Asked(c) = <<"odds_divergence">>  BY <1>1 DEF Asked
  <2>2. Range(Asked(c)) = {"odds_divergence"}  BY <2>1 DEF Range
  <2>3. Asked(c) \in Seq({"odds_divergence"})  BY <2>1
  <2> QED  BY <2>2, <2>3 DEF Providers, Sharing
<1>2. CASE c # "divergence"
  <2>1. Asked(c) = <<"odds_api", "tavily">>  BY <1>2 DEF Asked
  <2>2. Range(Asked(c)) = {"odds_api", "tavily"}  BY <2>1 DEF Range
  <2>3. Asked(c) \in Seq({"odds_api", "tavily"})  BY <2>1
  <2> QED  BY <2>2, <2>3 DEF Providers, Sharing
<1> QED  BY <1>1, <1>2

\* What becomes of a caller's place.
Alone(c) == DOMAIN at' = Callers /\ \A d \in Callers \ {c} : at'[d] = at[d]

LEMMA Moves ==
  ASSUME Typed, NEW c \in Callers, NEW s \in Steps
  PROVE  /\ at' = [at EXCEPT ![c].step = s]
              => /\ at'[c] \in Place(c) /\ at'[c].step = s
                 /\ at'[c].queue = at[c].queue /\ Alone(c)
         /\ at[c].queue # <<>> /\ at' = [at EXCEPT ![c].step = s, ![c].queue = Tail(@)]
              => /\ at'[c] \in Place(c) /\ at'[c].step = s
                 /\ at'[c].queue = Tail(at[c].queue) /\ Alone(c)
<1> DEFINE todo == at[c].todo
           queue == at[c].queue
<1>1. /\ at[c] = [step |-> at[c].step, todo |-> todo, queue |-> queue]
      /\ todo \in Nat /\ queue \in Seq(Range(Asked(c)))
  BY DEF Typed, Place
<1>2. \A q \in Seq(Range(Asked(c))) : [step |-> s, todo |-> todo, queue |-> q] \in Place(c)
  BY <1>1 DEF Place
<1>3. ASSUME at' = [at EXCEPT ![c].step = s]
      PROVE  /\ at'[c] \in Place(c) /\ at'[c].step = s
             /\ at'[c].queue = queue /\ Alone(c)
  <2>1. at'[c] = [at[c] EXCEPT !.step = s] /\ Alone(c)  BY <1>3 DEF Typed, Alone
  <2>2. at'[c] = [step |-> s, todo |-> todo, queue |-> queue]  BY <1>1, <2>1
  <2> QED  BY <1>1, <1>2, <2>1, <2>2
<1>4. ASSUME queue # <<>>, at' = [at EXCEPT ![c].step = s, ![c].queue = Tail(@)]
      PROVE  /\ at'[c] \in Place(c) /\ at'[c].step = s
             /\ at'[c].queue = Tail(queue) /\ Alone(c)
  <2>1. at'[c] = [at[c] EXCEPT !.step = s, !.queue = Tail(@)] /\ Alone(c)
    BY <1>4 DEF Typed, Alone
  <2>2. Tail(queue) \in Seq(Range(Asked(c)))  BY <1>1, <1>4
  <2>3. at'[c] = [step |-> s, todo |-> todo, queue |-> Tail(queue)]
    BY <1>1, <2>1
  <2> HIDE DEF todo
  <2> QED  BY <1>2, <2>1, <2>2, <2>3
<1> QED  BY <1>3, <1>4

\* The provider in hand.
LEMMA InHand ==
  ASSUME Typed, NEW c \in Callers, at[c].queue # <<>>
  PROVE  Provider(c) \in Providers /\ c \in Sharing(Provider(c))
<1>1. at[c].queue \in Seq(Range(Asked(c)))  BY DEF Typed, Place
<1>2. Provider(c) \in Range(Asked(c))
  BY <1>1 DEF Provider
<1> QED  BY <1>2, AskedOnes

LEMMA Doers ==
  ASSUME BudgetAssumption, Typed, NEW p \in Providers
  PROVE  /\ \A step \in {"sending", "counting"} :
              /\ Doing(step, p) \subseteq Sharing(p) /\ IsFiniteSet(Doing(step, p))
              /\ Cardinality(Doing(step, p)) \in Nat
         /\ IsFiniteSet(Sharing(p)) /\ Cardinality(Sharing(p)) \in Nat
         /\ Sharing(p) # {} => Cardinality(Sharing(p)) > 0
         /\ counter[p] \in Nat /\ sent[p] \in Nat /\ missed[p] \in Nat
         /\ Cap \in Nat /\ RunLength \in Nat
<1>1. \A step \in {"sending", "counting"} : Doing(step, p) \subseteq Sharing(p)
  BY InHand DEF Doing, Typed
<1>2. Sharing(p) \subseteq Callers  BY DEF Sharing
<1>3. IsFiniteSet(Sharing(p)) /\ Cardinality(Sharing(p)) \in Nat
  BY <1>2, CallersFinite
<1>4. Sharing(p) # {} => Cardinality(Sharing(p)) > 0
  BY <1>3, FS_EmptySet
<1>5. \A step \in {"sending", "counting"} :
        IsFiniteSet(Doing(step, p)) /\ Cardinality(Doing(step, p)) \in Nat
  BY <1>1, <1>2, CallersFinite
<1> QED  BY <1>1, <1>3, <1>4, <1>5 DEF Typed, BudgetAssumption

-----------------------------------------------------------------------------
(***************************************************************************)
(* Steps: a caller takes a provider in hand, or lets go of it.             *)
(***************************************************************************)
\* Steps outside a request leave the requests as they are.
LEMMA QuietStep ==
  ASSUME BInv, NEW c \in Callers, UNCHANGED <<counter, sent, missed>>,
         Alone(c), at'[c] \in Place(c),
         at[c].step \notin {"sending", "counting"},
         at'[c].step \notin {"sending", "counting"}
  PROVE  BInv'
<1>1. Typed'
  BY DEF BInv, Typed, Alone
<1>2. \A p \in Providers, step \in {"sending", "counting"} : Doing(step, p)' = Doing(step, p)
  BY DEF Doing, Provider, Alone
<1> QED  BY <1>1, <1>2 DEF BInv, CountedOrPending, SendersFit

LEMMA RunPreserves ==
  ASSUME BudgetAssumption, BInv, NEW c \in Callers,
         StartRun(c) \/ NextMarket(c) \/ EndRun(c)
  PROVE  BInv'
<1> DEFINE Between(r) == r \in Place(c) /\ r.step \notin {"sending", "counting"}
<1>1. ASSUME NEW n \in Nat PROVE Between(Market(c, n))
  BY AskedOnes DEF Market, Steps, Place
<1>2. Between(Rest)
  BY DEF Rest, Steps, Place
<1>3. \E r : at' = [at EXCEPT ![c] = r] /\ Between(r)
  <2>1. RunLength \in Nat  BY DEF BudgetAssumption
  <2>2. at[c].todo \in Nat  BY DEF BInv, Typed, Place
  <2>3. at[c].todo > 1 => at[c].todo - 1 \in Nat  BY <2>2
  <2> HIDE DEF Between
  <2> QED  BY <1>1, <1>2, <2>1, <2>3 DEF StartRun, NextMarket, EndRun
<1>4. /\ at[c].step \notin {"sending", "counting"}
      /\ UNCHANGED <<counter, sent, missed>>
  BY DEF StartRun, NextMarket, EndRun, Rest
<1>5. Between(at'[c]) /\ Alone(c)
  BY <1>3 DEF BInv, Typed, Alone
<1> QED  BY <1>4, <1>5, QuietStep

\* What the arithmetic of a step on provider p rests on.
LEMMA Numbers ==
  ASSUME BudgetAssumption, BInv, NEW p \in Providers
  PROVE  /\ counter[p] \in Nat /\ sent[p] \in Nat /\ missed[p] \in Nat /\ Cap \in Nat
         /\ IsFiniteSet(Sharing(p)) /\ Cardinality(Sharing(p)) \in Nat
         /\ \A step \in {"sending", "counting"} :
              /\ IsFiniteSet(Doing(step, p)) /\ Cardinality(Doing(step, p)) \in Nat
              /\ Doing(step, p) \subseteq Sharing(p)
         /\ sent[p] <= counter[p] + missed[p] + Cardinality(Doing("counting", p))
         /\ Doing("sending", p) # {} => Cap > 0
         /\ Sharing(p) # {} => sent[p] + Cardinality(Doing("sending", p))
                                 <= Cap + Cardinality(Sharing(p)) - 1 + missed[p]
BY Doers DEF BInv, CountedOrPending, SendersFit

LEMMA ReadPreserves ==
  ASSUME BudgetAssumption, BInv, NEW c \in Callers, ReadBudget(c)
  PROVE  BInv'
<1>1. /\ at[c] \in Place(c) /\ at[c].step = "reading" /\ at[c].queue # <<>>
      /\ UNCHANGED <<counter, sent, missed>>
  BY DEF ReadBudget, BInv, Typed
<1>2. PICK p \in Providers : p = Provider(c) /\ c \in Sharing(p)
  BY <1>1, InHand DEF BInv
<1>3. CASE ~Allowed(p)
  <2>1. at' = [at EXCEPT ![c].queue = Tail(@)]
    BY <1>2, <1>3 DEF ReadBudget
  <2>2. at'[c] = [at[c] EXCEPT !.queue = Tail(@)] /\ Alone(c)
    BY <2>1 DEF BInv, Typed, Alone
  <2>3. Tail(at[c].queue) \in Seq(Range(Asked(c)))  BY <1>1 DEF Place
  <2>4. at'[c] \in Place(c) /\ at'[c].step = "reading"
    BY <1>1, <2>2, <2>3 DEF Place
  <2> QED  BY <1>1, <2>2, <2>4, QuietStep
<1>4. CASE Allowed(p)
  <2> DEFINE S == Doing("sending", p) \cup {c}
             C == Doing("counting", p)
  <2>1. at' = [at EXCEPT ![c].step = "sending"]
    BY <1>2, <1>4 DEF ReadBudget
  <2>2. /\ at'[c] \in Place(c) /\ at'[c].step = "sending"
        /\ at'[c].queue = at[c].queue /\ Alone(c)
    BY <2>1, Moves DEF BInv, Steps
  <2>3. Typed'
    BY <1>1, <2>2 DEF BInv, Typed, Alone
  <2>4. \A q \in Providers : Doing("counting", q)' = Doing("counting", q)
    BY <1>1, <2>2 DEF Doing, Provider, Alone
  <2>5. /\ Doing("sending", p)' = S
        /\ \A q \in Providers \ {p} : Doing("sending", q)' = Doing("sending", q)
    BY <1>1, <1>2, <2>2 DEF Doing, Provider, Alone
  <2>6. CountedOrPending'
    BY <1>1, <2>4 DEF BInv, CountedOrPending
  <2>7. S \cup C \subseteq Sharing(p) /\ S \cap C = {}
    BY <1>1, <1>2, Numbers DEF Doing
  <2>8. counter[p] < Cap  BY <1>4 DEF Allowed
  <2> HIDE DEF S
  <2>9. Cardinality(S) + Cardinality(C) <= Cardinality(Sharing(p)) /\ Cardinality(S) \in Nat
    <3>1. IsFiniteSet(S) /\ IsFiniteSet(C)
      BY Numbers, FS_AddElement DEF S
    <3>2. Cardinality(S \cap C) = 0
      BY <2>7, FS_EmptySet
    <3>3. Cardinality(S \cup C) = Cardinality(S) + Cardinality(C) - Cardinality(S \cap C)
      BY <3>1, FS_Union
    <3>4. Cardinality(S \cup C) <= Cardinality(Sharing(p))
      BY <2>7, Numbers, FS_Subset
    <3>5. Cardinality(S) \in Nat /\ Cardinality(C) \in Nat
      BY <3>1, FS_CardinalityType
    <3> HIDE DEF C
    <3> QED  BY <3>2, <3>3, <3>4, <3>5
  <2>10. sent[p] + Cardinality(S) <= Cap + Cardinality(Sharing(p)) - 1 + missed[p] /\ Cap > 0
    BY <2>8, <2>9, Numbers
  <2>11. SendersFit'
    <3>1. \A q \in Providers : Sharing(q)' = Sharing(q)  BY DEF Sharing
    <3> QED  BY <1>1, <2>5, <2>10, <3>1 DEF BInv, SendersFit
  <2> QED  BY <2>3, <2>6, <2>11 DEF BInv
<1> QED  BY <1>3, <1>4

\* The request goes out, answered or not.
LEMMA SendPreserves ==
  ASSUME BudgetAssumption, BInv, NEW c \in Callers, Send(c) \/ SendFails(c)
  PROVE  BInv'
<1>1. /\ at[c] \in Place(c) /\ at[c].step = "sending" /\ at[c].queue # <<>>
      /\ counter' = counter
  BY DEF Send, SendFails, BInv, Typed
<1>2. PICK p \in Providers : p = Provider(c)
  BY <1>1, InHand DEF BInv
<1> DEFINE S == Doing("sending", p)
           C == Doing("counting", p)
<1>3. sent' = [sent EXCEPT ![p] = @ + 1]
  BY <1>2 DEF Send, SendFails
<1>4. at'[c].step # "sending" /\ Alone(c)
  BY <1>1, Moves DEF Send, SendFails, BInv, Steps
<1>5. \A q \in Providers \ {p} : Doing("sending", q)' = Doing("sending", q)
  BY <1>1, <1>2, <1>4 DEF Doing, Provider, Alone
<1>6. Doing("sending", p)' = S \ {c} /\ c \in S
  BY <1>1, <1>2, <1>4 DEF Doing, Provider, Alone
<1>7. Cardinality(S \ {c}) = Cardinality(S) - 1
  BY <1>6, Numbers, FS_RemoveElement
<1>8. /\ \A q \in Providers : sent'[q] = IF q = p THEN sent[q] + 1 ELSE sent[q]
      /\ sent' \in [Providers -> Nat]
  BY <1>3, Numbers DEF BInv, Typed
<1>9. CASE Send(c)
  <2>1. /\ at'[c] \in Place(c) /\ at'[c].step = "counting" /\ at'[c].queue = at[c].queue
        /\ missed' = missed
    BY <1>9, Moves DEF Send, BInv, Steps
  <2>2. Typed'  BY <1>1, <1>4, <1>8, <2>1 DEF BInv, Typed, Alone
  <2>3. /\ Doing("counting", p)' = C \cup {c} /\ c \notin C
        /\ \A q \in Providers \ {p} : Doing("counting", q)' = Doing("counting", q)
    BY <1>1, <1>2, <1>4, <2>1 DEF Doing, Provider, Alone
  <2>4. Cardinality(C \cup {c}) = Cardinality(C) + 1
    BY <2>3, Numbers, FS_AddElement
  <2> HIDE DEF S, C
  <2>5. sent[p] + 1 <= counter[p] + missed[p] + Cardinality(C \cup {c})
    BY <2>4, Numbers DEF C
  <2>6. CountedOrPending'
    BY <1>1, <1>8, <2>1, <2>3, <2>5 DEF BInv, CountedOrPending
  <2>7. Sharing(p) # {} => sent[p] + 1 + Cardinality(S \ {c})
                              <= Cap + Cardinality(Sharing(p)) - 1 + missed[p]
    BY <1>7, Numbers DEF S
  <2>8. SendersFit'
    BY <1>5, <1>6, <1>8, <2>1, <2>7, Numbers DEF BInv, SendersFit, Sharing, S
  <2> QED  BY <2>2, <2>6, <2>8 DEF BInv
<1>10. CASE SendFails(c)
  <2>1. /\ at'[c] \in Place(c) /\ at'[c].step = "reading"
        /\ missed' = [missed EXCEPT ![p] = @ + 1]
    BY <1>1, <1>2, <1>10, Moves DEF SendFails, BInv, Steps
  <2>2. /\ \A q \in Providers : missed'[q] = IF q = p THEN missed[q] + 1 ELSE missed[q]
        /\ missed' \in [Providers -> Nat]
    BY <2>1, Numbers DEF BInv, Typed
  <2>3. Typed'  BY <1>1, <1>4, <1>8, <2>1, <2>2 DEF BInv, Typed, Alone
  <2>4. \A q \in Providers : Doing("counting", q)' = Doing("counting", q)
    BY <1>1, <1>4, <2>1 DEF Doing, Alone, Provider
  <2> HIDE DEF S, C
  <2>5. sent[p] + 1 <= counter[p] + missed[p] + 1 + Cardinality(C)
    BY Numbers DEF C
  <2>6. CountedOrPending'
    <3>1. \A q \in Providers : sent'[q] <= counter[q] + missed'[q] + Cardinality(Doing("counting", q))
      BY <1>8, <2>2, <2>5, Numbers DEF C
    <3> QED  BY <1>1, <2>4, <3>1 DEF CountedOrPending
  <2>7. Sharing(p) # {} => sent[p] + 1 + Cardinality(S \ {c})
                              <= Cap + Cardinality(Sharing(p)) - 1 + missed[p] + 1
    BY <1>7, Numbers DEF S
  <2>8. SendersFit'
    <3>1. \A q \in Providers :
            /\ Doing("sending", q)' # {} => Cap > 0
            /\ Sharing(q) # {} => sent'[q] + Cardinality(Doing("sending", q)')
                                    <= Cap + Cardinality(Sharing(q)) - 1 + missed'[q]
      <4> SUFFICES ASSUME NEW q \in Providers
                   PROVE  /\ Doing("sending", q)' # {} => Cap > 0
                          /\ Sharing(q) # {} =>
                               sent'[q] + Cardinality(Doing("sending", q)')
                                 <= Cap + Cardinality(Sharing(q)) - 1 + missed'[q]
        OBVIOUS
      <4>1. CASE q = p
        <5>1. Cap > 0  BY <1>6, Numbers DEF S
        <5>2. sent'[q] = sent[p] + 1 /\ missed'[q] = missed[p] + 1
          BY <1>8, <2>2, <4>1
        <5>3. Cardinality(S \ {c}) \in Int  BY <1>7, Numbers DEF S
        <5>4. Sharing(p) # {} => sent[p] + 1 + Cardinality(S \ {c})
                <= Cap + Cardinality(Sharing(p)) - 1 + (missed[p] + 1)
          BY <2>7, <5>3, Numbers
        <5> QED  BY <1>6, <4>1, <5>1, <5>2, <5>4
      <4>2. CASE q # p
        BY <1>5, <1>8, <2>2, <4>2, Numbers
      <4> QED  BY <4>1, <4>2
    <3>2. \A q \in Providers : Sharing(q)' = Sharing(q)  BY DEF Sharing
    <3> QED  BY <3>1, <3>2 DEF SendersFit
  <2> QED  BY <2>3, <2>6, <2>8 DEF BInv
<1> QED  BY <1>9, <1>10

\* The answered request is counted, or is not.
LEMMA CountPreserves ==
  ASSUME BudgetAssumption, BInv, NEW c \in Callers, Count(c) \/ CountFails(c)
  PROVE  BInv'
<1>1. /\ at[c].step = "counting" /\ at[c].queue # <<>> /\ sent' = sent
      /\ at' = [at EXCEPT ![c].step = "reading", ![c].queue = Tail(@)]
  BY DEF Count, CountFails, BInv, Typed
<1>2. PICK p \in Providers : p = Provider(c)
  BY <1>1, InHand DEF BInv
<1> DEFINE C == Doing("counting", p)
<1>3. \/ counter' = [counter EXCEPT ![p] = @ + 1] /\ missed' = missed
      \/ missed' = [missed EXCEPT ![p] = @ + 1] /\ counter' = counter
  BY <1>2 DEF Count, CountFails
<1>4. /\ at'[c] \in Place(c) /\ at'[c].step = "reading" /\ Alone(c)
  BY <1>1, Moves DEF BInv, Steps
<1>5. /\ \A q \in Providers \ {p} : Doing("counting", q)' = Doing("counting", q)
      /\ \A q \in Providers : Doing("sending", q)' = Doing("sending", q)
      /\ Doing("counting", p)' = C \ {c} /\ c \in C
  BY <1>1, <1>2, <1>4 DEF Doing, Provider, Alone
<1>6. Cardinality(C \ {c}) = Cardinality(C) - 1
  BY <1>5, Numbers, FS_RemoveElement
<1>7. counter' \in [Providers -> Nat] /\ missed' \in [Providers -> Nat]
  <2>1. counter \in [Providers -> Nat] /\ missed \in [Providers -> Nat]
    BY DEF BInv, Typed
  <2>2. counter[p] + 1 \in Nat /\ missed[p] + 1 \in Nat  BY Numbers
  <2> QED  BY <1>3, <2>1, <2>2
<1>8. /\ counter'[p] + missed'[p] = counter[p] + missed[p] + 1
      /\ \A q \in Providers : missed[q] <= missed'[q]
      /\ \A q \in Providers \ {p} : counter'[q] = counter[q] /\ missed'[q] = missed[q]
  <2>1. \/ /\ \A q \in Providers : counter'[q] = IF q = p THEN counter[q] + 1 ELSE counter[q]
           /\ missed' = missed
        \/ /\ \A q \in Providers : missed'[q] = IF q = p THEN missed[q] + 1 ELSE missed[q]
           /\ counter' = counter
    BY <1>3 DEF BInv, Typed
  <2> QED  BY <2>1, Numbers
<1>9. Typed'  BY <1>1, <1>4, <1>7 DEF BInv, Typed, Alone
<1>10. sent[p] <= counter'[p] + missed'[p] + Cardinality(C \ {c})
  <2> HIDE DEF C
  <2> QED  BY <1>6, <1>8, Numbers DEF C
<1>11. CountedOrPending'
  BY <1>1, <1>5, <1>8, <1>10 DEF BInv, CountedOrPending
<1>12. SendersFit'
  <2> SUFFICES ASSUME NEW q \in Providers, Sharing(q) # {}
               PROVE  sent[q] + Cardinality(Doing("sending", q))
                        <= Cap + Cardinality(Sharing(q)) - 1 + missed'[q]
    BY <1>1, <1>5, Numbers DEF SendersFit, Sharing
  <2>1. missed'[q] \in Nat /\ missed[q] <= missed'[q]  BY <1>7, <1>8
  <2> QED  BY <2>1, Numbers
<1> QED  BY <1>9, <1>11, <1>12 DEF BInv

\* The day starts from nothing, except for what is on its way.
LEMMA MidnightPreserves ==
  ASSUME BudgetAssumption, BInv, Midnight
  PROVE  BInv'
<1>1. /\ at' = at /\ \A p \in Providers : counter'[p] = 0 /\ sent'[p] = 0 /\ missed'[p] = 0
  BY DEF Midnight
<1>2. Typed'  BY <1>1 DEF Midnight, BInv, Typed
<1>3. \A p \in Providers, step \in {"sending", "counting"} : Doing(step, p)' = Doing(step, p)
  BY <1>1 DEF Doing, Provider
<1>4. CountedOrPending'
  <2>1. \A p \in Providers : 0 <= 0 + 0 + Cardinality(Doing("counting", p))
    BY Numbers
  <2> QED  BY <1>1, <1>3, <2>1 DEF CountedOrPending
<1>5. SendersFit'
  <2>1. ASSUME NEW p \in Providers, Sharing(p) # {}
        PROVE  0 + Cardinality(Doing("sending", p)) <= Cap + Cardinality(Sharing(p)) - 1 + 0
    <3>1. Cardinality(Doing("sending", p)) <= Cardinality(Sharing(p))
      BY Numbers, FS_Subset
    <3>2. Doing("sending", p) = {} => Cardinality(Doing("sending", p)) = 0
      BY FS_EmptySet
    <3>3. Cardinality(Sharing(p)) > 0
      BY <2>1, Doers DEF BInv
    <3> QED  BY <3>1, <3>2, <3>3, Numbers
  <2>2. \A p \in Providers : Sharing(p)' = Sharing(p)  BY DEF Sharing
  <2> QED  BY <1>1, <1>3, <2>1, <2>2, Numbers DEF SendersFit
<1> QED  BY <1>2, <1>4, <1>5 DEF BInv

-----------------------------------------------------------------------------
LEMMA BInit == BudgetAssumption /\ Init => BInv
<1> SUFFICES ASSUME BudgetAssumption, Init PROVE BInv
  OBVIOUS
<1>1. Typed
  <2>1. \A c \in Callers : Rest \in Place(c)  BY DEF Rest, Place, Steps
  <2> QED  BY <2>1 DEF Init, Typed, Rest
<1>2. \A p \in Providers, step \in {"sending", "counting"} : Doing(step, p) = {}
  BY DEF Init, Doing, Rest
<1>3. \A p \in Providers : sent[p] = 0 /\ counter[p] = 0 /\ missed[p] = 0
  BY DEF Init
<1> QED  BY <1>1, <1>2, <1>3, Doers, FS_EmptySet DEF BInv, CountedOrPending, SendersFit

LEMMA BNext == BudgetAssumption /\ BInv /\ [Next]_vars => BInv'
<1> SUFFICES ASSUME BudgetAssumption, BInv, [Next]_vars PROVE BInv'
  OBVIOUS
<1>1. CASE Midnight  BY <1>1, MidnightPreserves
<1>2. CASE UNCHANGED vars
  <2>1. Typed'  BY <1>2 DEF vars, BInv, Typed
  <2>2. \A p, step : Doing(step, p)' = Doing(step, p)
    BY <1>2 DEF vars, Doing, Provider
  <2> QED  BY <1>2, <2>1, <2>2 DEF vars, BInv, CountedOrPending, SendersFit, Sharing
<1>3. ASSUME NEW c \in Callers, StartRun(c) \/ NextMarket(c) \/ EndRun(c)
      PROVE  BInv'
  BY <1>3, RunPreserves
<1>4. ASSUME NEW c \in Callers, ReadBudget(c) PROVE BInv'
  BY <1>4, ReadPreserves
<1>5. ASSUME NEW c \in Callers, Send(c) \/ SendFails(c) PROVE BInv'
  BY <1>5, SendPreserves
<1>6. ASSUME NEW c \in Callers, Count(c) \/ CountFails(c) PROVE BInv'
  BY <1>6, CountPreserves
<1> QED  BY <1>1, <1>2, <1>3, <1>4, <1>5, <1>6 DEF Next

\* Whatever the programs that share a provider interleave, a day's requests
\* pass its cap by fewer than there are of them, and by those that were never
\* counted (adapter_budget_allowed, adapter_budget_increment).
THEOREM BudgetBound ==
  ASSUME BudgetAssumption
  PROVE  Spec => []BudgetKept
<1>1. BInv => BudgetKept
  <2> SUFFICES ASSUME BInv, NEW p \in Providers, Sharing(p) # {}
               PROVE  sent[p] <= Cap + Cardinality(Sharing(p)) - 1 + missed[p]
    BY DEF BudgetKept
  <2> QED  BY Doers DEF BInv, SendersFit
<1> QED  BY <1>1, BInit, BNext, PTL DEF Spec
=============================================================================
