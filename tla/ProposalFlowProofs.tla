------------------------- MODULE ProposalFlowProofs -------------------------
(***************************************************************************)
(* FInv is an invariant of ProposalFlow for every set of proposals and     *)
(* every number of crashes and lock time-outs, and the safety properties   *)
(* follow from it.  One lemma per action, with one step per conjunct that  *)
(* the action can disturb; those that need contents not to recur assume it.*)
(***************************************************************************)
EXTENDS ProposalFlowInv, TLAPS

USE DEF tableVars, proposeVars, executeVars, askVars, Terminal, Status, Row,
        Absent, Verdicts, May, Answered, Seen, With, MayWrite, Put,
        PutAndCommit, Commit, TimesOut

-----------------------------------------------------------------------------
\* The propose loop: _loop_propose, run_proposal_pipeline.

LEMMA StartSweepPreserves ==
  ASSUME FInv, StartSweep
  PROVE  FInv'
<1>1. TypeOK'  BY DEF FInv, TypeOK, StartSweep
<1>2. InHand'  BY DEF FInv, InHand, StartSweep
<1>3. ASSUME ~Regenerate PROVE ProposeHolds'
  BY <1>3 DEF FInv, InHand, ProposeHolds, StartSweep
<1>4. /\ NothingPending' /\ Grants' /\ ActiveIsClosed' /\ DecisionStands'
  BY DEF FInv, InHand, NothingPending, Grants, ActiveIsClosed,
     DecisionStands, OrdersAreGranted, StartSweep
<1>5. ASSUME ~Regenerate
      PROVE  /\ Uncommitted' /\ ExpiryHolds' /\ ExecuteHolds'
  BY <1>5 DEF FInv, Uncommitted, ExpiryHolds, ExecuteHolds, StartSweep
<1>6. ASSUME ~Regenerate PROVE AskHolds'
  BY <1>6 DEF FInv, TypeOK, NothingPending, Uncommitted, AskHolds,
     StartSweep
<1> QED  BY <1>1, <1>2, <1>3, <1>4, <1>5, <1>6 DEF FInv

LEMMA AssessPreserves ==
  ASSUME NEW p \in Proposals, FInv, Assess(p)
  PROVE  FInv'
<1>1. TypeOK'  BY FlowAssumption DEF FInv, TypeOK, Assess
<1>2. InHand'  BY DEF FInv, InHand, Assessing, Assess
<1>3. NothingPending'  BY DEF FInv, NothingPending, Assess
<1>4. Grants'  BY DEF FInv, TypeOK, Grants, OrdersAreGranted, Assess
<1>5. ASSUME ~Regenerate PROVE Uncommitted'
  BY <1>5 DEF FInv, TypeOK, Uncommitted, Assess
<1>6. ASSUME ~Regenerate PROVE ProposeHolds'
  BY <1>6 DEF FInv, TypeOK, ProposeHolds, Assess
<1>7. ASSUME ~Regenerate PROVE ExpiryHolds'
  BY <1>7 DEF FInv, TypeOK, ExpiryHolds, Assess
<1>8. ASSUME ~Regenerate PROVE ExecuteHolds'
  BY <1>8 DEF FInv, ExecuteHolds, Assess
<1>9. ActiveIsClosed'  BY DEF FInv, ActiveIsClosed, Assess
<1>10. DecisionStands'  BY DEF FInv, DecisionStands, Assess
<1>11. ASSUME ~Regenerate PROVE AskHolds'
  BY <1>11 DEF FInv, TypeOK, NothingPending, Uncommitted, AskHolds,
     Assess
<1> QED  BY <1>1, <1>2, <1>3, <1>4, <1>5, <1>6, <1>7, <1>8, <1>9, <1>10, <1>11
        DEF FInv

LEMMA UpsertPreserves ==
  ASSUME NEW p \in Proposals, FInv, Upsert(p)
  PROVE  FInv'
<1>1. TypeOK'  BY DEF FInv, TypeOK, Upsert
<1>2. InHand'  BY DEF FInv, InHand, Upsert
<1>3. NothingPending'  BY DEF FInv, NothingPending, Upsert
<1>4. Grants'  BY DEF FInv, Grants, Assessing, OrdersAreGranted, Upsert
<1>5. ASSUME ~Regenerate PROVE Uncommitted'
  BY <1>5 DEF FInv, Uncommitted, Assessing, OrdersAreGranted, Upsert
<1>6. ASSUME ~Regenerate PROVE ProposeHolds'
  BY <1>6 DEF FInv, TypeOK, ProposeHolds, Assessing, Upsert
<1>7. ASSUME ~Regenerate PROVE ExpiryHolds'
  BY <1>7 DEF FInv, TypeOK, Uncommitted, ExpiryHolds, Upsert
<1>8. ASSUME ~Regenerate PROVE ExecuteHolds'
  BY <1>8 DEF FInv, TypeOK, Grants, Uncommitted, ExecuteHolds,
     OrdersAreGranted, Upsert
<1>9. ActiveIsClosed'
  BY DEF FInv, TypeOK, Uncommitted, ActiveIsClosed, Upsert
<1>10. DecisionStands'  BY DEF FInv, Uncommitted, DecisionStands, Upsert
<1>11. ASSUME ~Regenerate PROVE AskHolds'
  BY <1>11 DEF FInv, TypeOK, NothingPending, Uncommitted, AskHolds,
     Upsert
<1> QED  BY <1>1, <1>2, <1>3, <1>4, <1>5, <1>6, <1>7, <1>8, <1>9, <1>10, <1>11
        DEF FInv

LEMMA ReadBackPreserves ==
  ASSUME FInv, ReadBack
  PROVE  FInv'
<1>1. TypeOK'  BY DEF FInv, TypeOK, InHand, ReadBack
<1>2. InHand'  BY DEF FInv, InHand, ReadBack
<1>3. Grants'
  BY DEF FInv, InHand, Grants, Assessing, OrdersAreGranted, ReadBack
<1>4. ASSUME ~Regenerate PROVE ProposeHolds'
  BY <1>4 DEF FInv, ProposeHolds, Assessing, OrdersAreGranted, ReadBack
<1>5. /\ NothingPending' /\ ActiveIsClosed' /\ DecisionStands'
  BY DEF FInv, NothingPending, ActiveIsClosed, DecisionStands, ReadBack
<1>6. ASSUME ~Regenerate
      PROVE  /\ Uncommitted' /\ ExpiryHolds' /\ ExecuteHolds'
  BY <1>6 DEF FInv, Uncommitted, ExpiryHolds, ExecuteHolds, ReadBack
<1>7. ASSUME ~Regenerate PROVE AskHolds'
  BY <1>7 DEF FInv, TypeOK, InHand, Uncommitted, AskHolds,
     ProposeHolds, ReadBack
<1> QED  BY <1>1, <1>2, <1>3, <1>4, <1>5, <1>6, <1>7 DEF FInv

\* What WriteBack writes, and where it shows.
LEMMA WriteBackWrites ==
  ASSUME FInv, WriteBack
  PROVE  \E r \in Row :
           /\ r.status = IF ppc = "pipe" THEN seen.status ELSE verdict
           /\ r.asked = seen.asked
           /\ draft' = [q \in Proposals |->
                          IF q = pp THEN r ELSE Seen("propose")[q]]
           /\ row' = IF ppc = "pipe" THEN draft' ELSE row
           /\ writer' = IF ppc = "pipe" THEN "none" ELSE "propose"
<1>1. seen \in Row /\ verdict \in Status /\ pp \in Proposals
  BY DEF FInv, TypeOK, InHand, WriteBack
<1>2. /\ DOMAIN Seen("propose") = Proposals
  BY DEF FInv, TypeOK
<1>3. CASE ppc = "pipe"
  BY <1>1, <1>2, <1>3 DEF WriteBack
<1>4. CASE ppc # "pipe"
  <2>1. [seen EXCEPT !.status = verdict] \in Row
    BY <1>1
  <2>2. /\ [seen EXCEPT !.status = verdict].status = verdict
        /\ [seen EXCEPT !.status = verdict].asked = seen.asked
    BY <1>1
  <2> QED  BY <1>1, <1>2, <1>4, <2>1, <2>2 DEF WriteBack
<1> QED  BY <1>3, <1>4

LEMMA WriteBackPreserves ==
  ASSUME FInv, WriteBack
  PROVE  FInv'
<1>1. PICK r \in Row :
        /\ r.status = IF ppc = "pipe" THEN seen.status ELSE verdict
        /\ r.asked = seen.asked
        /\ draft' = [q \in Proposals |->
                       IF q = pp THEN r ELSE Seen("propose")[q]]
        /\ row' = IF ppc = "pipe" THEN draft' ELSE row
        /\ writer' = IF ppc = "pipe" THEN "none" ELSE "propose"
  BY WriteBackWrites
<1>2. /\ pstep = "write" /\ writer \in {"none", "propose"}
      /\ pstep' = "pick" /\ pp' = NoProposal
      /\ seen' = Absent /\ verdict' = "none"
      /\ UNCHANGED <<ppc, todo, batch>>
      /\ UNCHANGED <<active, elist, executeVars, askVars, granted, faults>>
  BY DEF WriteBack
<1>3. TypeOK'  BY <1>1, <1>2 DEF FInv, TypeOK
<1>4. InHand'  BY <1>2 DEF InHand
<1>5. NothingPending'  BY <1>1, <1>2 DEF FInv, NothingPending
<1>6. Grants'
  BY <1>1, <1>2 DEF FInv, TypeOK, InHand, Grants, OrdersAreGranted, Assessing
<1>7. ASSUME ~Regenerate
      PROVE  /\ Seen("propose")[pp].status = "proposed"
             /\ r.status \in Verdicts \cup {"proposed"}
             /\ ppc # "pipe" => r.status \in Verdicts
             /\ ppc = "pipe" => r.status = "proposed"
             /\ row[pp].status = "proposed" /\ pp \in Proposals
  BY <1>1, <1>2, <1>7 DEF FInv, InHand, ProposeHolds, Uncommitted,
     NothingPending, Assessing
<1>8. ASSUME ~Regenerate PROVE Uncommitted'
  BY <1>1, <1>2, <1>7, <1>8 DEF FInv, TypeOK, Uncommitted, NothingPending
<1>9. ASSUME ~Regenerate PROVE ProposeHolds'
  BY <1>1, <1>2, <1>7, <1>9 DEF FInv, TypeOK, InHand, ProposeHolds, Assessing
<1>10. ASSUME ~Regenerate PROVE ExpiryHolds'
  BY <1>1, <1>2, <1>7, <1>10 DEF FInv, TypeOK, ExpiryHolds, Uncommitted,
     NothingPending
<1>11. ASSUME ~Regenerate PROVE ExecuteHolds'
  BY <1>1, <1>2, <1>7, <1>11 DEF FInv, TypeOK, ExecuteHolds, Uncommitted,
     NothingPending, Grants, OrdersAreGranted
<1>12. ActiveIsClosed'
  BY <1>1, <1>2, <1>7 DEF FInv, TypeOK, ActiveIsClosed, Uncommitted,
     NothingPending
<1>13. DecisionStands'
  BY <1>1, <1>2, <1>7 DEF FInv, TypeOK, DecisionStands, Uncommitted,
     NothingPending
<1>14. ASSUME ~Regenerate PROVE AskHolds'
  <2>1. pp \notin sent /\ ~r.asked
    BY <1>1, <1>2, <1>7, <1>14 DEF FInv, AskHolds
  <2>2. r.status \in Verdicts \cup {"proposed"} /\ pp \in Proposals
    BY <1>7, <1>14
  <2>3. \A q \in Proposals :
          /\ \/ draft'[q] = row[q] \/ q = pp
             \/ /\ row[q].status = "proposed"
                /\ draft'[q].status \in Verdicts /\ draft'[q] = draft[q]
          /\ row'[q] = row[q] \/ row'[q] = draft'[q]
    BY <1>1, <1>2, <1>14 DEF FInv, TypeOK, NothingPending, Uncommitted
  <2> QED
    BY <1>1, <1>2, <1>7, <1>14, <2>1, <2>2, <2>3
    DEF FInv, TypeOK, NothingPending, AskHolds
<1> QED
  BY <1>3, <1>4, <1>5, <1>6, <1>8, <1>9, <1>10, <1>11, <1>12, <1>13,
     <1>14 DEF FInv

LEMMA CallModelPreserves ==
  ASSUME FInv, CallModel
  PROVE  FInv'
<1>1. TypeOK'  BY DEF FInv, TypeOK, CallModel
<1>2. InHand'  BY DEF FInv, InHand, CallModel
<1>3. ASSUME ~Regenerate PROVE ProposeHolds'
  BY <1>3 DEF FInv, ProposeHolds, CallModel
<1>4. /\ NothingPending' /\ Grants' /\ ActiveIsClosed' /\ DecisionStands'
  BY DEF FInv, NothingPending, Grants, ActiveIsClosed, DecisionStands,
     OrdersAreGranted, CallModel
<1>5. ASSUME ~Regenerate
      PROVE  /\ Uncommitted' /\ ExpiryHolds' /\ ExecuteHolds'
  BY <1>5 DEF FInv, Uncommitted, ExpiryHolds, ExecuteHolds, CallModel
<1>6. ASSUME ~Regenerate PROVE AskHolds'
  BY <1>6 DEF FInv, TypeOK, NothingPending, Uncommitted, AskHolds,
     CallModel
<1> QED  BY <1>1, <1>2, <1>3, <1>4, <1>5, <1>6 DEF FInv

LEMMA ModelAnswersPreserves ==
  ASSUME FInv, ModelAnswers
  PROVE  FInv'
<1>1. TypeOK'  BY DEF FInv, TypeOK, ModelAnswers
<1>2. InHand'  BY DEF FInv, InHand, ModelAnswers
<1>3. NothingPending'  BY DEF FInv, NothingPending, ModelAnswers
<1>4. Grants'  BY DEF FInv, Grants, Assessing, OrdersAreGranted, ModelAnswers
<1>5. ASSUME ~Regenerate PROVE Uncommitted'
  BY <1>5 DEF FInv, Uncommitted, Assessing, OrdersAreGranted, ModelAnswers
<1>6. ASSUME ~Regenerate PROVE ProposeHolds'
  BY <1>6 DEF FInv, InHand, Uncommitted, ProposeHolds, Assessing,
     ModelAnswers
<1>7. ASSUME ~Regenerate PROVE ExpiryHolds'
  BY <1>7 DEF FInv, TypeOK, Uncommitted, ExpiryHolds, ModelAnswers
<1>8. ASSUME ~Regenerate PROVE ExecuteHolds'
  BY <1>8 DEF FInv, TypeOK, Grants, Uncommitted, ExecuteHolds,
     OrdersAreGranted, ModelAnswers
<1>9. ActiveIsClosed'
  BY DEF FInv, TypeOK, Uncommitted, ActiveIsClosed, ModelAnswers
<1>10. DecisionStands'
  BY DEF FInv, Uncommitted, DecisionStands, ModelAnswers
<1>11. ASSUME ~Regenerate PROVE AskHolds'
  BY <1>11 DEF FInv, TypeOK, NothingPending, Uncommitted, AskHolds,
     ModelAnswers
<1> QED  BY <1>1, <1>2, <1>3, <1>4, <1>5, <1>6, <1>7, <1>8, <1>9, <1>10, <1>11
        DEF FInv

LEMMA AssessBatchPreserves ==
  ASSUME FInv, AssessBatch
  PROVE  FInv'
<1>1. TypeOK'  BY DEF FInv, TypeOK, AssessBatch
<1>2. InHand'  BY DEF FInv, InHand, AssessBatch
<1>3. ASSUME ~Regenerate PROVE ProposeHolds'
  BY <1>3 DEF FInv, ProposeHolds, AssessBatch
<1>4. /\ NothingPending' /\ Grants' /\ ActiveIsClosed' /\ DecisionStands'
  BY DEF FInv, NothingPending, Grants, ActiveIsClosed, DecisionStands,
     OrdersAreGranted, AssessBatch
<1>5. ASSUME ~Regenerate
      PROVE  /\ Uncommitted' /\ ExpiryHolds' /\ ExecuteHolds'
  BY <1>5 DEF FInv, Uncommitted, ExpiryHolds, ExecuteHolds, AssessBatch
<1>6. ASSUME ~Regenerate PROVE AskHolds'
  BY <1>6 DEF FInv, TypeOK, NothingPending, Uncommitted, AskHolds,
     AssessBatch
<1> QED  BY <1>1, <1>2, <1>3, <1>4, <1>5, <1>6 DEF FInv

LEMMA SweepAgainPreserves ==
  ASSUME FInv, SweepAgain
  PROVE  FInv'
<1>1. TypeOK'  BY DEF FInv, TypeOK, SweepAgain
<1>2. InHand'  BY DEF FInv, InHand, SweepAgain
<1>3. ASSUME ~Regenerate PROVE ProposeHolds'
  BY <1>3 DEF FInv, ProposeHolds, SweepAgain
<1>4. /\ NothingPending' /\ Grants' /\ ActiveIsClosed' /\ DecisionStands'
  BY DEF FInv, NothingPending, Grants, ActiveIsClosed, DecisionStands,
     OrdersAreGranted, SweepAgain
<1>5. ASSUME ~Regenerate
      PROVE  /\ Uncommitted' /\ ExpiryHolds' /\ ExecuteHolds'
  BY <1>5 DEF FInv, Uncommitted, ExpiryHolds, ExecuteHolds, SweepAgain
<1>6. ASSUME ~Regenerate PROVE AskHolds'
  BY <1>6 DEF FInv, TypeOK, NothingPending, Uncommitted, AskHolds,
     SweepAgain
<1> QED  BY <1>1, <1>2, <1>3, <1>4, <1>5, <1>6 DEF FInv

LEMMA EndProposeTickPreserves ==
  ASSUME FInv, EndProposeTick
  PROVE  FInv'
<1>1. TypeOK'  BY DEF FInv, TypeOK, EndProposeTick
<1>2. InHand'  BY DEF FInv, InHand, EndProposeTick
<1>3. NothingPending'  BY DEF FInv, NothingPending, EndProposeTick
<1>4. Grants'  BY DEF FInv, Grants, OrdersAreGranted, EndProposeTick
<1>5. ASSUME ~Regenerate PROVE Uncommitted'
  BY <1>5 DEF FInv, Uncommitted, EndProposeTick
<1>6. ASSUME ~Regenerate PROVE ProposeHolds'
  BY <1>6 DEF FInv, ProposeHolds, EndProposeTick
<1>7. ASSUME ~Regenerate PROVE ExpiryHolds'
  BY <1>7 DEF FInv, TypeOK, Uncommitted, ExpiryHolds, EndProposeTick
<1>8. ASSUME ~Regenerate PROVE ExecuteHolds'
  BY <1>8 DEF FInv, TypeOK, Grants, Uncommitted, ExecuteHolds,
     OrdersAreGranted, EndProposeTick
<1>9. ActiveIsClosed'
  BY DEF FInv, TypeOK, Uncommitted, ActiveIsClosed, EndProposeTick
<1>10. DecisionStands'
  BY DEF FInv, Uncommitted, DecisionStands, EndProposeTick
<1>11. ASSUME ~Regenerate PROVE AskHolds'
  BY <1>11 DEF FInv, TypeOK, NothingPending, Uncommitted, AskHolds,
     EndProposeTick
<1> QED  BY <1>1, <1>2, <1>3, <1>4, <1>5, <1>6, <1>7, <1>8, <1>9, <1>10, <1>11
        DEF FInv

LEMMA ProposeTimesOutPreserves ==
  ASSUME FInv, ProposeTimesOut
  PROVE  FInv'
<1>1. TypeOK'  BY FlowAssumption DEF FInv, TypeOK, ProposeTimesOut
<1>2. InHand'  BY DEF FInv, InHand, ProposeTimesOut
<1>3. Grants'  BY DEF FInv, Grants, OrdersAreGranted, ProposeTimesOut
<1>4. ASSUME ~Regenerate PROVE ProposeHolds'
  BY <1>4 DEF FInv, ProposeHolds, ProposeTimesOut
<1>5. /\ NothingPending' /\ ActiveIsClosed' /\ DecisionStands'
  BY DEF FInv, NothingPending, ActiveIsClosed, DecisionStands,
     ProposeTimesOut
<1>6. ASSUME ~Regenerate
      PROVE  /\ Uncommitted' /\ ExpiryHolds' /\ ExecuteHolds'
  BY <1>6 DEF FInv, Uncommitted, ExpiryHolds, ExecuteHolds,
     ProposeTimesOut
<1>7. ASSUME ~Regenerate PROVE AskHolds'
  BY <1>7 DEF FInv, TypeOK, NothingPending, Uncommitted, AskHolds,
     ProposeTimesOut
<1> QED  BY <1>1, <1>2, <1>3, <1>4, <1>5, <1>6, <1>7 DEF FInv

-----------------------------------------------------------------------------
\* The expiry loop: _loop_expiry.

LEMMA ListExpiredPreserves ==
  ASSUME FInv, ListExpired
  PROVE  FInv'
<1>1. TypeOK'  BY DEF FInv, TypeOK, ListExpired
<1>2. ASSUME ~Regenerate PROVE ExpiryHolds'
  BY <1>2 DEF FInv, NothingPending, Uncommitted, ExpiryHolds, ExecuteHolds,
     ListExpired
<1>3. /\ InHand' /\ NothingPending' /\ Grants' /\ ActiveIsClosed'
      /\ DecisionStands'
  BY DEF FInv, InHand, NothingPending, Grants, ActiveIsClosed,
     DecisionStands, Assessing, OrdersAreGranted, ListExpired
<1>4. ASSUME ~Regenerate
      PROVE  /\ Uncommitted' /\ ProposeHolds' /\ ExecuteHolds'
  BY <1>4 DEF FInv, Uncommitted, ProposeHolds, ExecuteHolds, Assessing,
     ListExpired
<1>5. ASSUME ~Regenerate PROVE AskHolds'
  BY <1>5 DEF FInv, TypeOK, NothingPending, Uncommitted, AskHolds,
     ListExpired
<1> QED  BY <1>1, <1>2, <1>3, <1>4, <1>5 DEF FInv

\* What Expire writes, and where it shows.
LEMMA ExpireWrites ==
  ASSUME NEW p \in Proposals, FInv, Expire(p)
  PROVE  /\ writer \in {"none", "expiry"} /\ p \in elist
         /\ \E r \in Row :
              /\ r.status = "expired" /\ r.asked = Seen("expiry")[p].asked
              /\ draft' = [q \in Proposals |->
                             IF q = p THEN r ELSE Seen("expiry")[q]]
         /\ \/ row' = draft' /\ writer' = "none"
            \/ row' = row /\ writer' = "expiry"
         /\ elist' = elist \ {p}
         /\ UNCHANGED <<active, proposeVars, executeVars, askVars, granted,
                        faults>>
<1> DEFINE r == [Seen("expiry")[p] EXCEPT !.status = "expired"]
<1>1. /\ Seen("expiry") \in [Proposals -> Row]
  BY DEF FInv, TypeOK
<1>2. /\ r \in Row /\ r.status = "expired" /\ r.asked = Seen("expiry")[p].asked
  BY <1>1
<1>3. draft' = [Seen("expiry") EXCEPT ![p] = r]
  BY DEF Expire
<1>4. draft' = [q \in Proposals |-> IF q = p THEN r ELSE Seen("expiry")[q]]
  BY <1>1, <1>3
<1>5. /\ writer \in {"none", "expiry"} /\ p \in elist
      /\ \/ row' = draft' /\ writer' = "none"
         \/ row' = row /\ writer' = "expiry"
      /\ elist' = elist \ {p}
      /\ UNCHANGED <<active, proposeVars, executeVars, askVars, granted, faults>>
  BY DEF Expire
<1> QED  BY <1>2, <1>4, <1>5

LEMMA ExpirePreserves ==
  ASSUME NEW p \in Proposals, FInv, Expire(p)
  PROVE  FInv'
<1>1. PICK r \in Row :
        /\ r.status = "expired" /\ r.asked = Seen("expiry")[p].asked
        /\ draft' = [q \in Proposals |->
                       IF q = p THEN r ELSE Seen("expiry")[q]]
  BY ExpireWrites
<1>2. /\ writer \in {"none", "expiry"} /\ p \in elist
      /\ \/ row' = draft' /\ writer' = "none"
         \/ row' = row /\ writer' = "expiry"
      /\ elist' = elist \ {p}
      /\ UNCHANGED <<active, proposeVars, executeVars, askVars, granted, faults>>
  BY ExpireWrites
<1>3. TypeOK'  BY <1>1, <1>2 DEF FInv, TypeOK
<1>4. NothingPending'  BY <1>2 DEF NothingPending
<1>5. Grants'
  BY <1>1, <1>2 DEF FInv, TypeOK, Grants, Assessing, OrdersAreGranted
<1>6. ASSUME ~Regenerate
      PROVE  /\ p \in late
             /\ \/ row[p].status = "pending_approval"
                \/ row[p].status \in Answered /\ decision[p] # "none"
             /\ ~(xpc \in {"post", "record"} /\ xe = p)
  BY <1>2, <1>6 DEF FInv, NothingPending, Uncommitted, ExpiryHolds
<1>7. ASSUME ~Regenerate PROVE Uncommitted'
  BY <1>1, <1>2, <1>6, <1>7 DEF FInv, TypeOK, NothingPending, Uncommitted
<1>8. ASSUME ~Regenerate PROVE ProposeHolds'
  <2>1. /\ Seen("propose") = row /\ Seen("propose")' = row'
        /\ \A q \in Proposals :
             row[q].status \in {"none", "proposed"} => row'[q] = row[q]
    BY <1>1, <1>2, <1>6, <1>8 DEF FInv, TypeOK, NothingPending, Uncommitted
  <2> QED
    BY <1>2, <1>8, <2>1 DEF FInv, TypeOK, InHand, ProposeHolds, Assessing
<1>9. ASSUME ~Regenerate PROVE ExpiryHolds'
  BY <1>1, <1>2, <1>9 DEF FInv, TypeOK, ExpiryHolds
<1>10. ASSUME ~Regenerate PROVE ExecuteHolds'
  <2>1. /\ Seen("execute") = row /\ Seen("execute")' = row'
        /\ \A q \in Proposals : q # p =>
             \/ row'[q] = row[q]
             \/ /\ row'[q].status = "expired" /\ q \in late
                /\ ~(xpc \in {"post", "record"} /\ xe = q)
                /\ row[q].status = "authorized_for_execution"
                     => decision[q] # "none"
        /\ row'[p] = row[p] \/ row'[p].status = "expired"
    BY <1>1, <1>2, <1>6, <1>10 DEF FInv, TypeOK, NothingPending, Uncommitted
  <2>2. \A q \in Proposals :
          row[q].status = "authorized_for_execution" /\ decision[q] # "none"
            => decision[q] = "approved"
    BY <1>10 DEF FInv, TypeOK, DecisionStands
  <2>3. xpc \in {"post", "record"} => xe \in Proposals /\ xe # p
    BY <1>6, <1>10 DEF FInv, TypeOK, Grants, OrdersAreGranted
  <2>4. ASSUME NEW q \in xlist
        PROVE  /\ \/ row'[q].status = "authorized_for_execution"
                  \/ /\ row'[q].status = "expired" /\ q \in late
                     /\ decision[q] = "approved"
               /\ q \in sent => q \in xdue
               /\ q \notin clicked
    <3>1. /\ q \in Proposals
          /\ \/ row[q].status = "authorized_for_execution"
             \/ /\ row[q].status = "expired" /\ q \in late
                /\ decision[q] = "approved"
          /\ q \in sent => q \in xdue
          /\ q \notin clicked
      BY <1>10, <2>1, <2>4 DEF FInv, TypeOK, ExecuteHolds
    <3> QED  BY <1>6, <1>10, <2>1, <2>2, <3>1
  <2>5. xpc \in {"post", "record"} =>
          /\ row'[xe].status = "authorized_for_execution"
          /\ xe \notin xlist /\ xe \notin clicked
    BY <1>10, <2>1, <2>3 DEF FInv, ExecuteHolds
  <2> QED
    BY <1>2, <1>10, <2>1, <2>4, <2>5 DEF FInv, ExecuteHolds
<1>11. ActiveIsClosed'
  BY <1>1, <1>2, <1>6 DEF FInv, TypeOK, NothingPending, Uncommitted,
     ActiveIsClosed
<1>12. DecisionStands'
  BY <1>1, <1>2, <1>6 DEF FInv, TypeOK, NothingPending, Uncommitted,
     DecisionStands
<1>13. InHand'  BY <1>2 DEF FInv, InHand
<1>14. ASSUME ~Regenerate PROVE AskHolds'
  BY <1>1, <1>2, <1>6, <1>14 DEF FInv, TypeOK, NothingPending, Uncommitted,
     AskHolds
<1> QED  BY <1>3, <1>4, <1>5, <1>7, <1>8, <1>9, <1>10, <1>11, <1>12, <1>13,
            <1>14 DEF FInv

LEMMA ExpiryTimesOutPreserves ==
  ASSUME NEW p \in Proposals, FInv, ExpiryTimesOut(p)
  PROVE  FInv'
<1>1. TypeOK'  BY FlowAssumption DEF FInv, TypeOK, ExpiryTimesOut
<1>2. ASSUME ~Regenerate PROVE ExpiryHolds'
  BY <1>2 DEF FInv, ExpiryHolds, ExpiryTimesOut
<1>3. /\ InHand' /\ NothingPending' /\ Grants' /\ ActiveIsClosed'
      /\ DecisionStands'
  BY DEF FInv, InHand, NothingPending, Grants, ActiveIsClosed,
     DecisionStands, Assessing, OrdersAreGranted, ExpiryTimesOut
<1>4. ASSUME ~Regenerate
      PROVE  /\ Uncommitted' /\ ProposeHolds' /\ ExecuteHolds'
  BY <1>4 DEF FInv, Uncommitted, ProposeHolds, ExecuteHolds, Assessing,
     ExpiryTimesOut
<1>5. ASSUME ~Regenerate PROVE AskHolds'
  BY <1>5 DEF FInv, TypeOK, NothingPending, Uncommitted, AskHolds,
     ExpiryTimesOut
<1> QED  BY <1>1, <1>2, <1>3, <1>4, <1>5 DEF FInv

-----------------------------------------------------------------------------
\* The execute loop: _loop_execute.

LEMMA ListAuthorizedPreserves ==
  ASSUME FInv, ListAuthorized
  PROVE  FInv'
<1>1. TypeOK'  BY DEF FInv, TypeOK, ListAuthorized
<1>2. Grants'
  BY DEF FInv, Grants, Assessing, OrdersAreGranted, ListAuthorized
<1>3. ASSUME ~Regenerate PROVE ExecuteHolds'
  BY <1>3 DEF FInv, TypeOK, NothingPending, Uncommitted, AskHolds,
     ExecuteHolds, ListAuthorized
<1>4. /\ InHand' /\ NothingPending' /\ ActiveIsClosed' /\ DecisionStands'
  BY DEF FInv, InHand, NothingPending, ActiveIsClosed, DecisionStands,
     ListAuthorized
<1>5. ASSUME ~Regenerate
      PROVE  /\ Uncommitted' /\ ProposeHolds' /\ ExpiryHolds'
  BY <1>5 DEF FInv, Uncommitted, ProposeHolds, ExpiryHolds, Assessing,
     ListAuthorized
<1>6. ASSUME ~Regenerate PROVE AskHolds'
  BY <1>6 DEF FInv, TypeOK, NothingPending, Uncommitted, AskHolds,
     ListAuthorized
<1> QED  BY <1>1, <1>2, <1>3, <1>4, <1>5, <1>6 DEF FInv

LEMMA RefusePreserves ==
  ASSUME NEW p \in Proposals, FInv, Refuse(p)
  PROVE  FInv'
<1>1. TypeOK'  BY DEF FInv, TypeOK, RecordFailure, Refuse
<1>2. NothingPending'  BY DEF FInv, NothingPending, RecordFailure, Refuse
<1>3. Grants'
  BY DEF FInv, Grants, Assessing, OrdersAreGranted, RecordFailure, Refuse
<1>4. ASSUME ~Regenerate PROVE Uncommitted'
  BY <1>4 DEF FInv, Uncommitted, ExecuteHolds, OrdersAreGranted,
     RecordFailure, Refuse
<1>5. ASSUME ~Regenerate PROVE ProposeHolds'
  BY <1>5 DEF FInv, ProposeHolds, Assessing, RecordFailure, Refuse
<1>6. ASSUME ~Regenerate PROVE ExpiryHolds'
  BY <1>6 DEF FInv, ExpiryHolds, RecordFailure, Refuse
<1>7. ASSUME ~Regenerate PROVE ExecuteHolds'
  BY <1>7 DEF FInv, ExecuteHolds, RecordFailure, Refuse
<1>8. ActiveIsClosed'  BY DEF FInv, ActiveIsClosed, RecordFailure, Refuse
<1>9. DecisionStands'  BY DEF FInv, DecisionStands, RecordFailure, Refuse
<1>10. InHand'  BY DEF FInv, InHand, RecordFailure, Refuse
<1>11. ASSUME ~Regenerate PROVE AskHolds'
  BY <1>11 DEF FInv, TypeOK, NothingPending, Uncommitted, AskHolds,
     Refuse, RecordFailure
<1> QED  BY <1>1, <1>2, <1>3, <1>4, <1>5, <1>6, <1>7, <1>8, <1>9, <1>10, <1>11
        DEF FInv

LEMMA PassGuardsPreserves ==
  ASSUME NEW p \in Proposals, FInv, PassGuards(p)
  PROVE  FInv'
<1>1. TypeOK'  BY DEF FInv, TypeOK, PassGuards
<1>2. Grants'  BY DEF FInv, Grants, Assessing, OrdersAreGranted, PassGuards
<1>3. ASSUME ~Regenerate PROVE ExecuteHolds'
  BY <1>3 DEF FInv, AskHolds, ExecuteHolds, PassGuards
<1>4. /\ InHand' /\ NothingPending' /\ ActiveIsClosed' /\ DecisionStands'
  BY DEF FInv, InHand, NothingPending, ActiveIsClosed, DecisionStands,
     PassGuards
<1>5. ASSUME ~Regenerate
      PROVE  /\ Uncommitted' /\ ProposeHolds' /\ ExpiryHolds'
  BY <1>5 DEF FInv, Uncommitted, AskHolds, ProposeHolds, ExpiryHolds,
     ExecuteHolds, Assessing, PassGuards
<1>6. ASSUME ~Regenerate PROVE AskHolds'
  BY <1>6 DEF FInv, TypeOK, NothingPending, Uncommitted, AskHolds,
     PassGuards
<1> QED  BY <1>1, <1>2, <1>3, <1>4, <1>5, <1>6 DEF FInv

LEMMA PostRejectedPreserves ==
  ASSUME FInv, PostRejected
  PROVE  FInv'
<1>1. TypeOK'
  BY DEF FInv, TypeOK, Grants, OrdersAreGranted, RecordFailure,
     PostRejected
<1>2. NothingPending'
  BY DEF FInv, NothingPending, OrdersAreGranted, RecordFailure,
     PostRejected
<1>3. Grants'
  BY DEF FInv, Grants, Assessing, OrdersAreGranted, RecordFailure,
     PostRejected
<1>4. ASSUME ~Regenerate PROVE Uncommitted'
  BY <1>4 DEF FInv, Uncommitted, ExecuteHolds, RecordFailure, PostRejected
<1>5. ASSUME ~Regenerate PROVE ProposeHolds'
  BY <1>5 DEF FInv, ProposeHolds, Assessing, RecordFailure, PostRejected
<1>6. ASSUME ~Regenerate PROVE ExpiryHolds'
  BY <1>6 DEF FInv, ExpiryHolds, RecordFailure, PostRejected
<1>7. ASSUME ~Regenerate PROVE ExecuteHolds'
  BY <1>7 DEF FInv, ExecuteHolds, RecordFailure, PostRejected
<1>8. ActiveIsClosed'
  BY DEF FInv, ActiveIsClosed, RecordFailure, PostRejected
<1>9. DecisionStands'
  BY DEF FInv, DecisionStands, RecordFailure, PostRejected
<1>10. InHand'  BY DEF FInv, InHand, RecordFailure, PostRejected
<1>11. ASSUME ~Regenerate PROVE AskHolds'
  BY <1>11 DEF FInv, TypeOK, NothingPending, Uncommitted, AskHolds,
     PostRejected, RecordFailure
<1> QED  BY <1>1, <1>2, <1>3, <1>4, <1>5, <1>6, <1>7, <1>8, <1>9, <1>10, <1>11
        DEF FInv

LEMMA PostOrderPreserves ==
  ASSUME FInv, PostOrder
  PROVE  FInv'
<1>1. TypeOK'  BY DEF FInv, TypeOK, PostOrder
<1>2. Grants'  BY DEF FInv, Grants, Assessing, OrdersAreGranted, PostOrder
<1>3. ASSUME ~Regenerate PROVE ExecuteHolds'
  BY <1>3 DEF FInv, ExecuteHolds, Assessing, OrdersAreGranted, PostOrder
<1>4. /\ InHand' /\ NothingPending' /\ ActiveIsClosed' /\ DecisionStands'
  BY DEF FInv, InHand, NothingPending, ActiveIsClosed, DecisionStands,
     PostOrder
<1>5. ASSUME ~Regenerate
      PROVE  /\ Uncommitted' /\ ProposeHolds' /\ ExpiryHolds'
  BY <1>5 DEF FInv, Uncommitted, ProposeHolds, ExpiryHolds, Assessing,
     PostOrder
<1>6. ASSUME ~Regenerate PROVE AskHolds'
  BY <1>6 DEF FInv, TypeOK, NothingPending, Uncommitted, AskHolds,
     PostOrder
<1> QED  BY <1>1, <1>2, <1>3, <1>4, <1>5, <1>6 DEF FInv

LEMMA RecordOrderPreserves ==
  ASSUME FInv, RecordOrder
  PROVE  FInv'
<1>1. TypeOK'  BY DEF FInv, TypeOK, Grants, OrdersAreGranted, RecordOrder
<1>2. NothingPending'
  BY DEF FInv, NothingPending, OrdersAreGranted, RecordOrder
<1>3. Grants'  BY DEF FInv, Grants, Assessing, OrdersAreGranted, RecordOrder
<1>4. ASSUME ~Regenerate PROVE Uncommitted'
  BY <1>4 DEF FInv, Uncommitted, Assessing, OrdersAreGranted, RecordOrder
<1>5. ASSUME ~Regenerate PROVE ProposeHolds'
  <2>1. xe \in Proposals /\ Seen("execute")[xe].status = "authorized_for_execution"
    BY <1>5 DEF FInv, TypeOK, Grants, OrdersAreGranted, ExecuteHolds, RecordOrder
  <2>2. /\ Seen("propose") = row /\ Seen("propose")' = row'
        /\ \A q \in Proposals :
             row[q].status \in {"none", "proposed"} => row'[q] = row[q]
    BY <1>5, <2>1 DEF FInv, TypeOK, NothingPending, Uncommitted, RecordOrder
  <2> QED
    BY <1>5, <2>2 DEF FInv, TypeOK, InHand, ProposeHolds, Assessing, RecordOrder
<1>6. ASSUME ~Regenerate PROVE ExpiryHolds'
  BY <1>6 DEF FInv, TypeOK, Uncommitted, ExpiryHolds, ExecuteHolds,
     RecordOrder
<1>7. ASSUME ~Regenerate PROVE ExecuteHolds'
  BY <1>7 DEF FInv, ExecuteHolds, RecordOrder
<1>8. ActiveIsClosed'
  BY DEF FInv, TypeOK, Grants, Uncommitted, ActiveIsClosed,
     OrdersAreGranted, RecordOrder
<1>9. DecisionStands'
  BY DEF FInv, Uncommitted, ExecuteHolds, DecisionStands, RecordOrder
<1>10. InHand'  BY DEF FInv, InHand, RecordOrder
<1>11. ASSUME ~Regenerate PROVE AskHolds'
  BY <1>11 DEF FInv, TypeOK, NothingPending, Uncommitted, AskHolds,
     ExecuteHolds, RecordOrder
<1> QED  BY <1>1, <1>2, <1>3, <1>4, <1>5, <1>6, <1>7, <1>8, <1>9, <1>10, <1>11
        DEF FInv

LEMMA ExecuteTimesOutPreserves ==
  ASSUME FInv, ExecuteTimesOut
  PROVE  FInv'
<1>1. TypeOK'  BY FlowAssumption DEF FInv, TypeOK, ExecuteTimesOut
<1>2. Grants'
  BY DEF FInv, Grants, Assessing, OrdersAreGranted, ExecuteTimesOut
<1>3. ASSUME ~Regenerate PROVE ExecuteHolds'
  BY <1>3 DEF FInv, ExecuteHolds, Assessing, OrdersAreGranted,
     ExecuteTimesOut
<1>4. /\ InHand' /\ NothingPending' /\ ActiveIsClosed' /\ DecisionStands'
  BY DEF FInv, InHand, NothingPending, ActiveIsClosed, DecisionStands,
     ExecuteTimesOut
<1>5. ASSUME ~Regenerate
      PROVE  /\ Uncommitted' /\ ProposeHolds' /\ ExpiryHolds'
  BY <1>5 DEF FInv, Uncommitted, ProposeHolds, ExpiryHolds, Assessing,
     ExecuteTimesOut
<1>6. ASSUME ~Regenerate PROVE AskHolds'
  BY <1>6 DEF FInv, TypeOK, NothingPending, Uncommitted, AskHolds,
     ExecuteTimesOut
<1> QED  BY <1>1, <1>2, <1>3, <1>4, <1>5, <1>6 DEF FInv

LEMMA EndExecuteTickPreserves ==
  ASSUME FInv, EndExecuteTick
  PROVE  FInv'
<1>1. TypeOK'  BY DEF FInv, TypeOK, EndExecuteTick
<1>2. NothingPending'  BY DEF FInv, NothingPending, EndExecuteTick
<1>3. Grants'
  BY DEF FInv, Grants, Assessing, OrdersAreGranted, EndExecuteTick
<1>4. ASSUME ~Regenerate PROVE Uncommitted'
  BY <1>4 DEF FInv, Uncommitted, Assessing, OrdersAreGranted,
     EndExecuteTick
<1>5. ASSUME ~Regenerate PROVE ProposeHolds'
  <2>1. /\ Seen("propose") = row /\ Seen("propose")' = row'
        /\ \A q \in Proposals :
             row[q].status \in {"none", "proposed"} => row'[q] = row[q]
    BY <1>5 DEF FInv, TypeOK, NothingPending, Uncommitted, EndExecuteTick
  <2> QED
    BY <1>5, <2>1 DEF FInv, TypeOK, InHand, ProposeHolds, Assessing,
       EndExecuteTick
<1>6. ASSUME ~Regenerate PROVE ExpiryHolds'
  BY <1>6 DEF FInv, TypeOK, Uncommitted, ExpiryHolds, EndExecuteTick
<1>7. ASSUME ~Regenerate PROVE ExecuteHolds'
  BY <1>7 DEF FInv, ExecuteHolds, EndExecuteTick
<1>8. ActiveIsClosed'
  BY DEF FInv, TypeOK, Uncommitted, ActiveIsClosed, EndExecuteTick
<1>9. DecisionStands'
  BY DEF FInv, Uncommitted, DecisionStands, EndExecuteTick
<1>10. InHand'  BY DEF FInv, InHand, EndExecuteTick
<1>11. ASSUME ~Regenerate PROVE AskHolds'
  BY <1>11 DEF FInv, TypeOK, NothingPending, Uncommitted, AskHolds,
     EndExecuteTick
<1> QED  BY <1>1, <1>2, <1>3, <1>4, <1>5, <1>6, <1>7, <1>8, <1>9, <1>10, <1>11
        DEF FInv

-----------------------------------------------------------------------------
\* The approver, other writers, the clock and crashes.

LEMMA InsertPreserves ==
  ASSUME NEW p \in Proposals, FInv, Insert(p)
  PROVE  FInv'
<1>1. TypeOK'
  <2>1. row' \in [Proposals -> Row]
    <3>1. [Absent EXCEPT !.status = "proposed"] \in Row  OBVIOUS
    <3> QED  BY <3>1 DEF FInv, TypeOK, Insert, Other
  <2> QED  BY <2>1 DEF FInv, TypeOK, Insert, Other
<1>2. NothingPending'  BY DEF FInv, NothingPending, Other, Insert
<1>3. Grants'
  BY DEF FInv, Grants, Assessing, OrdersAreGranted, Other, Insert
<1>4. ASSUME ~Regenerate PROVE Uncommitted'
  BY <1>4 DEF FInv, Uncommitted, Assessing, OrdersAreGranted, Other,
     Insert
<1>5. ASSUME ~Regenerate PROVE ProposeHolds'
  BY <1>5 DEF FInv, ProposeHolds, Assessing, Other, Insert
<1>6. ASSUME ~Regenerate PROVE ExpiryHolds'
  BY <1>6 DEF FInv, ExpiryHolds, Other, Insert
<1>7. ASSUME ~Regenerate PROVE ExecuteHolds'
  BY <1>7 DEF FInv, ExecuteHolds, Other, Insert
<1>8. ActiveIsClosed'  BY DEF FInv, ActiveIsClosed, Other, Insert
<1>9. DecisionStands'  BY DEF FInv, DecisionStands, Other, Insert
<1>10. InHand'  BY DEF FInv, InHand, Other, Insert
<1>11. ASSUME ~Regenerate PROVE AskHolds'
  <2>1. p \notin sent
    BY <1>11 DEF FInv, AskHolds, Insert
  <2>2. /\ row'[p].status = "proposed" /\ ~row'[p].asked
        /\ \A q \in Proposals : q # p => row'[q] = row[q]
        /\ draft' = row' /\ draft = row
        /\ UNCHANGED <<sent, late, clicked, decision, pstep, seen>>
    BY DEF FInv, TypeOK, NothingPending, Insert, Other
  <2> QED  BY <1>11, <2>1, <2>2 DEF FInv, TypeOK, AskHolds
<1> QED  BY <1>1, <1>2, <1>3, <1>4, <1>5, <1>6, <1>7, <1>8, <1>9, <1>10, <1>11
        DEF FInv

LEMMA AskPreserves ==
  ASSUME NEW p \in Proposals, FInv, Ask(p)
  PROVE  FInv'
<1>1. TypeOK'
  <2>1. row' \in [Proposals -> Row]
    <3>1. [row[p] EXCEPT !.asked = TRUE] \in Row  BY DEF FInv, TypeOK
    <3> QED  BY <3>1 DEF FInv, TypeOK, Ask, Other
  <2> QED  BY <2>1 DEF FInv, TypeOK, Ask, Other
<1>2. NothingPending'  BY DEF FInv, NothingPending, Other, Ask
<1>3. Grants'  BY DEF FInv, Grants, Assessing, OrdersAreGranted, Other, Ask
<1>4. ASSUME ~Regenerate PROVE Uncommitted'
  BY <1>4 DEF FInv, Uncommitted, Assessing, OrdersAreGranted, Other, Ask
<1>5. ASSUME ~Regenerate PROVE ProposeHolds'
  BY <1>5 DEF FInv, ProposeHolds, Assessing, Other, Ask
<1>6. ASSUME ~Regenerate PROVE ExpiryHolds'
  BY <1>6 DEF FInv, ExpiryHolds, Other, Ask
<1>7. ASSUME ~Regenerate PROVE ExecuteHolds'
  BY <1>7 DEF FInv, ExecuteHolds, Other, Ask
<1>8. ActiveIsClosed'  BY DEF FInv, ActiveIsClosed, Other, Ask
<1>9. DecisionStands'  BY DEF FInv, DecisionStands, Other, Ask
<1>10. InHand'  BY DEF FInv, InHand, Other, Ask
<1>11. ASSUME ~Regenerate PROVE AskHolds'
  <2>1. /\ row'[p].status = "pending_approval" /\ row'[p].asked
        /\ \A q \in Proposals : q # p => row'[q] = row[q]
        /\ draft' = row' /\ draft = row /\ sent' = sent \cup {p}
        /\ UNCHANGED <<late, clicked, decision, pstep, seen>>
    BY DEF FInv, TypeOK, NothingPending, Ask, Other
  <2> QED  BY <1>11, <2>1 DEF FInv, TypeOK, AskHolds
<1> QED  BY <1>1, <1>2, <1>3, <1>4, <1>5, <1>6, <1>7, <1>8, <1>9, <1>10, <1>11
        DEF FInv

LEMMA ClickPreserves ==
  ASSUME NEW p \in Proposals, FInv, Click(p)
  PROVE  FInv'
<1>1. TypeOK'  BY DEF FInv, TypeOK, Click
<1>2. /\ InHand' /\ NothingPending' /\ Grants' /\ ActiveIsClosed'
      /\ DecisionStands'
  BY DEF FInv, InHand, NothingPending, Grants, ActiveIsClosed,
     DecisionStands, Assessing, OrdersAreGranted, Click
<1>3. ASSUME ~Regenerate
      PROVE  /\ Uncommitted' /\ ProposeHolds' /\ ExpiryHolds'
  BY <1>3 DEF FInv, Uncommitted, ProposeHolds, ExpiryHolds, Assessing, Click
<1>4. ASSUME ~Regenerate PROVE ExecuteHolds'
  BY <1>4 DEF FInv, TypeOK, Uncommitted, ExecuteHolds, Click
<1>5. ASSUME ~Regenerate PROVE AskHolds'
  BY <1>5 DEF FInv, TypeOK, NothingPending, Uncommitted, AskHolds,
     DecisionStands, Click
<1> QED  BY <1>1, <1>2, <1>3, <1>4, <1>5 DEF FInv

LEMMA AnswerPreserves ==
  ASSUME NEW p \in Proposals, FInv, Answer(p)
  PROVE  FInv'
<1>1. TypeOK'  BY DEF FInv, TypeOK, Other, Answer
<1>2. NothingPending'  BY DEF FInv, NothingPending, Other, Answer
<1>3. Grants'
  BY DEF FInv, Grants, Assessing, OrdersAreGranted, Other, Answer
<1>4. ASSUME ~Regenerate PROVE Uncommitted'
  BY <1>4 DEF FInv, Uncommitted, Assessing, OrdersAreGranted, Other,
     Answer
<1>5. ASSUME ~Regenerate PROVE ProposeHolds'
  BY <1>5 DEF FInv, TypeOK, NothingPending, AskHolds, ProposeHolds, Assessing,
     Other, Answer
<1>6. ASSUME ~Regenerate PROVE ExpiryHolds'
  BY <1>6 DEF FInv, TypeOK, NothingPending, AskHolds, ExpiryHolds, Other,
     Answer
<1>7. ASSUME ~Regenerate PROVE ExecuteHolds'
  BY <1>7 DEF FInv, ExecuteHolds, Other, Answer
<1>8. ActiveIsClosed'
  BY DEF FInv, TypeOK, AskHolds, ActiveIsClosed, Other, Answer
<1>9. DecisionStands'  BY DEF FInv, TypeOK, DecisionStands, Other, Answer
<1>10. InHand'  BY DEF FInv, InHand, Other, Answer
<1>11. ASSUME ~Regenerate PROVE AskHolds'
  BY <1>11 DEF FInv, TypeOK, NothingPending, Uncommitted, AskHolds,
     Answer, Other
<1> QED  BY <1>1, <1>2, <1>3, <1>4, <1>5, <1>6, <1>7, <1>8, <1>9, <1>10, <1>11
        DEF FInv

LEMMA PromotePreserves ==
  ASSUME NEW p \in Proposals, FInv, Promote(p)
  PROVE  FInv'
<1>1. TypeOK'  BY DEF FInv, TypeOK, Other, Promote
<1>2. NothingPending'  BY DEF FInv, NothingPending, Other, Promote
<1>3. Grants'
  BY DEF FInv, Grants, Assessing, OrdersAreGranted, Other, Promote
<1>4. ASSUME ~Regenerate PROVE Uncommitted'
  BY <1>4 DEF FInv, Uncommitted, Assessing, OrdersAreGranted, Other,
     Promote
<1>5. ASSUME ~Regenerate PROVE ProposeHolds'
  BY <1>5 DEF FInv, ProposeHolds, Assessing, Other, Promote
<1>6. ASSUME ~Regenerate PROVE ExpiryHolds'
  BY <1>6 DEF FInv, ExpiryHolds, Other, Promote
<1>7. ASSUME ~Regenerate PROVE ExecuteHolds'
  BY <1>7 DEF FInv, ExecuteHolds, Other, Promote
<1>8. ActiveIsClosed'  BY DEF FInv, ActiveIsClosed, Other, Promote
<1>9. DecisionStands'  BY DEF FInv, DecisionStands, Other, Promote
<1>10. InHand'  BY DEF FInv, InHand, Other, Promote
<1>11. ASSUME ~Regenerate PROVE AskHolds'
  BY <1>11 DEF FInv, TypeOK, NothingPending, Uncommitted, AskHolds,
     Promote, Other
<1> QED  BY <1>1, <1>2, <1>3, <1>4, <1>5, <1>6, <1>7, <1>8, <1>9, <1>10, <1>11
        DEF FInv

LEMMA PassDeadlinePreserves ==
  ASSUME NEW p \in Proposals, FInv, PassDeadline(p)
  PROVE  FInv'
<1>1. TypeOK'  BY DEF FInv, TypeOK, PassDeadline
<1>2. ASSUME ~Regenerate PROVE ExpiryHolds'
  BY <1>2 DEF FInv, ExpiryHolds, PassDeadline
<1>3. /\ InHand' /\ NothingPending' /\ Grants' /\ ActiveIsClosed'
      /\ DecisionStands'
  BY DEF FInv, InHand, NothingPending, Grants, ActiveIsClosed,
     DecisionStands, Assessing, OrdersAreGranted, PassDeadline
<1>4. ASSUME ~Regenerate
      PROVE  /\ Uncommitted' /\ ProposeHolds' /\ ExecuteHolds'
  BY <1>4 DEF FInv, Uncommitted, ProposeHolds, ExecuteHolds, Assessing,
     PassDeadline
<1>5. ASSUME ~Regenerate PROVE AskHolds'
  BY <1>5 DEF FInv, TypeOK, NothingPending, Uncommitted, AskHolds,
     PassDeadline
<1> QED  BY <1>1, <1>2, <1>3, <1>4, <1>5 DEF FInv

LEMMA OrderFailsPreserves ==
  ASSUME NEW p \in Proposals, FInv, OrderFails(p)
  PROVE  FInv'
<1>1. TypeOK'  BY DEF FInv, TypeOK, OrderFails
<1>2. ActiveIsClosed'  BY DEF FInv, ActiveIsClosed, OrderFails
<1>3. /\ InHand' /\ NothingPending' /\ Grants' /\ DecisionStands'
  BY DEF FInv, InHand, NothingPending, Grants, DecisionStands, Assessing,
     OrdersAreGranted, OrderFails
<1>4. ASSUME ~Regenerate
      PROVE  /\ Uncommitted' /\ ProposeHolds' /\ ExpiryHolds'
             /\ ExecuteHolds'
  BY <1>4 DEF FInv, Uncommitted, ProposeHolds, ExpiryHolds, ExecuteHolds,
     Assessing, OrderFails
<1>5. ASSUME ~Regenerate PROVE AskHolds'
  BY <1>5 DEF FInv, TypeOK, NothingPending, Uncommitted, AskHolds,
     OrderFails
<1> QED  BY <1>1, <1>2, <1>3, <1>4, <1>5 DEF FInv

LEMMA CrashPreserves ==
  ASSUME FInv, Crash
  PROVE  FInv'
<1>1. TypeOK'  BY FlowAssumption DEF FInv, TypeOK, Crash
<1>2. InHand'  BY DEF FInv, InHand, Crash
<1>3. NothingPending'  BY DEF FInv, NothingPending, Crash
<1>4. Grants'  BY DEF FInv, Grants, OrdersAreGranted, Crash
<1>5. ASSUME ~Regenerate PROVE Uncommitted'
  BY <1>5 DEF FInv, Uncommitted, Crash
<1>6. ASSUME ~Regenerate PROVE ProposeHolds'
  BY <1>6 DEF FInv, ProposeHolds, Crash
<1>7. ASSUME ~Regenerate PROVE ExpiryHolds'
  BY <1>7 DEF FInv, ExpiryHolds, Crash
<1>8. ASSUME ~Regenerate PROVE ExecuteHolds'
  BY <1>8 DEF FInv, ExecuteHolds, Crash
<1>9. /\ ActiveIsClosed' /\ DecisionStands'
  BY DEF FInv, ActiveIsClosed, DecisionStands, Crash
<1>10. ASSUME ~Regenerate PROVE AskHolds'
  BY <1>10 DEF FInv, TypeOK, NothingPending, Uncommitted, AskHolds,
     Crash
<1> QED  BY <1>1, <1>2, <1>3, <1>4, <1>5, <1>6, <1>7, <1>8, <1>9, <1>10
        DEF FInv
-----------------------------------------------------------------------------
\* The initial state and steps of any kind.

LEMMA InitInv == Init => FInv
  BY FlowAssumption DEF Init, FInv, TypeOK, InHand, NothingPending, Grants,
     OrdersAreGranted, Uncommitted, AskHolds, ProposeHolds, ExpiryHolds,
     ExecuteHolds, ActiveIsClosed, DecisionStands, Assessing, Row, Status, Terminal,
     Absent, Verdicts, May, Seen

LEMMA StutterPreserves == FInv /\ UNCHANGED vars => FInv'
  BY DEF FInv, TypeOK, InHand, NothingPending, Grants, OrdersAreGranted,
     Uncommitted, AskHolds, ProposeHolds, ExpiryHolds, ExecuteHolds,
     ActiveIsClosed,
     DecisionStands, Assessing, Seen, vars, tableVars, proposeVars,
     executeVars, askVars

LEMMA InvariantStep == FInv /\ [Next]_vars => FInv'
  BY AnswerPreserves, AskPreserves, ClickPreserves, AssessBatchPreserves,
     AssessPreserves, CallModelPreserves, CrashPreserves,
     EndExecuteTickPreserves, EndProposeTickPreserves,
     ExecuteTimesOutPreserves, ExpirePreserves,
     ExpiryTimesOutPreserves, InsertPreserves,
     ListAuthorizedPreserves, ListExpiredPreserves,
     ModelAnswersPreserves, OrderFailsPreserves,
     PassDeadlinePreserves, PassGuardsPreserves, PostOrderPreserves,
     PostRejectedPreserves, PromotePreserves,
     ProposeTimesOutPreserves, ReadBackPreserves,
     RecordOrderPreserves, RefusePreserves, StartSweepPreserves,
     SweepAgainPreserves, UpsertPreserves, WriteBackPreserves,
     StutterPreserves
  DEF Next, ProposeStep, ExpiryStep, ExecuteStep, OtherStep

\* Whatever the order of the loops' steps, the approver's and the pipeline's
\* answers, and wherever a crash or a time-out falls, FInv holds.
THEOREM FlowInvariance == Spec => []FInv
  BY InitInv, InvariantStep, PTL DEF Spec

\* Every column and every local of the loops keeps its range: no verdict
\* that the status column does not know is written.
THEOREM FlowTypeCorrect == Spec => []TypeOK
<1>1. FInv => TypeOK  BY DEF FInv
<1> QED  BY <1>1, FlowInvariance, PTL

\* execute_record posts no order for a proposal that neither a rule nor the
\* operator has authorized.
THEOREM GrantedOnly == Spec => []OrdersAreGranted
<1>1. FInv => OrdersAreGranted  BY DEF FInv, Grants
<1> QED  BY <1>1, FlowInvariance, PTL

\* When contents do not recur, the status that record_execution gives to the
\* proposal of an active execution stays.
THEOREM ActiveClosed == Spec => []ActiveIsClosed
<1>1. FInv => ActiveIsClosed  BY DEF FInv
<1> QED  BY <1>1, FlowInvariance, PTL

\* When contents do not recur, no loop overwrites the status that
\* record_approval gives to a proposal, but for the executor using it and, past
\* the deadline, the expiry loop with a list that is older than the answer.
THEOREM DecisionsStand == Spec => []DecisionStands
<1>1. FInv => DecisionStands  BY DEF FInv
<1> QED  BY <1>1, FlowInvariance, PTL

-----------------------------------------------------------------------------
\* The status machine.

\* A step keeps to LEGAL_PROPOSAL_TRANSITIONS and the automatic rules, but for
\* an answer that crosses the expiry of its message.
LegalStep ==
  \A p \in Proposals :
    row'[p].status # row[p].status
      => MayBecome(p, row[p].status, row'[p].status)

\* The entries of the tables.
LEMMA LegalEntries ==
  /\ LegalNext["none"] = {"proposed"}
  /\ LegalNext["proposed"] = Verdicts
  /\ {"approved", "rejected", "expired"} \subseteq LegalNext["pending_approval"]
  /\ "authorized_for_execution" \in LegalNext["approved"]
  /\ LegalNext["authorized_for_execution"] = {"executed", "failed"}
  BY DEF LegalNext

LEMMA CrossedEntries ==
  /\ DOMAIN Crossed = Answered \cup {"expired"}
  /\ \A s \in Answered : "expired" \in Crossed[s]
  /\ {"approved", "rejected", "failed"} \subseteq Crossed["expired"]
  BY DEF Crossed

\* What is uncommitted may be committed, and what the expiry loop has on its
\* list may be expired.
LEMMA LegalDraft ==
  ASSUME FInv, ~Regenerate, UNCHANGED decision, NEW p \in Proposals,
         draft[p].status # row[p].status
  PROVE  MayBecome(p, row[p].status, draft[p].status)
  BY LegalEntries, CrossedEntries DEF FInv, Uncommitted, MayBecome

\* A commit of what is uncommitted is legal.
LEMMA LegalCommit ==
  ASSUME FInv, ~Regenerate, UNCHANGED decision, row' = row \/ row' = draft
  PROVE  LegalStep
  BY LegalDraft DEF LegalStep

\* So is a commit of one more row that changes legally.
LEMMA LegalCommitOf ==
  ASSUME FInv, ~Regenerate, UNCHANGED decision, NEW p \in Proposals, NEW s,
         NEW l, row'[p].status = s,
         \A q \in Proposals \ {p} : row'[q] = Seen(l)[q],
         row[p].status # s => MayBecome(p, row[p].status, s)
  PROVE  LegalStep
<1>1. ASSUME NEW q \in Proposals, row'[q].status # row[q].status, q # p
      PROVE  MayBecome(q, row[q].status, row'[q].status)
  <2>1. row'[q] = draft[q]  BY <1>1 DEF Seen
  <2> QED  BY <1>1, <2>1, LegalDraft
<1> QED  BY <1>1 DEF LegalStep

\* An answer is legal: its proposal is pending, or has expired meanwhile.
LEMMA LegalAnswer ==
  ASSUME FInv, ~Regenerate, NEW p \in Proposals, Answer(p)
  PROVE  LegalStep
<1>1. PICK d \in {"approved", "rejected"} :
        /\ row' = [row EXCEPT ![p] = [row[p] EXCEPT !.status = d]]
        /\ decision' = [decision EXCEPT ![p] = d]
  BY DEF Answer, Other
<1>2. /\ row[p].status \in {"pending_approval", "expired"} /\ p \in sent
      /\ row'[p].status = d /\ decision'[p] = d
      /\ \A q \in Proposals : q # p => row'[q] = row[q]
  BY <1>1 DEF FInv, TypeOK, AskHolds, Answer
<1>3. row[p].status = "expired" => p \in late
  BY <1>2 DEF FInv, AskHolds, Answer
<1> QED
  BY <1>2, <1>3, LegalEntries, CrossedEntries DEF LegalStep, MayBecome

\* No step of any loop is illegal.
LEMMA LegalSteps ==
  ASSUME FInv, ~Regenerate, [Next]_vars
  PROVE  LegalStep
<1> USE DEF tableVars, Put, PutAndCommit, Commit, TimesOut, MayWrite
<1>1. CASE (row' = row \/ row' = draft) /\ UNCHANGED decision
  BY <1>1, LegalCommit
<1>2. CASE \E p \in Proposals : Upsert(p)
  <2>1. PICK p \in Proposals : Upsert(p)  BY <1>2
  <2>2. row[p].status \in {"none", "proposed"}
    BY <2>1 DEF FInv, Uncommitted, ProposeHolds, NothingPending, Upsert,
       Seen, Verdicts
  <2>3. /\ row'[p].status = "proposed" /\ UNCHANGED decision
        /\ \A q \in Proposals \ {p} : row'[q] = Seen("propose")[q]
    BY <2>1 DEF FInv, TypeOK, ProposeHolds, Upsert, Seen, Row
  <2> QED  BY <2>2, <2>3, LegalCommitOf, LegalEntries DEF MayBecome
<1>3. CASE WriteBack
  <2>1. CASE ppc # "pipe"  BY <1>3, <2>1, <1>1 DEF WriteBack
  <2>2. CASE ppc = "pipe"
    <3>1. /\ pp \in Proposals
          /\ seen.status = "proposed" /\ row[pp].status = "proposed"
      BY <1>3, <2>2 DEF FInv, InHand, Uncommitted, ProposeHolds,
         NothingPending, WriteBack, Seen, Verdicts
    <3>2. /\ row'[pp].status = "proposed" /\ UNCHANGED decision
          /\ \A q \in Proposals \ {pp} : row'[q] = Seen("propose")[q]
      BY <1>3, <2>2, <3>1 DEF FInv, TypeOK, WriteBack, Seen
    <3> QED  BY <3>1, <3>2, LegalCommitOf
  <2> QED  BY <2>1, <2>2
<1>4. CASE \E p \in Proposals : Expire(p)
  <2>1. PICK p \in Proposals : Expire(p)  BY <1>4
  <2>2. CASE elist # {p}  BY <2>1, <2>2, <1>1 DEF Expire
  <2>3. CASE elist = {p}
    <3>1. /\ p \in late
          /\ \/ row[p].status = "pending_approval"
             \/ row[p].status \in Answered /\ decision[p] # "none"
      BY <2>1 DEF FInv, Uncommitted, ExpiryHolds, NothingPending, Expire,
         Seen, Verdicts
    <3>2. /\ row'[p].status = "expired" /\ UNCHANGED decision
          /\ \A q \in Proposals \ {p} : row'[q] = Seen("expiry")[q]
      BY <2>1, <2>3 DEF FInv, TypeOK, Expire, Seen, Row
    <3>3. MayBecome(p, row[p].status, "expired")
      BY <3>1, <3>2, LegalEntries, CrossedEntries DEF MayBecome
    <3> QED  BY <3>2, <3>3, LegalCommitOf
  <2> QED  BY <2>2, <2>3
<1>5. CASE RecordOrder
  <2>1. xe \in Proposals /\ row[xe].status = "authorized_for_execution"
    BY <1>5 DEF FInv, TypeOK, Grants, OrdersAreGranted, Uncommitted,
       ExecuteHolds, NothingPending, RecordOrder, Seen, Verdicts
  <2>2. /\ row'[xe].status = "executed" /\ UNCHANGED decision
        /\ \A q \in Proposals \ {xe} : row'[q] = Seen("execute")[q]
    BY <1>5, <2>1 DEF FInv, TypeOK, RecordOrder, Seen, Row
  <2> QED  BY <2>1, <2>2, LegalCommitOf, LegalEntries DEF MayBecome
<1>6. CASE \E p \in Proposals : Insert(p) \/ Ask(p) \/ Promote(p)
  <2>1. PICK p \in Proposals : Insert(p) \/ Ask(p) \/ Promote(p)
    BY <1>6
  <2>2. /\ \A q \in Proposals \ {p} : row'[q] = Seen("other")[q]
        /\ UNCHANGED decision
    BY <2>1 DEF FInv, TypeOK, NothingPending, Insert, Ask, Promote,
       Other, Seen
  <2>3. row'[p].status # row[p].status
      => MayBecome(p, row[p].status, row'[p].status)
    BY <2>1, LegalEntries DEF FInv, TypeOK, Insert, Ask, Promote,
       Other, Row, Absent, MayBecome
  <2> QED  BY <2>2, <2>3, LegalCommitOf
<1>7. CASE \E p \in Proposals : Answer(p)
  BY <1>7, LegalAnswer
<1> QED
  BY <1>1, <1>2, <1>3, <1>4, <1>5, <1>6, <1>7
  DEF Next, vars, ProposeStep, ExpiryStep, ExecuteStep, OtherStep,
     StartSweep, Assess, ReadBack, CallModel, ModelAnswers, AssessBatch,
     SweepAgain, EndProposeTick, ProposeTimesOut, ListExpired,
     ExpiryTimesOut, ListAuthorized, Refuse, RecordFailure, PassGuards,
     PostRejected, PostOrder, ExecuteTimesOut, EndExecuteTick, PassDeadline,
     Click, OrderFails, Crash, Seen

\* When contents do not recur, every commit keeps to the table of legal
\* transitions, which the writes themselves do not look at, but for an answer
\* that crosses the expiry of its message.
THEOREM LegalTransitions == Spec => StatusMachine
<1>1. FInv /\ [Next]_vars => [~Regenerate => LegalStep]_row
  BY LegalSteps
<1>2. FInv /\ [Next]_vars
        => [~Regenerate =>
              \A p \in Proposals :
                row'[p].status # row[p].status
                  => MayBecome(p, row[p].status, row'[p].status)]_row
  BY <1>1 DEF LegalStep
<1> QED  BY <1>2, FlowInvariance, PTL DEF Spec, StatusMachine

=============================================================================
