------------------------ MODULE OrderLifecycleProofs ------------------------
(***************************************************************************)
(* IInv is an invariant of the specification for every set of proposals,   *)
(* executions and markets, every order size and every fault budget, and    *)
(* the safety properties follow from it.  One lemma per action says that   *)
(* the action preserves IInv; under it, one step per conjunct the action   *)
(* can disturb and a last one for the others, whose variables it leaves    *)
(* alone.                                                                  *)
(***************************************************************************)
EXTENDS OrderLifecycleInv, FiniteSetTheorems, TLAPS

USE DEF ActiveStatus, OpenStatus, ExecStatus, PosStatus, InFlight, Syncing,
        MarketOfExec, dbVars, clobVars, execVars, recVars

\* The status sync_position_for_execution derives is one of the column's.
LEMMA SyncedPositionType ==
  ASSUME NEW st \in ExecStatus \cup {"none"}, NEW f \in 0..Full,
         NEW old \in PosStatus \cup {"none"}
  PROVE  SyncedPosition(st, f, old) \in PosStatus \cup {"none"}
  BY ConstantAssumption DEF SyncedPosition

\* What a commit of the execute tick leaves in the tables keeps its type.
LEMMA CommittedType ==
  ASSUME IInv
  PROVE  /\ CommittedStatus \in [Execs -> ExecStatus \cup {"none"}]
         /\ CommittedProposals \in [Proposals -> PropStatus]
         /\ CommittedPositions \in [Execs -> PosStatus \cup {"none"}]
         /\ CommittedPnl \in [Execs -> BOOLEAN]
<1>1. CommittedStatus \in [Execs -> ExecStatus \cup {"none"}]
  BY DEF IInv, TypeOK, CommittedStatus
<1>2. CommittedProposals \in [Proposals -> PropStatus]
  BY DEF IInv, TypeOK, CommittedProposals, PropStatus
<1>3. CommittedPositions \in [Execs -> PosStatus \cup {"none"}]
  BY DEF IInv, TypeOK, CommittedPositions
<1>4. CommittedPnl \in [Execs -> BOOLEAN]
  BY DEF IInv, TypeOK, CommittedPnl
<1> QED  BY <1>1, <1>2, <1>3, <1>4


-----------------------------------------------------------------------------
\* The execute loop: _loop_execute, execute_record, record_execution.

LEMMA ListAuthorizedPreserves ==
  ASSUME IInv, ListAuthorized
  PROVE  IInv'
<1>1. TypeOK'  BY DEF IInv, TypeOK, ExecPC, ListAuthorized
<1>2. AttemptInFlight'  BY DEF IInv, AttemptInFlight, ListAuthorized
<1>3. GuardsHold'  BY DEF IInv, GuardsHold, ListAuthorized
<1>4. AnswerBacked'  BY DEF IInv, AnswerBacked, ListAuthorized
<1>5. PendingPosition'
  BY DEF IInv, PendingPosition, Derivable, ListAuthorized
<1>6. /\ RowsWritten' /\ OrdersMatched' /\ ListsOpen' /\ ObservationBacked'
      /\ PnlSettled' /\ NoDoubleEntry' /\ LedgerBacked' /\ PositionBacked'
      /\ ActiveNotAuthorized'
  BY DEF IInv, RowsWritten, OrdersMatched, ListsOpen, ObservationBacked,
     PnlSettled, NoDoubleEntry, LedgerBacked, PositionBacked,
     ActiveNotAuthorized, ListAuthorized
<1> QED  BY <1>1, <1>2, <1>3, <1>4, <1>5, <1>6 DEF IInv

LEMMA RefuseBeforePostPreserves ==
  ASSUME NEW p \in Proposals, NEW e \in Execs,
         IInv, RefuseBeforePost(p, e)
  PROVE  IInv'
<1>1. TypeOK'  BY ConstantAssumption DEF IInv, TypeOK, RefuseBeforePost
<1>2. RowsWritten'  BY DEF IInv, RowsWritten, RefuseBeforePost
<1>3. AttemptInFlight'
  BY ConstantAssumption DEF IInv, TypeOK, RowsWritten, AttemptInFlight,
     Fresh, RefuseBeforePost
<1>4. GuardsHold'  BY DEF IInv, GuardsHold, RefuseBeforePost
<1>5. NoDoubleEntry'
  BY ConstantAssumption DEF IInv, RowsWritten, NoDoubleEntry, Fresh,
     RefuseBeforePost
<1>6. ActiveNotAuthorized'
  BY ConstantAssumption DEF IInv, RowsWritten, ActiveNotAuthorized, Fresh,
     RefuseBeforePost
<1>7. /\ OrdersMatched' /\ AnswerBacked' /\ ListsOpen' /\ ObservationBacked'
      /\ PendingPosition' /\ PnlSettled' /\ LedgerBacked' /\ PositionBacked'
  BY DEF IInv, OrdersMatched, AnswerBacked, ListsOpen, ObservationBacked,
     PendingPosition, PnlSettled, LedgerBacked, PositionBacked, Derivable,
     RefuseBeforePost
<1> QED  BY <1>1, <1>2, <1>3, <1>4, <1>5, <1>6, <1>7 DEF IInv

LEMMA LoseRefusalPreserves ==
  ASSUME NEW p \in Proposals,
         IInv, LoseRefusal(p)
  PROVE  IInv'
<1>1. TypeOK'  BY DEF IInv, TypeOK, Inject, LoseRefusal
<1>2. /\ RowsWritten' /\ OrdersMatched' /\ AttemptInFlight' /\ GuardsHold'
      /\ AnswerBacked' /\ ListsOpen' /\ ObservationBacked'
      /\ PendingPosition' /\ PnlSettled' /\ NoDoubleEntry' /\ LedgerBacked'
      /\ PositionBacked' /\ ActiveNotAuthorized'
  BY DEF IInv, RowsWritten, OrdersMatched, AttemptInFlight, GuardsHold,
     AnswerBacked, ListsOpen, ObservationBacked, PendingPosition,
     PnlSettled, NoDoubleEntry, LedgerBacked, PositionBacked,
     ActiveNotAuthorized, Derivable, HasActiveExecution,
     HasActiveMarketOutcomeExposure, LoseRefusal
<1> QED  BY <1>1, <1>2 DEF IInv

LEMMA PassGuardsPreserves ==
  ASSUME NEW p \in Proposals, NEW e \in Execs,
         IInv, PassGuards(p, e)
  PROVE  IInv'
<1>1. TypeOK'
  BY ConstantAssumption
     DEF IInv, TypeOK, ExecPC, Inject, WriteShadow, PassGuards
<1>2. RowsWritten'  BY DEF IInv, RowsWritten, PassGuards
<1>3. AttemptInFlight'
  BY ConstantAssumption DEF IInv, TypeOK, RowsWritten, AttemptInFlight,
     Fresh, PassGuards
<1>4. GuardsHold'
  BY ConstantAssumption DEF IInv, TypeOK, RowsWritten, GuardsHold,
     HasActiveExecution, HasActiveMarketOutcomeExposure, Fresh, PassGuards
<1>5. AnswerBacked'  BY DEF IInv, AnswerBacked, PassGuards
<1>6. PendingPosition'  BY DEF IInv, PendingPosition, Derivable, PassGuards
<1>7. NoDoubleEntry'
  BY ConstantAssumption DEF IInv, RowsWritten, NoDoubleEntry, Fresh,
     PassGuards
<1>8. ActiveNotAuthorized'
  BY ConstantAssumption DEF IInv, RowsWritten, ActiveNotAuthorized, Fresh,
     PassGuards
<1>9. /\ OrdersMatched' /\ ListsOpen' /\ ObservationBacked' /\ PnlSettled'
      /\ LedgerBacked' /\ PositionBacked'
  BY DEF IInv, OrdersMatched, ListsOpen, ObservationBacked, PnlSettled,
     LedgerBacked, PositionBacked, PassGuards
<1> QED  BY <1>1, <1>2, <1>3, <1>4, <1>5, <1>6, <1>7, <1>8, <1>9 DEF IInv

LEMMA PostOrderPreserves ==
  ASSUME IInv, PostOrder
  PROVE  IInv'
<1>1. TypeOK'
  BY ConstantAssumption DEF IInv, TypeOK, AttemptInFlight, ExecPC,
     Normalized, Inject, PostOrder
<1>2. OrdersMatched'  BY DEF IInv, TypeOK, OrdersMatched, PostOrder
<1>3. AttemptInFlight'  BY DEF IInv, TypeOK, AttemptInFlight, PostOrder
<1>4. GuardsHold'
  BY DEF IInv, GuardsHold, HasActiveExecution,
     HasActiveMarketOutcomeExposure, PostOrder
<1>5. AnswerBacked'
  BY DEF IInv, TypeOK, AttemptInFlight, AnswerBacked, Normalized,
     PostOrder
<1>6. ObservationBacked'
  BY DEF IInv, GuardsHold, ListsOpen, ObservationBacked,
     HasActiveExecution, Normalized, PostOrder
<1>7. PendingPosition'  BY DEF IInv, PendingPosition, Derivable, PostOrder
<1>8. LedgerBacked'
  BY DEF IInv, RowsWritten, AttemptInFlight, LedgerBacked, PostOrder
<1>9. /\ RowsWritten' /\ ListsOpen' /\ PnlSettled' /\ NoDoubleEntry'
      /\ PositionBacked' /\ ActiveNotAuthorized'
  BY DEF IInv, RowsWritten, ListsOpen, PnlSettled, NoDoubleEntry,
     PositionBacked, ActiveNotAuthorized, PostOrder
<1> QED  BY <1>1, <1>2, <1>3, <1>4, <1>5, <1>6, <1>7, <1>8, <1>9 DEF IInv

LEMMA PostRejectedPreserves ==
  ASSUME IInv, PostRejected
  PROVE  IInv'
<1>1. TypeOK'  BY ConstantAssumption DEF IInv, TypeOK, ExecPC, PostRejected
<1>2. AttemptInFlight'  BY DEF IInv, AttemptInFlight, PostRejected
<1>3. GuardsHold'
  BY DEF IInv, GuardsHold, HasActiveExecution,
     HasActiveMarketOutcomeExposure, PostRejected
<1>4. AnswerBacked'
  BY DEF IInv, RowsWritten, AttemptInFlight, AnswerBacked, LedgerBacked,
     PostRejected
<1>5. PendingPosition'  BY DEF IInv, PendingPosition, Derivable, PostRejected
<1>6. /\ RowsWritten' /\ OrdersMatched' /\ ListsOpen' /\ ObservationBacked'
      /\ PnlSettled' /\ NoDoubleEntry' /\ LedgerBacked' /\ PositionBacked'
      /\ ActiveNotAuthorized'
  BY DEF IInv, RowsWritten, OrdersMatched, ListsOpen, ObservationBacked,
     PnlSettled, NoDoubleEntry, LedgerBacked, PositionBacked,
     ActiveNotAuthorized, PostRejected
<1> QED  BY <1>1, <1>2, <1>3, <1>4, <1>5, <1>6 DEF IInv

LEMMA OrderSnapshotPreserves ==
  ASSUME IInv, OrderSnapshot
  PROVE  IInv'
<1>1. TypeOK'
  BY ConstantAssumption DEF IInv, TypeOK, AttemptInFlight, ExecPC,
     Normalized, Inject, OrderSnapshot
<1>2. AttemptInFlight'  BY DEF IInv, AttemptInFlight, OrderSnapshot
<1>3. GuardsHold'
  BY DEF IInv, GuardsHold, HasActiveExecution,
     HasActiveMarketOutcomeExposure, OrderSnapshot
<1>4. AnswerBacked'
  BY DEF IInv, TypeOK, OrdersMatched, AttemptInFlight, AnswerBacked,
     Normalized, OrderSnapshot
<1>5. PendingPosition'
  BY DEF IInv, PendingPosition, Derivable, OrderSnapshot
<1>6. /\ RowsWritten' /\ OrdersMatched' /\ ListsOpen' /\ ObservationBacked'
      /\ PnlSettled' /\ NoDoubleEntry' /\ LedgerBacked' /\ PositionBacked'
      /\ ActiveNotAuthorized'
  BY DEF IInv, RowsWritten, OrdersMatched, ListsOpen, ObservationBacked,
     PnlSettled, NoDoubleEntry, LedgerBacked, PositionBacked,
     ActiveNotAuthorized, OrderSnapshot
<1> QED  BY <1>1, <1>2, <1>3, <1>4, <1>5, <1>6 DEF IInv

LEMMA LoseAnswerPreserves ==
  ASSUME IInv, LoseAnswer
  PROVE  IInv'
<1>1. TypeOK'
  BY ConstantAssumption DEF IInv, TypeOK, ExecPC, Inject, LoseAnswer
<1>2. AttemptInFlight'  BY DEF IInv, AttemptInFlight, Inject, LoseAnswer
<1>3. GuardsHold'
  BY DEF IInv, GuardsHold, HasActiveExecution,
     HasActiveMarketOutcomeExposure, LoseAnswer
<1>4. AnswerBacked'
  BY DEF IInv, RowsWritten, AttemptInFlight, AnswerBacked, LedgerBacked,
     LoseAnswer
<1>5. PendingPosition'  BY DEF IInv, PendingPosition, Derivable, LoseAnswer
<1>6. /\ RowsWritten' /\ OrdersMatched' /\ ListsOpen' /\ ObservationBacked'
      /\ PnlSettled' /\ NoDoubleEntry' /\ LedgerBacked' /\ PositionBacked'
      /\ ActiveNotAuthorized'
  BY DEF IInv, RowsWritten, OrdersMatched, ListsOpen, ObservationBacked,
     PnlSettled, NoDoubleEntry, LedgerBacked, PositionBacked,
     ActiveNotAuthorized, LoseAnswer
<1> QED  BY <1>1, <1>2, <1>3, <1>4, <1>5, <1>6 DEF IInv

LEMMA RecordFailedPreserves ==
  ASSUME IInv, RecordFailed
  PROVE  IInv'
<1>1. TypeOK'
  BY ConstantAssumption DEF IInv, TypeOK, AttemptInFlight, ExecPC,
     NextRecord, RecordFailed
<1>2. AttemptInFlight'
  BY DEF IInv, AttemptInFlight, NextRecord, RecordFailed
<1>3. GuardsHold'  BY DEF IInv, GuardsHold, NextRecord, RecordFailed
<1>4. AnswerBacked'  BY DEF IInv, AnswerBacked, NextRecord, RecordFailed
<1>5. PendingPosition'
  BY DEF IInv, PendingPosition, Derivable, NextRecord, RecordFailed
<1>6. /\ RowsWritten' /\ OrdersMatched' /\ ListsOpen' /\ ObservationBacked'
      /\ PnlSettled' /\ NoDoubleEntry' /\ LedgerBacked' /\ PositionBacked'
      /\ ActiveNotAuthorized'
  BY DEF IInv, RowsWritten, OrdersMatched, ListsOpen, ObservationBacked,
     PnlSettled, NoDoubleEntry, LedgerBacked, PositionBacked,
     ActiveNotAuthorized, RecordFailed
<1> QED  BY <1>1, <1>2, <1>3, <1>4, <1>5, <1>6 DEF IInv

LEMMA LoseRecordPreserves ==
  ASSUME IInv, LoseRecord
  PROVE  IInv'
<1>0. xe \in Execs \ xfail /\ est[xe] = "none" /\ xpc = "record"
  BY DEF IInv, AttemptInFlight, LoseRecord
<1>1. TypeOK'
  <2>1. owner' \in [Execs -> Proposals \cup {NoProposal}]
    BY DEF IInv, TypeOK, LoseRecord
  <2> QED  BY <2>1, ConstantAssumption
           DEF IInv, TypeOK, ExecPC, Inject, NextRecord, LoseRecord
<1>2. \A e \in Execs : e # xe => owner'[e] = owner[e]
  BY DEF IInv, TypeOK, LoseRecord
<1>3. RowsWritten'  BY <1>0, <1>2 DEF IInv, RowsWritten, LoseRecord
<1>4. AttemptInFlight'
  BY <1>0, <1>2
     DEF IInv, TypeOK, AttemptInFlight, NextRecord, LoseRecord
<1>5. GuardsHold'  BY DEF GuardsHold, NextRecord, LoseRecord
<1>6. AnswerBacked'  BY DEF AnswerBacked, NextRecord, LoseRecord
<1>7. PendingPosition'
  BY <1>0 DEF IInv, PendingPosition, Derivable, NextRecord, LoseRecord
<1>8. NoDoubleEntry'  BY <1>0, <1>2 DEF IInv, NoDoubleEntry, LoseRecord
<1>9. ActiveNotAuthorized'
  BY <1>0, <1>2 DEF IInv, ActiveNotAuthorized, LoseRecord
<1>10. /\ OrdersMatched' /\ ListsOpen' /\ ObservationBacked' /\ PnlSettled'
       /\ LedgerBacked' /\ PositionBacked'
  BY DEF IInv, OrdersMatched, ListsOpen, ObservationBacked, PnlSettled,
     LedgerBacked, PositionBacked, LoseRecord
<1> QED  BY <1>1, <1>3, <1>4, <1>5, <1>6, <1>7, <1>8, <1>9, <1>10 DEF IInv

LEMMA RecordActivePreserves ==
  ASSUME IInv, RecordActive
  PROVE  IInv'
<1>1. TypeOK'
  <2>1. locked' \in BOOLEAN
    BY DEF RecordActive
  <2>2. est' \in [Execs -> ExecStatus \cup {"none"}]
    BY CommittedType DEF IInv, TypeOK, RecordActive
  <2>3. prop' \in [Proposals -> PropStatus]
    BY CommittedType DEF IInv, TypeOK, RecordActive, PropStatus
  <2>4. fill' \in [Execs -> 0..Full]
    BY DEF IInv, TypeOK, RecordActive
  <2> QED  BY <2>1, <2>2, <2>3, <2>4, CommittedType, ConstantAssumption
           DEF IInv, TypeOK, RecordActive, ExecPC
<1>2. RowsWritten'
  BY DEF IInv, RowsWritten, AttemptInFlight, PendingPosition, Derivable,
     CommittedStatus, CommittedPositions, RecordActive
<1>3. AttemptInFlight'
  BY DEF IInv, AttemptInFlight, CommittedStatus, RecordActive
<1>4. GuardsHold'  BY DEF IInv, GuardsHold, CommittedStatus, RecordActive
<1>5. AnswerBacked'  BY DEF IInv, AnswerBacked, RecordActive
<1>6. ListsOpen'
  BY DEF IInv, TypeOK, AttemptInFlight, ListsOpen, CommittedStatus,
     RecordActive
<1>7. ObservationBacked'
  BY DEF IInv, GuardsHold, ListsOpen, ObservationBacked,
     HasActiveExecution, CommittedStatus, RecordActive
<1>8. PendingPosition'  BY DEF IInv, PendingPosition, RecordActive
<1>9. PnlSettled'
  BY DEF IInv, TypeOK, PnlSettled, CommittedPositions, CommittedPnl,
     RecordActive
<1>10. NoDoubleEntry'
  BY DEF IInv, RowsWritten, GuardsHold, NoDoubleEntry, HasActiveExecution,
     HasActiveMarketOutcomeExposure, CommittedStatus, RecordActive
<1>11. LedgerBacked'
  BY DEF IInv, AnswerBacked, LedgerBacked, CommittedStatus, RecordActive
<1>12. PositionBacked'
  BY DEF IInv, AttemptInFlight, PendingPosition, PositionBacked,
     Derivable, CommittedStatus, CommittedPositions, RecordActive
<1>13. ActiveNotAuthorized'
  BY DEF IInv, RowsWritten, AttemptInFlight, ActiveNotAuthorized,
     CommittedStatus, CommittedProposals, RecordActive
<1>14. OrdersMatched'  BY DEF IInv, OrdersMatched, RecordActive
<1> QED  BY <1>1, <1>2, <1>3, <1>4, <1>5, <1>6, <1>7, <1>8, <1>9, <1>10,
        <1>11, <1>12, <1>13, <1>14 DEF IInv

LEMMA SyncReadPreserves ==
  ASSUME IInv, SyncRead
  PROVE  IInv'
<1>1. TypeOK'
  <2>1. SyncedPosition(est[xe], fill[xe], pos[xe]) \in PosStatus \cup {"none"}
    BY SyncedPositionType DEF IInv, TypeOK, AttemptInFlight, SyncRead
  <2>2. /\ xval' \in PosStatus \cup {"none"}
        /\ xe' \in Execs \cup {NoExec} /\ xpc' \in ExecPC
        /\ xst' \in ExecStatus \cup {"none"} /\ xfill' \in 0..Full
    BY <2>1, ConstantAssumption
       DEF IInv, TypeOK, SyncRead, NextRecord, ExecPC
  <2>3. locked' \in BOOLEAN
    BY DEF IInv, TypeOK, SyncRead
  <2> QED  BY <2>2, <2>3 DEF IInv, TypeOK, SyncRead
<1>2. AttemptInFlight'  BY DEF IInv, AttemptInFlight, NextRecord, SyncRead
<1>3. GuardsHold'  BY DEF IInv, GuardsHold, NextRecord, SyncRead
<1>4. AnswerBacked'  BY DEF IInv, AnswerBacked, NextRecord, SyncRead
<1>5. PendingPosition'
  BY DEF IInv, TypeOK, AttemptInFlight, PendingPosition, Derivable,
     SyncedPosition, NextRecord, SyncRead
<1>6. /\ RowsWritten' /\ OrdersMatched' /\ ListsOpen' /\ ObservationBacked'
      /\ PnlSettled' /\ NoDoubleEntry' /\ LedgerBacked' /\ PositionBacked'
      /\ ActiveNotAuthorized'
  BY DEF IInv, RowsWritten, OrdersMatched, ListsOpen, ObservationBacked,
     PnlSettled, NoDoubleEntry, LedgerBacked, PositionBacked,
     ActiveNotAuthorized, SyncRead
<1> QED  BY <1>1, <1>2, <1>3, <1>4, <1>5, <1>6 DEF IInv

LEMMA SyncWritePreserves ==
  ASSUME IInv, SyncWrite
  PROVE  IInv'
<1>1. TypeOK'
  BY ConstantAssumption DEF IInv, TypeOK, ExecPC, NextRecord, SyncWrite
<1>2. AttemptInFlight'  BY DEF IInv, AttemptInFlight, NextRecord, SyncWrite
<1>3. GuardsHold'  BY DEF IInv, GuardsHold, NextRecord, SyncWrite
<1>4. AnswerBacked'  BY DEF IInv, AnswerBacked, NextRecord, SyncWrite
<1>5. PendingPosition'
  BY DEF IInv, PendingPosition, Derivable, NextRecord, SyncWrite
<1>6. /\ RowsWritten' /\ OrdersMatched' /\ ListsOpen' /\ ObservationBacked'
      /\ PnlSettled' /\ NoDoubleEntry' /\ LedgerBacked' /\ PositionBacked'
      /\ ActiveNotAuthorized'
  BY DEF IInv, RowsWritten, OrdersMatched, ListsOpen, ObservationBacked,
     PnlSettled, NoDoubleEntry, LedgerBacked, PositionBacked,
     ActiveNotAuthorized, SyncWrite
<1> QED  BY <1>1, <1>2, <1>3, <1>4, <1>5, <1>6 DEF IInv

LEMMA SyncFailsPreserves ==
  ASSUME IInv, SyncFails
  PROVE  IInv'
<1>1. TypeOK'
  BY ConstantAssumption DEF IInv, TypeOK, ExecPC, NextRecord, Inject,
     SyncFails
<1>2. AttemptInFlight'
  BY DEF IInv, AttemptInFlight, NextRecord, Inject, SyncFails
<1>3. GuardsHold'  BY DEF IInv, GuardsHold, NextRecord, SyncFails
<1>4. AnswerBacked'  BY DEF IInv, AnswerBacked, NextRecord, SyncFails
<1>5. PendingPosition'
  BY DEF IInv, AttemptInFlight, PendingPosition, NextRecord, SyncFails
<1>6. /\ RowsWritten' /\ OrdersMatched' /\ ListsOpen' /\ ObservationBacked'
      /\ PnlSettled' /\ NoDoubleEntry' /\ LedgerBacked' /\ PositionBacked'
      /\ ActiveNotAuthorized'
  BY DEF IInv, RowsWritten, OrdersMatched, ListsOpen, ObservationBacked,
     PnlSettled, NoDoubleEntry, LedgerBacked, PositionBacked,
     ActiveNotAuthorized, SyncFails
<1> QED  BY <1>1, <1>2, <1>3, <1>4, <1>5, <1>6 DEF IInv

LEMMA EndExecuteTickPreserves ==
  ASSUME IInv, EndExecuteTick
  PROVE  IInv'
<1>1. TypeOK'
  <2>1. locked' \in BOOLEAN
    BY DEF EndExecuteTick
  <2> QED  BY <2>1, CommittedType, ConstantAssumption
           DEF IInv, TypeOK, EndExecuteTick, ExecPC
<1>2. RowsWritten'
  BY DEF IInv, RowsWritten, AttemptInFlight, PendingPosition, Derivable,
     CommittedStatus, CommittedPositions, EndExecuteTick
<1>3. AttemptInFlight'  BY DEF IInv, AttemptInFlight, EndExecuteTick
<1>4. GuardsHold'  BY DEF IInv, GuardsHold, EndExecuteTick
<1>5. AnswerBacked'  BY DEF IInv, AnswerBacked, EndExecuteTick
<1>6. ListsOpen'
  BY DEF IInv, TypeOK, AttemptInFlight, ListsOpen, CommittedStatus,
     EndExecuteTick
<1>7. PendingPosition'  BY DEF IInv, PendingPosition, EndExecuteTick
<1>8. PnlSettled'
  BY DEF IInv, TypeOK, PnlSettled, CommittedPositions, CommittedPnl,
     EndExecuteTick
<1>9. NoDoubleEntry'
  BY DEF IInv, NoDoubleEntry, CommittedStatus, EndExecuteTick
<1>10. LedgerBacked'
  BY DEF IInv, LedgerBacked, CommittedStatus, EndExecuteTick
<1>11. PositionBacked'
  BY DEF IInv, AttemptInFlight, PendingPosition, PositionBacked,
     Derivable, CommittedStatus, CommittedPositions, EndExecuteTick
<1>12. ActiveNotAuthorized'
  BY DEF IInv, RowsWritten, ActiveNotAuthorized, CommittedStatus,
     CommittedProposals, EndExecuteTick
<1>13. /\ OrdersMatched' /\ ObservationBacked'
  BY DEF IInv, OrdersMatched, ObservationBacked, EndExecuteTick
<1> QED  BY <1>1, <1>2, <1>3, <1>4, <1>5, <1>6, <1>7, <1>8, <1>9, <1>10,
        <1>11, <1>12, <1>13 DEF IInv

-----------------------------------------------------------------------------
\* The reconcile loop: _loop_reconcile.

LEMMA RepairPositionsPreserves ==
  ASSUME IInv, RepairPositions
  PROVE  IInv'
<1>1. TypeOK'  BY DEF IInv, TypeOK, RecPC, Repaired, RepairPositions
<1>2. RowsWritten'  BY DEF IInv, RowsWritten, Repaired, RepairPositions
<1>3. ListsOpen'  BY DEF IInv, ListsOpen, Repaired, RepairPositions
<1>4. ObservationBacked'  BY DEF IInv, ObservationBacked, RepairPositions
<1>5. PnlSettled'  BY DEF IInv, PnlSettled, Repaired, RepairPositions
<1>6. PositionBacked'  BY DEF IInv, PositionBacked, Repaired, RepairPositions
<1>7. /\ OrdersMatched' /\ AttemptInFlight' /\ GuardsHold' /\ AnswerBacked'
      /\ PendingPosition' /\ NoDoubleEntry' /\ LedgerBacked'
      /\ ActiveNotAuthorized'
  BY DEF IInv, OrdersMatched, AttemptInFlight, GuardsHold, AnswerBacked,
     PendingPosition, NoDoubleEntry, LedgerBacked, ActiveNotAuthorized,
     Derivable, HasActiveExecution, HasActiveMarketOutcomeExposure,
     RepairPositions
<1> QED  BY <1>1, <1>2, <1>3, <1>4, <1>5, <1>6, <1>7 DEF IInv

LEMMA ListStalePreserves ==
  ASSUME IInv, ListStale
  PROVE  IInv'
<1>1. TypeOK'  BY DEF IInv, TypeOK, RecPC, ListStale
<1>2. ListsOpen'  BY DEF IInv, ListsOpen, ListStale
<1>3. ObservationBacked'  BY DEF IInv, ObservationBacked, ListStale
<1>4. /\ RowsWritten' /\ OrdersMatched' /\ AttemptInFlight' /\ GuardsHold'
      /\ AnswerBacked' /\ PendingPosition' /\ PnlSettled' /\ NoDoubleEntry'
      /\ LedgerBacked' /\ PositionBacked' /\ ActiveNotAuthorized'
  BY DEF IInv, RowsWritten, OrdersMatched, AttemptInFlight, GuardsHold,
     AnswerBacked, PendingPosition, PnlSettled, NoDoubleEntry,
     LedgerBacked, PositionBacked, ActiveNotAuthorized, Derivable,
     HasActiveExecution, HasActiveMarketOutcomeExposure, ListStale
<1> QED  BY <1>1, <1>2, <1>3, <1>4 DEF IInv

LEMMA CancelOrderPreserves ==
  ASSUME NEW e \in Execs,
         IInv, CancelOrder(e)
  PROVE  IInv'
<1>1. TypeOK'  BY DEF IInv, TypeOK, RecPC, Inject, CancelOrder
<1>2. OrdersMatched'  BY DEF IInv, TypeOK, OrdersMatched, Inject, CancelOrder
<1>3. AnswerBacked'
  BY DEF IInv, TypeOK, AttemptInFlight, AnswerBacked, CancelOrder
<1>4. ListsOpen'  BY DEF IInv, ListsOpen, CancelOrder
<1>5. ObservationBacked'  BY DEF IInv, ObservationBacked, CancelOrder
<1>6. LedgerBacked'  BY DEF IInv, TypeOK, LedgerBacked, CancelOrder
<1>7. /\ RowsWritten' /\ AttemptInFlight' /\ GuardsHold' /\ PendingPosition'
      /\ PnlSettled' /\ NoDoubleEntry' /\ PositionBacked'
      /\ ActiveNotAuthorized'
  BY DEF IInv, RowsWritten, AttemptInFlight, GuardsHold, PendingPosition,
     PnlSettled, NoDoubleEntry, PositionBacked, ActiveNotAuthorized,
     Derivable, HasActiveExecution, HasActiveMarketOutcomeExposure,
     CancelOrder
<1> QED  BY <1>1, <1>2, <1>3, <1>4, <1>5, <1>6, <1>7 DEF IInv

LEMMA WriteOffStalePreserves ==
  ASSUME IInv, WriteOffStale
  PROVE  IInv'
<1>1. TypeOK'
  BY DEF IInv, TypeOK, ListsOpen, RecPC, SyncedPosition, WriteOffStale
<1>2. RowsWritten'
  BY DEF IInv, RowsWritten, ListsOpen, SyncedPosition, WriteOffStale
<1>3. AttemptInFlight'
  BY DEF IInv, AttemptInFlight, ListsOpen, WriteOffStale
<1>4. GuardsHold'
  BY DEF IInv, GuardsHold, HasActiveExecution,
     HasActiveMarketOutcomeExposure, WriteOffStale
<1>5. ListsOpen'  BY DEF IInv, ListsOpen, WriteOffStale
<1>6. ObservationBacked'  BY DEF IInv, ObservationBacked, WriteOffStale
<1>7. PendingPosition'
  BY DEF IInv, ListsOpen, PendingPosition, Derivable, WriteOffStale
<1>8. PnlSettled'  BY DEF IInv, PnlSettled, SyncedPosition, WriteOffStale
<1>9. NoDoubleEntry'  BY DEF IInv, NoDoubleEntry, WriteOffStale
<1>10. LedgerBacked'  BY DEF IInv, LedgerBacked, WriteOffStale
<1>11. PositionBacked'
  BY DEF IInv, TypeOK, ListsOpen, PositionBacked, SyncedPosition,
     WriteOffStale
<1>12. ActiveNotAuthorized'
  BY DEF IInv, ActiveNotAuthorized, SyncedPosition, WriteOffStale
<1>13. /\ OrdersMatched' /\ AnswerBacked'
  BY DEF IInv, OrdersMatched, AnswerBacked, WriteOffStale
<1> QED  BY <1>1, <1>2, <1>3, <1>4, <1>5, <1>6, <1>7, <1>8, <1>9, <1>10,
        <1>11, <1>12, <1>13 DEF IInv

LEMMA ListLivePreserves ==
  ASSUME IInv, ListLive
  PROVE  IInv'
<1>1. TypeOK'  BY DEF IInv, TypeOK, RecPC, ListLive
<1>2. ListsOpen'  BY DEF IInv, ListsOpen, ListLive
<1>3. ObservationBacked'  BY DEF IInv, ObservationBacked, ListLive
<1>4. /\ RowsWritten' /\ OrdersMatched' /\ AttemptInFlight' /\ GuardsHold'
      /\ AnswerBacked' /\ PendingPosition' /\ PnlSettled' /\ NoDoubleEntry'
      /\ LedgerBacked' /\ PositionBacked' /\ ActiveNotAuthorized'
  BY DEF IInv, RowsWritten, OrdersMatched, AttemptInFlight, GuardsHold,
     AnswerBacked, PendingPosition, PnlSettled, NoDoubleEntry,
     LedgerBacked, PositionBacked, ActiveNotAuthorized, Derivable,
     HasActiveExecution, HasActiveMarketOutcomeExposure, ListLive
<1> QED  BY <1>1, <1>2, <1>3, <1>4 DEF IInv

LEMMA GetOrderPreserves ==
  ASSUME NEW e \in Execs,
         IInv, GetOrder(e)
  PROVE  IInv'
<1>1. TypeOK'
  BY ConstantAssumption DEF IInv, TypeOK, RecPC, Inject, Normalized,
     GetOrder
<1>2. ListsOpen'  BY DEF IInv, ListsOpen, Inject, Normalized, GetOrder
<1>3. ObservationBacked'
  BY DEF IInv, TypeOK, ListsOpen, ObservationBacked, LedgerBacked,
     Normalized, GetOrder
<1>4. /\ RowsWritten' /\ OrdersMatched' /\ AttemptInFlight' /\ GuardsHold'
      /\ AnswerBacked' /\ PendingPosition' /\ PnlSettled' /\ NoDoubleEntry'
      /\ LedgerBacked' /\ PositionBacked' /\ ActiveNotAuthorized'
  BY DEF IInv, RowsWritten, OrdersMatched, AttemptInFlight, GuardsHold,
     AnswerBacked, PendingPosition, PnlSettled, NoDoubleEntry,
     LedgerBacked, PositionBacked, ActiveNotAuthorized, Derivable,
     HasActiveExecution, HasActiveMarketOutcomeExposure, GetOrder
<1> QED  BY <1>1, <1>2, <1>3, <1>4 DEF IInv

LEMMA UpdateExecutionPreserves ==
  ASSUME IInv, UpdateExecution
  PROVE  IInv'
<1>1. TypeOK'
  <2>1. FillToRecord \in 0..Full
    BY ConstantAssumption
       DEF IInv, TypeOK, ListsOpen, UpdateExecution, FillToRecord
  <2>2. /\ robs.status \in ExecStatus \cup {"none"}
        /\ pos[re] \in PosStatus \cup {"none"}
    BY DEF IInv, TypeOK, ListsOpen, UpdateExecution
  <2>3. SyncedPosition(robs.status, FillToRecord, pos[re])
          \in PosStatus \cup {"none"}
    BY <2>1, <2>2, SyncedPositionType
  <2>4. pos' \in [Execs -> PosStatus \cup {"none"}]
    BY <2>3 DEF IInv, TypeOK, UpdateExecution
  <2> QED  BY <2>1, <2>4, ConstantAssumption
           DEF IInv, TypeOK, UpdateExecution, NoObservation, RecPC
<1>2. RowsWritten'
  BY DEF IInv, TypeOK, RowsWritten, ListsOpen, ObservationBacked,
     UpdateExecution
<1>3. AttemptInFlight'
  BY DEF IInv, TypeOK, AttemptInFlight, ListsOpen, ObservationBacked,
     UpdateExecution
<1>4. GuardsHold'
  BY DEF IInv, TypeOK, GuardsHold, ListsOpen, HasActiveExecution,
     HasActiveMarketOutcomeExposure, UpdateExecution
<1>5. ListsOpen'  BY DEF IInv, TypeOK, ListsOpen, UpdateExecution
<1>6. ObservationBacked'  BY DEF IInv, ObservationBacked, UpdateExecution
<1>7. PendingPosition'
  BY DEF IInv, TypeOK, AttemptInFlight, ListsOpen, ObservationBacked,
     PendingPosition, Derivable, UpdateExecution
<1>8. PnlSettled'
  BY DEF IInv, TypeOK, PnlSettled, SyncedPosition, UpdateExecution
<1>9. NoDoubleEntry'
  BY DEF IInv, TypeOK, ListsOpen, NoDoubleEntry, UpdateExecution
<1>10. LedgerBacked'
  BY DEF IInv, TypeOK, OrdersMatched, ObservationBacked, LedgerBacked,
     FillToRecord, UpdateExecution
<1>11. PositionBacked'
  BY DEF IInv, TypeOK, ListsOpen, ObservationBacked, PositionBacked,
     SyncedPosition, UpdateExecution
<1>12. ActiveNotAuthorized'
  BY DEF IInv, TypeOK, ListsOpen, ActiveNotAuthorized, UpdateExecution
<1>13. /\ OrdersMatched' /\ AnswerBacked'
  BY DEF IInv, OrdersMatched, AnswerBacked, UpdateExecution
<1> QED  BY <1>1, <1>2, <1>3, <1>4, <1>5, <1>6, <1>7, <1>8, <1>9, <1>10,
        <1>11, <1>12, <1>13 DEF IInv

LEMMA ListMarketsPreserves ==
  ASSUME IInv, ListMarkets
  PROVE  IInv'
<1>1. TypeOK'
  <2>1. rmk' \subseteq Markets
    BY ConstantAssumption DEF IInv, TypeOK, RowsWritten, ListMarkets
  <2>2. /\ rpc' = "backfill"
        /\ UNCHANGED <<dbVars, clobVars, execVars, budget, rq, re, robs>>
    BY DEF ListMarkets
  <2> QED  BY <2>1, <2>2 DEF IInv, TypeOK, RecPC
<1>2. ListsOpen'  BY DEF IInv, ListsOpen, ListMarkets
<1>3. ObservationBacked'  BY DEF IInv, ObservationBacked, ListMarkets
<1>4. /\ RowsWritten' /\ OrdersMatched' /\ AttemptInFlight' /\ GuardsHold'
      /\ AnswerBacked' /\ PendingPosition' /\ PnlSettled' /\ NoDoubleEntry'
      /\ LedgerBacked' /\ PositionBacked' /\ ActiveNotAuthorized'
  BY DEF IInv, RowsWritten, OrdersMatched, AttemptInFlight, GuardsHold,
     AnswerBacked, PendingPosition, PnlSettled, NoDoubleEntry,
     LedgerBacked, PositionBacked, ActiveNotAuthorized, Derivable,
     HasActiveExecution, HasActiveMarketOutcomeExposure, ListMarkets
<1> QED  BY <1>1, <1>2, <1>3, <1>4 DEF IInv

LEMMA BackfillResolutionPreserves ==
  ASSUME NEW m \in Markets,
         IInv, BackfillResolution(m)
  PROVE  IInv'
<1>1. TypeOK'
  <2>1. resolved' \in [Markets -> BOOLEAN]
    BY DEF IInv, TypeOK, BackfillResolution
  <2>2. budget' \in Nat
    BY DEF IInv, TypeOK, BackfillResolution, Inject
  <2> QED  BY <2>1, <2>2 DEF IInv, TypeOK, BackfillResolution
<1>2. GuardsHold'
  BY ConstantAssumption DEF IInv, TypeOK, GuardsHold, HasActiveExecution,
     HasActiveMarketOutcomeExposure, BackfillResolution
<1>3. NoDoubleEntry'
  BY ConstantAssumption DEF IInv, TypeOK, NoDoubleEntry,
     BackfillResolution
<1>4. /\ RowsWritten' /\ OrdersMatched' /\ AttemptInFlight' /\ AnswerBacked'
      /\ ListsOpen' /\ ObservationBacked' /\ PendingPosition' /\ PnlSettled'
      /\ LedgerBacked' /\ PositionBacked' /\ ActiveNotAuthorized'
  BY DEF IInv, RowsWritten, OrdersMatched, AttemptInFlight, AnswerBacked,
     ListsOpen, ObservationBacked, PendingPosition, PnlSettled,
     LedgerBacked, PositionBacked, ActiveNotAuthorized, Derivable,
     BackfillResolution
<1> QED  BY <1>1, <1>2, <1>3, <1>4 DEF IInv

LEMMA SyncAndMarkPreserves ==
  ASSUME IInv, SyncAndMark
  PROVE  IInv'
<1>1. TypeOK'
  <2>1. \A e \in Execs : Synced(e) \in PosStatus \cup {"none"}
    BY SyncedPositionType DEF IInv, TypeOK, Synced
  <2>2. pos' \in [Execs -> PosStatus \cup {"none"}]
    BY <2>1 DEF SyncAndMark
  <2>3. \A e \in Execs : Settles(e) \in BOOLEAN
    BY DEF Settles
  <2>4. pnl' \in [Execs -> BOOLEAN]
    BY <2>3 DEF IInv, TypeOK, SyncAndMark
  <2>5. /\ rpc' = "idle"
        /\ UNCHANGED <<prop, owner, est, fill, resolved, shadow>>
        /\ UNCHANGED <<clobVars, execVars, rq, re, robs, rmk, budget>>
    BY DEF SyncAndMark
  <2>6. locked' \in BOOLEAN
    BY <2>5 DEF IInv, TypeOK
  <2> QED  BY <2>2, <2>4, <2>5, <2>6 DEF IInv, TypeOK, RecPC
<1>2. RowsWritten'
  BY DEF IInv, RowsWritten, Synced, Settles, SyncedPosition, SyncAndMark
<1>3. ListsOpen'
  BY DEF IInv, ListsOpen, Synced, Settles, SyncedPosition, SyncAndMark
<1>4. ObservationBacked'  BY DEF IInv, ObservationBacked, SyncAndMark
<1>5. PnlSettled'
  BY DEF IInv, PnlSettled, Synced, SyncedPosition, SyncAndMark
<1>6. PositionBacked'
  BY DEF IInv, TypeOK, PositionBacked, Synced, Settles, SyncedPosition,
     SyncAndMark
<1>7. /\ OrdersMatched' /\ AttemptInFlight' /\ GuardsHold' /\ AnswerBacked'
      /\ PendingPosition' /\ NoDoubleEntry' /\ LedgerBacked'
      /\ ActiveNotAuthorized'
  BY DEF IInv, OrdersMatched, AttemptInFlight, GuardsHold, AnswerBacked,
     PendingPosition, NoDoubleEntry, LedgerBacked, ActiveNotAuthorized,
     Derivable, HasActiveExecution, HasActiveMarketOutcomeExposure,
     SyncAndMark
<1> QED  BY <1>1, <1>2, <1>3, <1>4, <1>5, <1>6, <1>7 DEF IInv

LEMMA AbortReconcilePreserves ==
  ASSUME IInv, AbortReconcile
  PROVE  IInv'
<1>1. TypeOK'
  BY ConstantAssumption DEF IInv, TypeOK, RecPC, Inject, LoseReconcile,
     NoObservation, AbortReconcile
<1>2. ListsOpen'  BY DEF IInv, ListsOpen, LoseReconcile, AbortReconcile
<1>3. ObservationBacked'
  BY DEF IInv, ObservationBacked, LoseReconcile, AbortReconcile
<1>4. /\ RowsWritten' /\ OrdersMatched' /\ AttemptInFlight' /\ GuardsHold'
      /\ AnswerBacked' /\ PendingPosition' /\ PnlSettled' /\ NoDoubleEntry'
      /\ LedgerBacked' /\ PositionBacked' /\ ActiveNotAuthorized'
  BY DEF IInv, RowsWritten, OrdersMatched, AttemptInFlight, GuardsHold,
     AnswerBacked, PendingPosition, PnlSettled, NoDoubleEntry,
     LedgerBacked, PositionBacked, ActiveNotAuthorized, Derivable,
     HasActiveExecution, HasActiveMarketOutcomeExposure, AbortReconcile
<1> QED  BY <1>1, <1>2, <1>3, <1>4 DEF IInv

-----------------------------------------------------------------------------
\* The exchange, the markets, the clock, the propose loop and crashes.

LEMMA MatchOrderPreserves ==
  ASSUME NEW e \in Execs,
         IInv, MatchOrder(e)
  PROVE  IInv'
<1>1. TypeOK'  BY DEF IInv, TypeOK, MatchOrder
<1>2. OrdersMatched'  BY DEF IInv, TypeOK, OrdersMatched, MatchOrder
<1>3. AnswerBacked'  BY DEF IInv, TypeOK, AnswerBacked, MatchOrder
<1>4. ObservationBacked'  BY DEF IInv, TypeOK, ObservationBacked, MatchOrder
<1>5. LedgerBacked'  BY DEF IInv, TypeOK, LedgerBacked, MatchOrder
<1>6. /\ RowsWritten' /\ AttemptInFlight' /\ GuardsHold' /\ ListsOpen'
      /\ PendingPosition' /\ PnlSettled' /\ NoDoubleEntry'
      /\ PositionBacked' /\ ActiveNotAuthorized'
  BY DEF IInv, RowsWritten, AttemptInFlight, GuardsHold, ListsOpen,
     PendingPosition, PnlSettled, NoDoubleEntry, PositionBacked,
     ActiveNotAuthorized, Derivable, HasActiveExecution,
     HasActiveMarketOutcomeExposure, MatchOrder
<1> QED  BY <1>1, <1>2, <1>3, <1>4, <1>5, <1>6 DEF IInv

LEMMA InvalidateOrderPreserves ==
  ASSUME NEW e \in Execs,
         IInv, InvalidateOrder(e)
  PROVE  IInv'
<1>1. TypeOK'  BY DEF IInv, TypeOK, InvalidateOrder
<1>2. OrdersMatched'  BY DEF IInv, OrdersMatched, InvalidateOrder
<1>3. AnswerBacked'  BY DEF IInv, AnswerBacked, InvalidateOrder
<1>4. ObservationBacked'  BY DEF IInv, ObservationBacked, InvalidateOrder
<1>5. LedgerBacked'  BY DEF IInv, LedgerBacked, InvalidateOrder
<1>6. /\ RowsWritten' /\ AttemptInFlight' /\ GuardsHold' /\ ListsOpen'
      /\ PendingPosition' /\ PnlSettled' /\ NoDoubleEntry'
      /\ PositionBacked' /\ ActiveNotAuthorized'
  BY DEF IInv, RowsWritten, AttemptInFlight, GuardsHold, ListsOpen,
     PendingPosition, PnlSettled, NoDoubleEntry, PositionBacked,
     ActiveNotAuthorized, Derivable, HasActiveExecution,
     HasActiveMarketOutcomeExposure, InvalidateOrder
<1> QED  BY <1>1, <1>2, <1>3, <1>4, <1>5, <1>6 DEF IInv

LEMMA CloseMarketPreserves ==
  ASSUME NEW m \in Markets,
         IInv, CloseMarket(m)
  PROVE  IInv'
<1>1. TypeOK'  BY DEF IInv, TypeOK, CloseMarket
<1>2. /\ RowsWritten' /\ OrdersMatched' /\ AttemptInFlight' /\ GuardsHold'
      /\ AnswerBacked' /\ ListsOpen' /\ ObservationBacked'
      /\ PendingPosition' /\ PnlSettled' /\ NoDoubleEntry' /\ LedgerBacked'
      /\ PositionBacked' /\ ActiveNotAuthorized'
  BY DEF IInv, RowsWritten, OrdersMatched, AttemptInFlight, GuardsHold,
     AnswerBacked, ListsOpen, ObservationBacked, PendingPosition,
     PnlSettled, NoDoubleEntry, LedgerBacked, PositionBacked,
     ActiveNotAuthorized, Derivable, HasActiveExecution,
     HasActiveMarketOutcomeExposure, CloseMarket
<1> QED  BY <1>1, <1>2 DEF IInv

LEMMA LapseTtlPreserves ==
  ASSUME NEW e \in Execs,
         IInv, LapseTtl(e)
  PROVE  IInv'
<1>1. TypeOK'  BY DEF IInv, TypeOK, LapseTtl
<1>2. /\ RowsWritten' /\ OrdersMatched' /\ AttemptInFlight' /\ GuardsHold'
      /\ AnswerBacked' /\ ListsOpen' /\ ObservationBacked'
      /\ PendingPosition' /\ PnlSettled' /\ NoDoubleEntry' /\ LedgerBacked'
      /\ PositionBacked' /\ ActiveNotAuthorized'
  BY DEF IInv, RowsWritten, OrdersMatched, AttemptInFlight, GuardsHold,
     AnswerBacked, ListsOpen, ObservationBacked, PendingPosition,
     PnlSettled, NoDoubleEntry, LedgerBacked, PositionBacked,
     ActiveNotAuthorized, Derivable, HasActiveExecution,
     HasActiveMarketOutcomeExposure, LapseTtl
<1> QED  BY <1>1, <1>2 DEF IInv

LEMMA AuthorizePreserves ==
  ASSUME NEW p \in Proposals,
         IInv, Authorize(p)
  PROVE  IInv'
<1>1. TypeOK'  BY DEF IInv, TypeOK, PropStatus, Authorize
<1>2. ActiveNotAuthorized'  BY DEF IInv, ActiveNotAuthorized, Authorize
<1>3. /\ RowsWritten' /\ OrdersMatched' /\ AttemptInFlight' /\ GuardsHold'
      /\ AnswerBacked' /\ ListsOpen' /\ ObservationBacked'
      /\ PendingPosition' /\ PnlSettled' /\ NoDoubleEntry' /\ LedgerBacked'
      /\ PositionBacked'
  BY DEF IInv, RowsWritten, OrdersMatched, AttemptInFlight, GuardsHold,
     AnswerBacked, ListsOpen, ObservationBacked, PendingPosition,
     PnlSettled, NoDoubleEntry, LedgerBacked, PositionBacked, Derivable,
     HasActiveExecution, HasActiveMarketOutcomeExposure, Authorize
<1> QED  BY <1>1, <1>2, <1>3 DEF IInv

LEMMA CrashPreserves ==
  ASSUME IInv, Crash
  PROVE  IInv'
<1>1. TypeOK'
  <2>1. budget' \in Nat
    BY DEF IInv, TypeOK, Crash, Inject
  <2>2. owner' \in [Execs -> Proposals \cup {NoProposal}]
    BY DEF IInv, TypeOK, Crash
  <2>3. /\ xpc' \in ExecPC /\ xq' \subseteq Proposals
        /\ xe' \in Execs \cup {NoExec} /\ xst' \in ExecStatus \cup {"none"}
        /\ xfill' \in 0..Full /\ xval' \in PosStatus \cup {"none"}
        /\ xfail' \subseteq Execs /\ xpos' \in Execs \cup {NoExec}
    BY ConstantAssumption DEF Crash, LoseExecute, ExecPC
  <2>4. /\ rpc' \in RecPC /\ rq' \subseteq Execs /\ re' \in Execs \cup {NoExec}
        /\ robs' \in [status : ExecStatus \cup {"none"}, size : 0..Full]
        /\ rmk' \subseteq Markets
    BY ConstantAssumption DEF Crash, LoseReconcile, NoObservation, RecPC
  <2>5. locked' \in BOOLEAN
    BY DEF Crash, LoseExecute
  <2> QED  BY <2>1, <2>2, <2>3, <2>4, <2>5 DEF IInv, TypeOK, Crash
<1>2. RowsWritten'  BY DEF IInv, RowsWritten, Crash
<1>3. AttemptInFlight'  BY DEF IInv, AttemptInFlight, LoseExecute, Crash
<1>4. GuardsHold'  BY DEF IInv, GuardsHold, LoseExecute, Crash
<1>5. AnswerBacked'  BY DEF IInv, AnswerBacked, LoseExecute, Crash
<1>6. ListsOpen'  BY DEF IInv, ListsOpen, LoseExecute, LoseReconcile, Crash
<1>7. ObservationBacked'
  BY DEF IInv, ObservationBacked, LoseReconcile, Crash
<1>8. PendingPosition'
  BY DEF IInv, PendingPosition, LoseExecute, LoseReconcile, Crash
<1>9. NoDoubleEntry'  BY DEF IInv, NoDoubleEntry, LoseExecute, Crash
<1>10. ActiveNotAuthorized'  BY DEF IInv, ActiveNotAuthorized, Crash
<1>11. /\ OrdersMatched' /\ PnlSettled' /\ LedgerBacked' /\ PositionBacked'
  BY DEF IInv, OrdersMatched, PnlSettled, LedgerBacked, PositionBacked,
     Crash
<1> QED  BY <1>1, <1>2, <1>3, <1>4, <1>5, <1>6, <1>7, <1>8, <1>9, <1>10,
        <1>11 DEF IInv


-----------------------------------------------------------------------------
(***************************************************************************)
(* The invariant of the specification, and what it implies.                *)
(***************************************************************************)

\* Every step keeps IInv.
LEMMA InvariantStep == IInv /\ [Next]_vars => IInv'
<1> SUFFICES ASSUME IInv, [Next]_vars PROVE IInv'
  OBVIOUS
<1>1. CASE ExecuteStep
  BY <1>1, ListAuthorizedPreserves, RefuseBeforePostPreserves,
     LoseRefusalPreserves, LoseRecordPreserves,
     PassGuardsPreserves, PostOrderPreserves, PostRejectedPreserves,
     OrderSnapshotPreserves, LoseAnswerPreserves, RecordFailedPreserves,
     RecordActivePreserves, SyncReadPreserves, SyncWritePreserves,
     SyncFailsPreserves, EndExecuteTickPreserves DEF ExecuteStep
<1>2. CASE ReconcileStep
  BY <1>2, RepairPositionsPreserves, ListStalePreserves, CancelOrderPreserves,
     WriteOffStalePreserves, ListLivePreserves, GetOrderPreserves,
     UpdateExecutionPreserves, ListMarketsPreserves,
     BackfillResolutionPreserves, SyncAndMarkPreserves, AbortReconcilePreserves
  DEF ReconcileStep
<1>3. CASE EnvironmentStep
  BY <1>3, MatchOrderPreserves, InvalidateOrderPreserves, CloseMarketPreserves,
     LapseTtlPreserves, AuthorizePreserves, CrashPreserves DEF EnvironmentStep
<1>4. CASE UNCHANGED vars
  <2> USE <1>4 DEF vars
  <2>1. /\ TypeOK' /\ RowsWritten' /\ OrdersMatched' /\ AttemptInFlight'
        /\ NoDoubleEntry' /\ LedgerBacked' /\ PositionBacked'
        /\ PnlSettled' /\ ActiveNotAuthorized' /\ PendingPosition'
    BY DEF IInv, TypeOK, RowsWritten, OrdersMatched, AttemptInFlight,
           NoDoubleEntry, LedgerBacked, PositionBacked, PnlSettled,
           ActiveNotAuthorized, PendingPosition, Derivable
  <2>2. /\ GuardsHold' /\ AnswerBacked' /\ ListsOpen' /\ ObservationBacked'
    BY DEF IInv, GuardsHold, AnswerBacked, ListsOpen, ObservationBacked,
           HasActiveExecution, HasActiveMarketOutcomeExposure
  <2> QED  BY <2>1, <2>2 DEF IInv
<1> QED  BY <1>1, <1>2, <1>3, <1>4 DEF Next

\* An empty database and idle loops satisfy IInv.
LEMMA InitInv == Init => IInv
  <1> SUFFICES ASSUME Init PROVE IInv
    OBVIOUS
  <1>1. TypeOK
    <2>1. ExecuteIdle /\ ReconcileIdle
      BY DEF Init
    <2>2. /\ xpc \in ExecPC /\ xq \subseteq Proposals
          /\ xe \in Execs \cup {NoExec} /\ xst \in ExecStatus \cup {"none"}
          /\ xfill \in 0..Full /\ xval \in PosStatus \cup {"none"}
          /\ xfail \subseteq Execs /\ xpos \in Execs \cup {NoExec}
      BY <2>1, ConstantAssumption DEF ExecuteIdle, ExecPC
    <2>3. /\ rpc \in RecPC /\ rq \subseteq Execs /\ re \in Execs \cup {NoExec}
          /\ robs \in [status : ExecStatus \cup {"none"}, size : 0..Full]
          /\ rmk \subseteq Markets
      BY <2>1, ConstantAssumption DEF ReconcileIdle, NoObservation, RecPC
    <2>4. locked \in BOOLEAN
      BY <2>1 DEF ExecuteIdle
    <2> QED  BY <2>2, <2>3, <2>4, ConstantAssumption
             DEF Init, TypeOK, PropStatus
  <1>2. RowsWritten /\ OrdersMatched /\ AttemptInFlight /\ GuardsHold
    BY DEF Init, RowsWritten, OrdersMatched, AttemptInFlight, GuardsHold,
           ExecuteIdle
  <1>3. AnswerBacked /\ ListsOpen /\ ObservationBacked /\ PendingPosition
    BY DEF Init, AnswerBacked, ListsOpen, ObservationBacked, PendingPosition,
           ExecuteIdle, ReconcileIdle
  <1>4. PnlSettled /\ NoDoubleEntry /\ LedgerBacked /\ PositionBacked
    BY DEF Init, PnlSettled, NoDoubleEntry, LedgerBacked, PositionBacked
  <1>5. ActiveNotAuthorized
    BY DEF Init, ActiveNotAuthorized
  <1> QED  BY <1>1, <1>2, <1>3, <1>4, <1>5 DEF IInv


(***************************************************************************)
(* Whatever the interleaving of the execute loop, the reconcile loop, the  *)
(* propose loop and the exchange, and wherever a crash or a failed call    *)
(* falls, the ledger and both loops' memories satisfy IInv.                *)
(***************************************************************************)
THEOREM Invariance == Spec => []IInv
  BY InitInv, InvariantStep, PTL DEF Spec

\* Every column and every local of both loops keeps its range.
THEOREM TypeCorrect == Spec => []TypeOK
<1>1. IInv => TypeOK  BY DEF IInv
<1> QED  BY <1>1, Invariance, PTL

\* The guards of execute_record keep two active executions off one proposal
\* and off one unresolved (market, outcome).
THEOREM SingleEntry == Spec => []NoDoubleEntry
<1>1. IInv => NoDoubleEntry  BY DEF IInv
<1> QED  BY <1>1, Invariance, PTL

\* No row that record_execution or reconcile_live_orders writes claims more
\* than the exchange has matched.
THEOREM Backing == Spec => []LedgerBacked
<1>1. IInv => LedgerBacked  BY DEF IInv
<1> QED  BY <1>1, Invariance, PTL

\* No position that sync_position_for_execution writes, from a row it may
\* have read before the reconcile loop changed it, holds tokens that the
\* ledger has not recorded.
THEOREM PositionsBacked == Spec => []PositionBacked
<1>1. IInv => PositionBacked  BY DEF IInv
<1> QED  BY <1>1, Invariance, PTL

\* A restart of the autopilot does not offer a proposal with an active
\* execution to the execute loop again.
THEOREM RestartIsSafe == Spec => []ActiveNotAuthorized
<1>1. IInv => ActiveNotAuthorized  BY DEF IInv
<1> QED  BY <1>1, Invariance, PTL

\* What a step may do to one row of the executions table.
LEMMA LedgerStep ==
  ASSUME IInv, [Next]_vars, NEW e \in Execs
  PROVE  /\ est[e] \in {"filled", "failed"} => est'[e] = est[e]
         /\ fill'[e] >= fill[e]
  <1>0. fill[e] \in Nat
    BY ConstantAssumption DEF IInv, TypeOK
  <1>1. CASE RecordActive
    BY <1>1, <1>0 DEF IInv, TypeOK, RowsWritten, AttemptInFlight, RecordActive,
       CommittedStatus
  <1>2. CASE EndExecuteTick
    BY <1>2, <1>0
       DEF IInv, TypeOK, AttemptInFlight, EndExecuteTick, CommittedStatus
  <1>3. CASE WriteOffStale
    BY <1>3, <1>0 DEF IInv, TypeOK, ListsOpen, WriteOffStale
  <1>4. CASE UpdateExecution
    BY <1>4, <1>0, ConstantAssumption
       DEF IInv, TypeOK, ListsOpen, ObservationBacked, LedgerBacked,
           UpdateExecution, FillToRecord, OrdersMatched
  <1>5. CASE UNCHANGED <<est, fill>>
    BY <1>5, <1>0
  <1>6. \/ RecordActive \/ EndExecuteTick \/ WriteOffStale \/ UpdateExecution
        \/ UNCHANGED <<est, fill>>
    BY DEF Next, vars, ExecuteStep, ReconcileStep, EnvironmentStep,
       ListAuthorized, RefuseBeforePost, LoseRefusal, LoseRecord, PassGuards, PostOrder,
       PostRejected,
       OrderSnapshot, LoseAnswer, RecordFailed, SyncRead, SyncWrite, SyncFails,
       RepairPositions, ListStale, CancelOrder, ListLive, GetOrder,
       ListMarkets, BackfillResolution, SyncAndMark, AbortReconcile,
       MatchOrder, InvalidateOrder, CloseMarket, LapseTtl, Authorize, Crash
  <1> QED  BY <1>1, <1>2, <1>3, <1>4, <1>5, <1>6


\* Both loops' updates of the executions table keep final statuses final and
\* fills growing.
THEOREM Monotone == Spec => LedgerMonotone
<1>1. IInv /\ [Next]_vars
        => [\A e \in Execs :
              /\ est[e] \in {"filled", "failed"} => est'[e] = est[e]
              /\ fill'[e] >= fill[e]]_<<est, fill>>
  BY LedgerStep
<1> QED  BY <1>1, Invariance, PTL DEF Spec, LedgerMonotone

\* The actions that write positions.
LEMMA PositionSteps ==
  ASSUME [Next]_vars
  PROVE  \/ RecordActive \/ EndExecuteTick \/ RepairPositions \/ WriteOffStale
         \/ UpdateExecution \/ SyncAndMark \/ UNCHANGED <<pos, pnl>>
    BY DEF Next, vars, ExecuteStep, ReconcileStep, EnvironmentStep,
       ListAuthorized, RefuseBeforePost, LoseRefusal, LoseRecord, PassGuards, PostOrder,
       PostRejected,
       OrderSnapshot, LoseAnswer, RecordFailed, SyncRead, SyncWrite, SyncFails,
       ListStale, CancelOrder, ListLive, GetOrder,
       ListMarkets, BackfillResolution, AbortReconcile,
       MatchOrder, InvalidateOrder, CloseMarket, LapseTtl, Authorize, Crash

\* What a step may do to a settled position.
LEMMA SettledStep ==
  ASSUME IInv, [Next]_vars, NEW e \in Execs, pnl[e], xpos # e
  PROVE  pnl'[e] /\ pos'[e] = "resolved"
  <1>1. pos[e] = "resolved" /\ pos \in [Execs -> PosStatus \cup {"none"}]
                            /\ pnl \in [Execs -> BOOLEAN]
    BY DEF IInv, TypeOK, PnlSettled
  <1>2. CASE RecordActive
    BY <1>1, <1>2 DEF RecordActive, CommittedPositions, CommittedPnl
  <1>3. CASE EndExecuteTick
    BY <1>1, <1>3 DEF EndExecuteTick, CommittedPositions, CommittedPnl
  <1>4. CASE RepairPositions
    BY <1>1, <1>4 DEF RepairPositions, Repaired
  <1>5. CASE WriteOffStale
    BY <1>1, <1>5 DEF WriteOffStale, SyncedPosition
  <1>6. CASE UpdateExecution
    BY <1>1, <1>6 DEF UpdateExecution, SyncedPosition
  <1>7. CASE SyncAndMark
    BY <1>1, <1>7 DEF SyncAndMark, Synced, Settles, SyncedPosition
  <1>8. CASE UNCHANGED <<pos, pnl>>
    BY <1>1, <1>8
  <1> QED  BY <1>2, <1>3, <1>4, <1>5, <1>6, <1>7, <1>8, PositionSteps

\* sync_all_positions, update_position_marks and the repairs leave a settled
\* position alone; only the executor's late write can undo it.
THEOREM Settlement == Spec => SettledOnce
  <1>1. IInv /\ [Next]_vars
          => [\A e \in Execs : pnl[e] /\ xpos # e
                => pnl'[e] /\ pos'[e] = "resolved"]_<<pos, pnl>>
    BY SettledStep
  <1> QED  BY <1>1, Invariance, PTL DEF Spec, SettledOnce

-----------------------------------------------------------------------------
(***************************************************************************)
(* The executions table implements ExecutionLedger.                        *)
(***************************************************************************)
\* The refinement mapping of the module's Ledger.
Entry == [e \in Execs |-> IF est[e] \in OpenStatus THEN "open" ELSE est[e]]
Holder == [e \in Execs |-> IF est[e] = "none" THEN NoProposal ELSE owner[e]]

\* An empty executions table is the ledger's initial state.
LEMMA LedgerInitial == Init => Ledger!LedgerInit
  BY DEF Init, Ledger!LedgerInit

\* A commit of record_execution books its row and the refusals before it.
LEMMA RecordBooks == ASSUME IInv, RecordActive PROVE Ledger!BookSome
  <1> DEFINE N == xfail \cup {xe}
             h == [e \in N |-> owner[e]]
             s == [e \in N |-> IF e \in xfail THEN "failed"
                               ELSE IF xst = "filled" THEN "filled"
                               ELSE "open"]
  <1>1. /\ xfail \subseteq Execs /\ xe \in Execs \ xfail
        /\ \A e \in N : est[e] = "none" /\ owner[e] \in Proposals
    BY DEF IInv, TypeOK, AttemptInFlight, RecordActive
  <1>2. /\ est \in [Execs -> ExecStatus \cup {"none"}]
        /\ owner \in [Execs -> Proposals \cup {NoProposal}]
        /\ est' = [e \in Execs |-> IF e = xe THEN xst
                                   ELSE IF e \in xfail THEN "failed"
                                   ELSE est[e]]
        /\ xst \in ActiveStatus
        /\ UNCHANGED <<owner, resolved>>
    BY <1>1 DEF IInv, TypeOK, RecordActive, CommittedStatus
  <1>3. N \in SUBSET Ledger!Unused
    BY <1>1 DEF Ledger!Unused
  <1>4. h \in [N -> Proposals] /\ s \in [N -> {"open", "filled", "failed"}]
    BY <1>1
  <1>5. \A e \in N : s[e] \in Ledger!Standing => Ledger!Enterable(h[e])
    <2>1. \A f \in Execs : Entry[f] \in Ledger!Standing
                             => est[f] \in ActiveStatus /\ Holder[f] = owner[f]
      BY <1>2 DEF Entry, Holder, Ledger!Standing
    <2>2. Ledger!Enterable(owner[xe])
      <3> SUFFICES ASSUME NEW f \in Execs, est[f] \in ActiveStatus
                   PROVE  /\ owner[f] # owner[xe]
                          /\ MarketOf[owner[f]] = MarketOf[owner[xe]]
                               => resolved[MarketOf[owner[xe]]]
        BY <2>1 DEF Ledger!Enterable, Entry, Holder
      <3> QED  BY <1>1 DEF IInv, RowsWritten, GuardsHold, RecordActive,
                           HasActiveExecution, HasActiveMarketOutcomeExposure
    <2> QED  BY <2>2, <1>1 DEF Ledger!Standing
  <1>6. \A e, f \in N :
          s[e] \in Ledger!Standing /\ s[f] \in Ledger!Standing => e = f
    BY <1>1 DEF Ledger!Standing
  <1>7. Entry' = [e \in Execs |-> IF e \in N THEN s[e] ELSE Entry[e]]
    BY <1>1, <1>2 DEF Entry
  <1>8. Holder' = [e \in Execs |-> IF e \in N THEN h[e] ELSE Holder[e]]
    BY <1>1, <1>2 DEF Holder
  <1> HIDE DEF N, h, s
  <1> QED  BY <1>2, <1>3, <1>4, <1>5, <1>6, <1>7, <1>8
           DEF Ledger!BookSome, Ledger!Book, Entry, Holder

\* The commit at the end of a tick books the refusals left over.
LEMMA TickEndBooks == ASSUME IInv, EndExecuteTick PROVE Ledger!BookSome
  <1> DEFINE h == [e \in xfail |-> owner[e]]
             s == [e \in xfail |-> "failed"]
  <1>1. /\ xfail \subseteq Execs
        /\ \A e \in xfail : est[e] = "none" /\ owner[e] \in Proposals
        /\ est \in [Execs -> ExecStatus \cup {"none"}]
        /\ est' = [e \in Execs |-> IF e \in xfail THEN "failed" ELSE est[e]]
        /\ UNCHANGED <<owner, resolved>>
    BY DEF IInv, TypeOK, AttemptInFlight, EndExecuteTick, CommittedStatus
  <1>2. xfail \in SUBSET Ledger!Unused
    BY <1>1 DEF Ledger!Unused
  <1>3. /\ h \in [xfail -> Proposals]
        /\ s \in [xfail -> {"open", "filled", "failed"}]
    BY <1>1
  <1>4. \A e \in xfail : s[e] \notin Ledger!Standing
    BY DEF Ledger!Standing
  <1>5. Entry' = [e \in Execs |-> IF e \in xfail THEN s[e] ELSE Entry[e]]
    BY <1>1 DEF Entry
  <1>6. Holder' = [e \in Execs |-> IF e \in xfail THEN h[e] ELSE Holder[e]]
    BY <1>1 DEF Holder
  <1> HIDE DEF h, s
  <1> QED  BY <1>1, <1>2, <1>3, <1>4, <1>5, <1>6
           DEF Ledger!BookSome, Ledger!Book, Entry, Holder

\* cancel_stale_orders closes the entry it writes off.
LEMMA WriteOffCloses ==
  ASSUME IInv, WriteOffStale PROVE Ledger!Close(re, "failed")
  BY DEF IInv, TypeOK, ListsOpen, WriteOffStale, Ledger!Close

\* reconcile_live_orders closes an entry or leaves the ledger as it is.
LEMMA UpdateCloses ==
  ASSUME IInv, UpdateExecution
  PROVE  \/ \E s \in {"filled", "failed"} : Ledger!Close(re, s)
         \/ UNCHANGED Ledger!ledgerVars
  <1>1. /\ re \in Execs /\ est[re] \in OpenStatus
        /\ est \in [Execs -> ExecStatus \cup {"none"}]
        /\ robs.status \in ExecStatus
        /\ UNCHANGED <<owner, resolved>>
    BY DEF IInv, TypeOK, ListsOpen, ObservationBacked, UpdateExecution
  <1>2. CASE /\ est' = [est EXCEPT ![re] = robs.status]
             /\ robs.status \in OpenStatus
    BY <1>1, <1>2 DEF Ledger!ledgerVars
  <1>3. CASE /\ est' = [est EXCEPT ![re] = robs.status]
             /\ robs.status \notin OpenStatus
    BY <1>1, <1>3 DEF Ledger!Close
  <1>4. CASE UNCHANGED est
    BY <1>1, <1>4 DEF Ledger!ledgerVars
  <1> QED  BY <1>2, <1>3, <1>4 DEF UpdateExecution

\* A resolution that is recorded releases the market.
LEMMA BackfillReleases ==
  ASSUME NEW m \in Markets, IInv, BackfillResolution(m)
  PROVE  Ledger!Release(m) \/ UNCHANGED Ledger!ledgerVars
  BY DEF BackfillResolution, Ledger!Release, Ledger!ledgerVars

\* No other action changes what the ledger shows.
LEMMA OthersAreQuiet ==
  ASSUME IInv, [Next]_vars
  PROVE  \/ RecordActive \/ EndExecuteTick \/ WriteOffStale \/ UpdateExecution
         \/ \E m \in Markets : BackfillResolution(m)
         \/ UNCHANGED Ledger!ledgerVars
  <1>1. CASE \/ \E p \in Proposals, e \in Execs :
                  RefuseBeforePost(p, e) \/ PassGuards(p, e)
             \/ LoseRecord \/ Crash
    <2>1. UNCHANGED <<est, resolved>>
      BY <1>1 DEF RefuseBeforePost, PassGuards, LoseRecord, Crash
    <2>2. \A e \in Execs : est[e] # "none" => owner'[e] = owner[e]
      BY <1>1, ConstantAssumption
         DEF IInv, TypeOK, RowsWritten, AttemptInFlight, RefuseBeforePost,
             PassGuards, LoseRecord, Crash, Fresh
    <2> QED  BY <2>1, <2>2 DEF Ledger!ledgerVars
  <1>2. CASE UNCHANGED <<est, resolved, owner>>
    BY <1>2 DEF Ledger!ledgerVars
  <1> QED
    BY <1>1, <1>2
    DEF Next, vars, ExecuteStep, ReconcileStep, EnvironmentStep,
       ListAuthorized, LoseRefusal, PostOrder, PostRejected,
       OrderSnapshot, LoseAnswer, RecordFailed, SyncRead, SyncWrite, SyncFails,
       RepairPositions, ListStale, CancelOrder, ListLive, GetOrder,
       ListMarkets, SyncAndMark, AbortReconcile,
       MatchOrder, InvalidateOrder, CloseMarket, LapseTtl, Authorize

\* Every step is a step of the ledger or leaves it alone.
LEMMA LedgerSteps ==
  ASSUME IInv, [Next]_vars PROVE [Ledger!LedgerNext]_(Ledger!ledgerVars)
  <1>1. CASE RecordActive  BY <1>1, RecordBooks DEF Ledger!LedgerNext
  <1>2. CASE EndExecuteTick  BY <1>2, TickEndBooks DEF Ledger!LedgerNext
  <1>3. CASE WriteOffStale
    BY <1>3, WriteOffCloses
       DEF IInv, ListsOpen, WriteOffStale, Ledger!LedgerNext
  <1>4. CASE UpdateExecution
    BY <1>4, UpdateCloses
       DEF IInv, ListsOpen, UpdateExecution, Ledger!LedgerNext
  <1>5. CASE \E m \in Markets : BackfillResolution(m)
    BY <1>5, BackfillReleases DEF Ledger!LedgerNext
  <1>6. CASE UNCHANGED Ledger!ledgerVars  BY <1>6
  <1> QED  BY <1>1, <1>2, <1>3, <1>4, <1>5, <1>6, OthersAreQuiet

\* Seen through its entries, their holders and the released markets, every
\* step of the program is a step of the abstract ledger or leaves it alone:
\* record_execution and the end of a tick book entries, the reconcile loop
\* closes them, check_and_backfill_resolutions releases a market.
THEOREM Refinement == Spec => ImplementsLedger
  <1>1. Init => Ledger!LedgerInit
    BY LedgerInitial
  <1>2. IInv /\ [Next]_vars => [Ledger!LedgerNext]_(Ledger!ledgerVars)
    BY LedgerSteps
  <1> QED  BY <1>1, <1>2, Invariance, PTL
           DEF Spec, ImplementsLedger, Ledger!LedgerSpec

-----------------------------------------------------------------------------
(***************************************************************************)
(* Orders at rest.  With no fault but failed ticks and look-ups, both loops *)
(* call an execution failed only if its order is not resting.              *)
(***************************************************************************)
GentleFaults == Faults \subseteq {"abort", "net_error"}

\* What the execute loop is about to record as failed is not at rest.
FailuresAreOver ==
  /\ xpc = "answer" => xst # "failed"
  /\ xpc = "record" /\ xst = "failed" => ord[xe] # "live"

\* Nor is what the reconcile loop is about to write off.
WriteOffsAreOver ==
  /\ rpc = "stale_write" => ord[re] # "live"
  /\ rpc = "apply" /\ robs.status = "failed" => ord[re] # "live"

RestingAreOpen ==
  \A e \in Execs :
    ord[e] = "live" => \/ est[e] \in OpenStatus
                       \/ xe = e /\ xpc \in {"answer", "record"}

TInv == RestingAreOpen /\ FailuresAreOver /\ WriteOffsAreOver

\* The execute loop's own steps.
LEMMA ExecuteTracks ==
  ASSUME GentleFaults, IInv, TInv, ExecuteStep
  PROVE  TInv'
<1>1. UNCHANGED <<rpc, re, robs>>
  BY DEF ExecuteStep, ListAuthorized, RefuseBeforePost, PassGuards, PostOrder,
     PostRejected, OrderSnapshot, LoseAnswer, RecordFailed, RecordActive,
     LoseRefusal, LoseRecord, SyncRead, SyncWrite, SyncFails, EndExecuteTick, recVars
<1>2. CASE \/ ListAuthorized
           \/ \E p \in Proposals, e \in Execs :
                RefuseBeforePost(p, e) \/ PassGuards(p, e)
           \/ SyncRead \/ SyncWrite \/ SyncFails
  <2>1. /\ xpc \in {"idle", "pick", "sync_read", "sync_write"}
        /\ xpc' \in {"pick", "post", "sync_write"}
        /\ UNCHANGED <<ord, est>>
    BY <1>2 DEF ListAuthorized, RefuseBeforePost, PassGuards, SyncRead,
       SyncWrite, SyncFails, NextRecord, dbVars, clobVars
  <2> QED
    BY <1>1, <2>1 DEF TInv, RestingAreOpen, FailuresAreOver, WriteOffsAreOver
<1>3. CASE PostOrder
  <2>1. /\ xe \in Execs /\ est[xe] = "none" /\ est' = est
        /\ xpc' = "answer" /\ xe' = xe /\ xst' # "failed"
        /\ \A e \in Execs \ {xe} : ord'[e] = ord[e]
    BY <1>3 DEF IInv, TypeOK, AttemptInFlight, InFlight, PostOrder, Normalized,
       Inject, GentleFaults, dbVars
  <2>2. rpc \in {"stale_write", "apply"} => re \in Execs \ {xe}
    <3>1. rpc = "stale_write" => re \in Execs \ {xe}
      BY <2>1 DEF IInv, ListsOpen, OpenStatus
    <3>2. rpc = "apply" => re \in Execs \ {xe}
      BY <2>1 DEF IInv, ListsOpen, OpenStatus
    <3> QED  BY <3>1, <3>2
  <2> QED
    BY <1>1, <1>3, <2>1, <2>2
    DEF TInv, RestingAreOpen, FailuresAreOver, WriteOffsAreOver, PostOrder
<1>4. CASE PostRejected
  <2>1. xe \in Execs /\ est[xe] = "none" /\ xpc = "post"
    BY <1>4 DEF IInv, AttemptInFlight, InFlight, PostRejected
  <2>2. ord[xe] # "live"
    BY <2>1 DEF TInv, RestingAreOpen, OpenStatus
  <2>3. xpc' = "record" /\ UNCHANGED <<ord, est, xe>>
    BY <1>4 DEF PostRejected, dbVars, clobVars
  <2> QED
    BY <1>1, <2>1, <2>2, <2>3
    DEF TInv, RestingAreOpen, FailuresAreOver, WriteOffsAreOver
<1>5. CASE OrderSnapshot
  <2>1. /\ xe \in Execs /\ xpc = "answer" /\ xpc' = "record"
        /\ UNCHANGED <<ord, est, xe>>
    BY <1>5 DEF IInv, AttemptInFlight, InFlight, OrderSnapshot, dbVars, clobVars
  <2>2. xst' = "failed" => ord[xe] # "live"
    BY <1>5, <2>1 DEF OrderSnapshot, Normalized, Inject, GentleFaults, TInv,
       FailuresAreOver
  <2> QED
    BY <1>1, <2>1, <2>2
    DEF TInv, RestingAreOpen, FailuresAreOver, WriteOffsAreOver
<1>6. CASE LoseAnswer \/ LoseRecord \/ \E p \in Proposals : LoseRefusal(p)
  BY <1>6 DEF LoseAnswer, LoseRecord, LoseRefusal, Inject, GentleFaults
<1>7. CASE RecordFailed
  <2>1. /\ xpc = "record" /\ xst = "failed" /\ xpc' = "pick"
        /\ UNCHANGED <<ord, est>>
    BY <1>7 DEF RecordFailed, NextRecord, dbVars, clobVars
  <2> QED
    BY <1>1, <2>1 DEF TInv, RestingAreOpen, FailuresAreOver, WriteOffsAreOver
<1>8. CASE RecordActive
  <2>1. /\ xpc = "record" /\ xe \in Execs \ xfail /\ ord' = ord
        /\ xpc' = "sync_read"
        /\ est'[xe] = xst /\ xst \in ActiveStatus
        /\ \A e \in Execs \ {xe} :
             est'[e] = IF e \in xfail THEN "failed" ELSE est[e]
        /\ \A e \in xfail : est[e] = "none"
    BY <1>8 DEF IInv, TypeOK, AttemptInFlight, InFlight, RecordActive,
       CommittedStatus, clobVars
  <2>2. xst = "filled" => ord[xe] # "live"
    BY <2>1 DEF IInv, AnswerBacked
  <2> QED
    BY <1>1, <2>1, <2>2
    DEF TInv, RestingAreOpen, FailuresAreOver, WriteOffsAreOver,
       ActiveStatus, OpenStatus
<1>9. CASE EndExecuteTick
  <2>1. /\ xpc = "pick" /\ xpc' = "idle" /\ ord' = ord
        /\ \A e \in Execs : est'[e] = IF e \in xfail THEN "failed" ELSE est[e]
        /\ \A e \in xfail : est[e] = "none"
    BY <1>9 DEF IInv, AttemptInFlight, EndExecuteTick, CommittedStatus, clobVars
  <2> QED
    BY <1>1, <2>1
    DEF TInv, RestingAreOpen, FailuresAreOver, WriteOffsAreOver, OpenStatus
<1> QED
  BY <1>2, <1>3, <1>4, <1>5, <1>6, <1>7, <1>8, <1>9 DEF ExecuteStep

\* The reconcile loop's steps: it cancels before it writes off, and closes a
\* row as the exchange reports it.
LEMMA ReconcileTracks ==
  ASSUME GentleFaults, IInv, TInv, ReconcileStep
  PROVE  TInv'
<1>1. UNCHANGED <<xpc, xe, xst>>
  BY DEF ReconcileStep, RepairPositions, ListStale, WriteOffStale, ListLive,
     UpdateExecution, CancelOrder, GetOrder, ListMarkets,
     BackfillResolution, SyncAndMark, AbortReconcile, execVars
<1>2. CASE \/ RepairPositions \/ ListStale \/ ListLive \/ ListMarkets
           \/ \E m \in Markets : BackfillResolution(m)
           \/ SyncAndMark \/ AbortReconcile
  <2>1. UNCHANGED <<ord, est>>
    BY <1>2 DEF RepairPositions, ListStale, ListLive, ListMarkets,
       BackfillResolution, SyncAndMark, AbortReconcile, dbVars, clobVars
  <2>2. \/ rpc' \notin {"stale_write", "apply"}
        \/ UNCHANGED <<rpc, re, robs>>
    BY <1>2 DEF RepairPositions, ListStale, ListLive, ListMarkets,
       BackfillResolution, SyncAndMark, AbortReconcile, LoseReconcile
  <2> QED
    BY <1>1, <2>1, <2>2
    DEF TInv, RestingAreOpen, FailuresAreOver, WriteOffsAreOver
<1>3. ASSUME NEW e \in Execs, CancelOrder(e) PROVE TInv'
  <2>1. /\ re' = e /\ rpc' = "stale_write" /\ est' = est
        /\ ord'[e] # "live"
        /\ \A f \in Execs \ {e} : ord'[f] = ord[f]
        /\ ord'[e] = ord[e] \/ ord'[e] = "dead"
    BY <1>3 DEF CancelOrder, Inject, GentleFaults, IInv, TypeOK, dbVars
  <2>2. InFlight => xe \in Execs
    BY DEF IInv, AttemptInFlight
  <2> QED
    BY <1>1, <2>1, <2>2
    DEF TInv, RestingAreOpen, FailuresAreOver, WriteOffsAreOver, InFlight
<1>4. ASSUME NEW e \in Execs, GetOrder(e) PROVE TInv'
  <2>1. UNCHANGED <<ord, est>> /\ rpc' \in {"live", "apply"}
    BY <1>4 DEF GetOrder, dbVars, clobVars
  <2>2. \/ re' = e /\ robs'.status = Normalized(ord[e])
        \/ robs'.status = Normalized("none")
        \/ rpc' = "live"
    BY <1>4 DEF GetOrder, Inject, GentleFaults
  <2>3. rpc' = "apply" /\ robs'.status = "failed" => ord[re'] # "live"
    <3>1. Normalized("none") # "failed" /\ Normalized("live") # "failed"
      BY DEF Normalized
    <3> QED  BY <2>1, <2>2, <3>1
  <2> QED
    BY <1>1, <2>1, <2>3
    DEF TInv, RestingAreOpen, FailuresAreOver, WriteOffsAreOver
<1>5. CASE WriteOffStale
  <2>1. /\ rpc' = "stale" /\ ord' = ord /\ ord[re] # "live" /\ re \in Execs
        /\ \A e \in Execs \ {re} : est'[e] = est[e]
    BY <1>5 DEF WriteOffStale, IInv, ListsOpen, TInv, WriteOffsAreOver, clobVars
  <2> QED
    BY <1>1, <2>1
    DEF TInv, RestingAreOpen, FailuresAreOver, WriteOffsAreOver
<1>6. CASE UpdateExecution
  <2>1. /\ rpc' = "live" /\ ord' = ord /\ re \in Execs
        /\ \A e \in Execs \ {re} : est'[e] = est[e]
        /\ est'[re] \in {est[re], robs.status}
    BY <1>6 DEF UpdateExecution, IInv, TypeOK, ListsOpen, clobVars
  <2>2. ord[re] = "live" => robs.status \in OpenStatus
    <3>1. robs.status \in ExecStatus
      BY <1>6 DEF IInv, TypeOK, ObservationBacked, UpdateExecution
    <3>2. robs.status = "filled" => ord[re] # "live"
      BY <1>6 DEF IInv, ObservationBacked, UpdateExecution
    <3>3. robs.status = "failed" => ord[re] # "live"
      BY <1>6 DEF TInv, WriteOffsAreOver, UpdateExecution
    <3> QED  BY <3>1, <3>2, <3>3 DEF ExecStatus, OpenStatus
  <2> QED
    BY <1>1, <2>1, <2>2
    DEF TInv, RestingAreOpen, FailuresAreOver, WriteOffsAreOver
<1> QED
  BY <1>2, <1>3, <1>4, <1>5, <1>6 DEF ReconcileStep

\* Nothing outside the two loops puts an order to rest.
LEMMA OthersTrack ==
  ASSUME GentleFaults, IInv, TInv, EnvironmentStep \/ UNCHANGED vars
  PROVE  TInv'
<1>1. /\ UNCHANGED <<est, xpc, xe, xst, rpc, re, robs>>
      /\ \A e \in Execs : ord'[e] = "live" => ord[e] = "live"
  BY DEF EnvironmentStep, MatchOrder, InvalidateOrder, CloseMarket, LapseTtl,
     Authorize, Crash, Inject, GentleFaults, IInv, TypeOK,
     vars, dbVars, clobVars, execVars, recVars
<1>2. xpc = "record" => xe \in Execs
  BY DEF IInv, AttemptInFlight, InFlight
<1>3. rpc \in {"stale_write", "apply"} => re \in Execs
  BY DEF IInv, ListsOpen
<1> QED
  BY <1>1, <1>2, <1>3
  DEF TInv, RestingAreOpen, FailuresAreOver, WriteOffsAreOver

\* When neither the process dies, nor an answer is lost, a cancel raises
\* twice, the lock keeps record_execution from inserting or the exchange
\* reports a status the code does not know, every order at rest is an open row
\* or about to become one, for any number of proposals, attempts, aborted
\* reconcile ticks and failed look-ups.
THEOREM RestingTracked == Spec => []RestingOrdersTracked
<1>1. CASE GentleFaults
  <2>1. Init => TInv
    BY DEF Init, ExecuteIdle, ReconcileIdle, TInv, RestingAreOpen,
       FailuresAreOver, WriteOffsAreOver
  <2>2. IInv /\ TInv /\ [Next]_vars => TInv'
    BY <1>1, ExecuteTracks, ReconcileTracks, OthersTrack DEF Next
  <2>3. TInv => RestingOrdersTracked
    BY DEF TInv, RestingAreOpen, RestingOrdersTracked, LostOrders
  <2> QED  BY <2>1, <2>2, <2>3, Invariance, PTL DEF Spec
<1>2. CASE ~GentleFaults
  <2>1. RestingOrdersTracked
    BY <1>2 DEF GentleFaults, RestingOrdersTracked
  <2> QED  BY <2>1, PTL
<1> QED  BY <1>1, <1>2

-----------------------------------------------------------------------------
(***************************************************************************)
(* Lost orders.  An order is doomed when it is lost already, or when what  *)
(* one of the loops holds in memory will lose it.  A step dooms an order   *)
(* only by a fault, and then only one.                                     *)
(***************************************************************************)

\* What the execute loop holds does not lead to an open row.
Unrecorded(e) ==
  /\ est[e] \notin OpenStatus
  /\ ~(xe = e /\ (xpc = "answer" \/ (xpc = "record" /\ xst # "failed")))

\* The reconcile loop is about to close the row.
WritingOff(e) ==
  /\ re = e
  /\ rpc = "stale_write" \/ (rpc = "apply" /\ robs.status = "failed")

Doomed(e) == ord[e] = "live" /\ (Unrecorded(e) \/ WritingOff(e))
DoomedOrders == {e \in Execs : Doomed(e)}

\* The step dooms no order, or it uses up a fault and dooms at most one.
DoomsNone ==
  budget' = budget /\ \A e \in Execs : Doomed(e)' => Doomed(e)
DoomsOne ==
  /\ budget > 0 /\ budget' = budget - 1
  /\ \E x : \A e \in Execs : Doomed(e)' => Doomed(e) \/ e = x

\* Each step of the execute loop.
LEMMA ExecuteDooms ==
  ASSUME IInv, ExecuteStep
  PROVE  DoomsNone \/ DoomsOne
<1> USE DEF Doomed, Unrecorded, WritingOff, DoomsNone, DoomsOne
<1>1. /\ UNCHANGED <<rpc, re, robs>>
      /\ rpc \in {"stale_write", "apply"} => est[re] \in OpenStatus
  BY DEF IInv, ListsOpen, ExecuteStep, ListAuthorized, RefuseBeforePost,
     LoseRefusal, PassGuards, PostOrder, PostRejected, OrderSnapshot,
     LoseAnswer, RecordFailed, LoseRecord, RecordActive, SyncRead, SyncWrite,
     SyncFails, EndExecuteTick
<1>2. CASE \/ ListAuthorized
           \/ \E p \in Proposals, e \in Execs :
                RefuseBeforePost(p, e) \/ PassGuards(p, e)
           \/ \E p \in Proposals : LoseRefusal(p)
           \/ SyncRead \/ SyncWrite \/ SyncFails
  <2>1. /\ xpc \notin {"answer", "record"} /\ xpc' \notin {"answer", "record"}
        /\ UNCHANGED <<ord, est>>
    BY <1>2 DEF ListAuthorized, RefuseBeforePost, LoseRefusal, PassGuards,
       SyncRead, SyncWrite, SyncFails, NextRecord
  <2>2. UNCHANGED budget \/ (budget > 0 /\ budget' = budget - 1)
    BY <1>2 DEF ListAuthorized, RefuseBeforePost, LoseRefusal, PassGuards,
       WriteShadow, SyncRead, SyncWrite, SyncFails, Inject
  <2> QED  BY <1>1, <2>1, <2>2
<1>3. CASE PostOrder
  <2>1. /\ xe \in Execs /\ est[xe] = "none" /\ est' = est
        /\ xpc' = "answer" /\ xe' = xe
        /\ \A e \in Execs \ {xe} : ord'[e] = ord[e]
    BY <1>3 DEF IInv, TypeOK, AttemptInFlight, PostOrder
  <2>2. UNCHANGED budget \/ (budget > 0 /\ budget' = budget - 1)
    BY <1>3 DEF PostOrder, Inject
  <2>3. rpc \in {"stale_write", "apply"} => re # xe
    BY <1>1, <2>1
  <2>4. \A e \in Execs : e # xe => (Doomed(e)' => Doomed(e))
    BY <1>1, <1>3, <2>1 DEF PostOrder
  <2>5. \A e \in Execs : e = xe => ~Doomed(e)'
    BY <1>1, <2>1, <2>3
  <2> QED  BY <2>2, <2>4, <2>5
<1>4. CASE PostRejected
  BY <1>1, <1>4 DEF PostRejected
<1>5. CASE OrderSnapshot
  <2>1. /\ xpc = "answer" /\ xpc' = "record" /\ UNCHANGED <<ord, est, xe>>
    BY <1>5 DEF OrderSnapshot
  <2>2. \A e \in Execs : e # xe => (Doomed(e)' => Doomed(e))
    BY <1>1, <2>1
  <2>3. CASE budget' = budget - 1 /\ budget > 0
    BY <2>2, <2>3
  <2>4. CASE xst' = Normalized(ord[xe]) /\ UNCHANGED budget
    <3>1. ord[xe] = "live" => xst' # "failed"
      BY <2>4 DEF Normalized
    <3> QED  BY <1>1, <2>1, <2>2, <2>4, <3>1
  <2> QED  BY <1>5, <2>3, <2>4 DEF OrderSnapshot, Inject
<1>6. CASE LoseAnswer
  <2>1. /\ UNCHANGED <<ord, est, xe>>
        /\ budget > 0 /\ budget' = budget - 1
    BY <1>6 DEF LoseAnswer, Inject
  <2>2. \A e \in Execs : Doomed(e)' => Doomed(e) \/ e = xe
    BY <1>1, <2>1
  <2> QED  BY <2>1, <2>2
<1>7. CASE RecordFailed
  BY <1>1, <1>7 DEF RecordFailed, NextRecord
<1>8. CASE LoseRecord
  <2>1. /\ UNCHANGED <<ord, est>> /\ xpc' = "pick"
        /\ budget > 0 /\ budget' = budget - 1
    BY <1>8 DEF LoseRecord, NextRecord, Inject
  <2>2. \A e \in Execs : Doomed(e)' => Doomed(e) \/ e = xe
    BY <1>1, <2>1
  <2> QED  BY <2>1, <2>2
<1>9. CASE RecordActive
  <2>1. /\ xpc = "record" /\ xe \in Execs \ xfail /\ ord' = ord
        /\ xpc' = "sync_read" /\ budget' = budget
        /\ est'[xe] = xst /\ xst \in ActiveStatus
        /\ \A e \in Execs \ {xe} :
             est'[e] = IF e \in xfail THEN "failed" ELSE est[e]
        /\ \A e \in xfail : est[e] = "none"
    BY <1>9 DEF IInv, TypeOK, AttemptInFlight, RecordActive, CommittedStatus
  <2>2. xst = "filled" => ord[xe] # "live"
    BY <2>1 DEF IInv, AnswerBacked
  <2>3. \A e \in Execs \ {xe} : Doomed(e)' => Doomed(e)
    BY <1>1, <2>1
  <2>4. \A e \in Execs : e = xe => (Doomed(e)' => Doomed(e))
    BY <1>1, <2>1, <2>2
  <2> QED  BY <2>1, <2>3, <2>4
<1>10. CASE EndExecuteTick
  <2>1. /\ xpc = "pick" /\ xpc' = "idle" /\ ord' = ord /\ budget' = budget
        /\ \A e \in Execs : est'[e] = IF e \in xfail THEN "failed" ELSE est[e]
        /\ \A e \in xfail : est[e] = "none"
    BY <1>10 DEF IInv, AttemptInFlight, EndExecuteTick, CommittedStatus
  <2> QED  BY <1>1, <2>1
<1> QED
  BY <1>2, <1>3, <1>4, <1>5, <1>6, <1>7, <1>8, <1>9, <1>10 DEF ExecuteStep

\* Each step of the reconcile loop.
LEMMA ReconcileDooms ==
  ASSUME IInv, ReconcileStep
  PROVE  DoomsNone \/ DoomsOne
<1> USE DEF Doomed, Unrecorded, WritingOff, DoomsNone, DoomsOne
<1>1. UNCHANGED <<xpc, xe, xst>>
  BY DEF ReconcileStep, RepairPositions, ListStale, WriteOffStale, ListLive,
     UpdateExecution, CancelOrder, GetOrder, ListMarkets, BackfillResolution,
     SyncAndMark, AbortReconcile
<1>2. CASE \/ RepairPositions \/ ListStale \/ ListLive \/ ListMarkets
           \/ \E m \in Markets : BackfillResolution(m)
           \/ SyncAndMark \/ AbortReconcile
  <2>1. /\ UNCHANGED <<ord, est>>
        /\ UNCHANGED budget \/ (budget > 0 /\ budget' = budget - 1)
    BY <1>2 DEF RepairPositions, ListStale, ListLive, ListMarkets,
       BackfillResolution, SyncAndMark, AbortReconcile, Inject
  <2>2. \/ rpc' \notin {"stale_write", "apply"}
        \/ UNCHANGED <<rpc, re, robs>>
    BY <1>2 DEF RepairPositions, ListStale, ListLive, ListMarkets,
       BackfillResolution, SyncAndMark, AbortReconcile, LoseReconcile
  <2>3. \A e \in Execs : Doomed(e)' => Doomed(e)
    BY <1>1, <2>1, <2>2
  <2> QED  BY <2>1, <2>3
<1>3. ASSUME NEW e \in Execs, CancelOrder(e) PROVE DoomsNone \/ DoomsOne
  <2>1. /\ re' = e /\ est' = est
        /\ \A f \in Execs \ {e} : ord'[f] = ord[f]
    BY <1>3 DEF CancelOrder, IInv, TypeOK
  <2>2. \A f \in Execs : Doomed(f)' => Doomed(f) \/ f = e
    BY <1>1, <2>1
  <2>3. \/ budget > 0 /\ budget' = budget - 1
        \/ ord'[e] # "live" /\ budget' = budget
    BY <1>3 DEF CancelOrder, Inject, IInv, TypeOK
  <2> QED  BY <2>2, <2>3
<1>4. ASSUME NEW e \in Execs, GetOrder(e) PROVE DoomsNone \/ DoomsOne
  <2>1. UNCHANGED <<ord, est>> /\ rpc = "live"
    BY <1>4 DEF GetOrder
  <2>2. \/ re' = e /\ rpc' = "apply"
        \/ UNCHANGED <<rpc, re, robs>>
    BY <1>4 DEF GetOrder
  <2>3. \A f \in Execs : Doomed(f)' => Doomed(f) \/ f = e
    BY <1>1, <2>1, <2>2
  <2>4. \/ budget > 0 /\ budget' = budget - 1
        \/ /\ robs'.status = Normalized(ord[e]) /\ rpc' = "apply"
           /\ budget' = budget
    BY <1>4 DEF GetOrder, Inject
  <2>5. Normalized("live") # "failed"
    BY DEF Normalized
  <2>6. CASE /\ robs'.status = Normalized(ord[e]) /\ rpc' = "apply"
             /\ budget' = budget
    <3>1. Doomed(e)' => Doomed(e)
      BY <1>1, <2>1, <2>5, <2>6
    <3> QED  BY <2>3, <2>6, <3>1
  <2> QED  BY <2>3, <2>4, <2>6
<1>5. CASE WriteOffStale
  <2>1. /\ rpc = "stale_write" /\ rpc' = "stale" /\ ord' = ord
        /\ budget' = budget
        /\ \A e \in Execs \ {re} : est'[e] = est[e]
    BY <1>5 DEF WriteOffStale, IInv, TypeOK
  <2> QED  BY <1>1, <2>1
<1>6. CASE UpdateExecution
  <2>1. /\ rpc = "apply" /\ rpc' = "live" /\ ord' = ord /\ re \in Execs
        /\ budget' = budget
        /\ \A e \in Execs \ {re} : est'[e] = est[e]
        /\ est'[re] \in {est[re], robs.status}
    BY <1>6 DEF UpdateExecution, IInv, TypeOK, ListsOpen
  <2>2. /\ robs.status \in ExecStatus
        /\ robs.status = "filled" => ord[re] # "live"
    BY <1>6 DEF IInv, TypeOK, ObservationBacked, UpdateExecution
  <2>3. \A e \in Execs \ {re} : Doomed(e)' => Doomed(e)
    BY <1>1, <2>1
  <2>4. \A e \in Execs : e = re => (Doomed(e)' => Doomed(e))
    BY <1>1, <2>1, <2>2
  <2> QED  BY <2>1, <2>3, <2>4
<1> QED
  BY <1>2, <1>3, <1>4, <1>5, <1>6 DEF ReconcileStep

\* The exchange, the clock, the propose loop and a crash.
LEMMA OthersDoom ==
  ASSUME IInv, EnvironmentStep \/ UNCHANGED vars
  PROVE  DoomsNone \/ DoomsOne
<1> USE DEF Doomed, Unrecorded, WritingOff, DoomsNone, DoomsOne
<1>1. CASE Crash
  <2>1. /\ UNCHANGED <<ord, est>> /\ xpc' = "idle" /\ rpc' = "idle"
        /\ budget > 0 /\ budget' = budget - 1
    BY <1>1 DEF Crash, Inject, LoseExecute, LoseReconcile
  <2>2. \A e \in Execs : Doomed(e)' => Doomed(e) \/ e = xe
    BY <2>1
  <2> QED  BY <2>1, <2>2
<1>2. CASE ~Crash
  <2>1. /\ UNCHANGED <<est, xpc, xe, xst, rpc, re, robs, budget>>
        /\ \A e \in Execs : ord'[e] = "live" => ord[e] = "live"
    BY <1>2 DEF EnvironmentStep, MatchOrder, InvalidateOrder, CloseMarket,
       LapseTtl, Authorize, IInv, TypeOK, vars
  <2> QED  BY <2>1
<1> QED  BY <1>1, <1>2

\* A set that gains at most one element gains at most one in size.
LEMMA AtMostOneMore ==
  ASSUME NEW S, NEW T, IsFiniteSet(S), NEW x, T \subseteq S \cup {x}
  PROVE  /\ IsFiniteSet(T)
         /\ Cardinality(T) <= Cardinality(S) + 1
<1>1. /\ IsFiniteSet(S \cup {x})
      /\ Cardinality(S \cup {x}) <= Cardinality(S) + 1
      /\ Cardinality(S) \in Nat
  BY FS_AddElement, FS_CardinalityType
<1>2. /\ IsFiniteSet(T) /\ Cardinality(T) <= Cardinality(S \cup {x})
  BY <1>1, FS_Subset
<1>3. Cardinality(T) \in Nat /\ Cardinality(S \cup {x}) \in Nat
  BY <1>1, <1>2, FS_CardinalityType
<1> QED  BY <1>1, <1>2, <1>3

LossInv == budget <= MaxFaults /\ Cardinality(DoomedOrders) <= MaxFaults - budget

LEMMA LossStep == IInv /\ LossInv /\ [Next]_vars => LossInv'
<1> SUFFICES ASSUME IInv, LossInv, [Next]_vars PROVE LossInv'
  OBVIOUS
<1>1. /\ budget \in Nat /\ MaxFaults \in Nat /\ IsFiniteSet(Execs)
  BY ConstantAssumption DEF IInv, TypeOK
<1>2. /\ IsFiniteSet(DoomedOrders) /\ IsFiniteSet(DoomedOrders')
      /\ Cardinality(DoomedOrders) \in Nat
      /\ Cardinality(DoomedOrders') \in Nat
  <2>1. DoomedOrders \subseteq Execs /\ DoomedOrders' \subseteq Execs
    BY DEF DoomedOrders
  <2> QED  BY <1>1, <2>1, FS_Subset, FS_CardinalityType
<1>3. DoomsNone \/ DoomsOne
  BY ExecuteDooms, ReconcileDooms, OthersDoom DEF Next
<1>4. CASE DoomsNone
  <2>1. DoomedOrders' \subseteq DoomedOrders /\ budget' = budget
    BY <1>4 DEF DoomsNone, DoomedOrders
  <2>2. Cardinality(DoomedOrders') <= Cardinality(DoomedOrders)
    BY <1>2, <2>1, FS_Subset
  <2> QED  BY <1>1, <1>2, <2>1, <2>2 DEF LossInv
<1>5. CASE DoomsOne
  <2>1. PICK x : DoomedOrders' \subseteq DoomedOrders \cup {x}
    BY <1>5 DEF DoomsOne, DoomedOrders
  <2>2. Cardinality(DoomedOrders') <= Cardinality(DoomedOrders) + 1
    BY <1>2, <2>1, AtMostOneMore
  <2>3. budget > 0 /\ budget' = budget - 1
    BY <1>5 DEF DoomsOne
  <2> QED  BY <1>1, <1>2, <2>2, <2>3 DEF LossInv
<1> QED  BY <1>3, <1>4, <1>5

\* Wherever the process dies, whatever answer, cancel or insert fails and
\* whatever status the exchange invents, no fault costs the ledger of
\* record_execution and reconcile_live_orders more than one resting order.
THEOREM LossesBounded == Spec => []OneOrderPerFault
<1>1. Init => LossInv
  <2>1. SUFFICES ASSUME Init PROVE LossInv
    OBVIOUS
  <2>2. DoomedOrders = {}
    BY <2>1 DEF Init, DoomedOrders, Doomed
  <2> QED  BY <2>1, <2>2, FS_EmptySet, ConstantAssumption DEF Init, LossInv
<1>2. IInv /\ LossInv => OneOrderPerFault
  <2>1. SUFFICES ASSUME IInv, LossInv PROVE OneOrderPerFault
    OBVIOUS
  <2>2. LostOrders \subseteq DoomedOrders /\ DoomedOrders \subseteq Execs
    BY DEF LostOrders, DoomedOrders, Doomed, Unrecorded
  <2>3. /\ Cardinality(LostOrders) <= Cardinality(DoomedOrders)
        /\ Cardinality(LostOrders) \in Nat /\ Cardinality(DoomedOrders) \in Nat
    BY <2>2, ConstantAssumption, FS_Subset, FS_CardinalityType
  <2>4. budget \in Nat /\ MaxFaults \in Nat
    BY <2>1, ConstantAssumption DEF IInv, TypeOK
  <2> QED  BY <2>1, <2>3, <2>4 DEF LossInv, OneOrderPerFault
<1> QED  BY <1>1, <1>2, LossStep, Invariance, PTL DEF Spec

=============================================================================
