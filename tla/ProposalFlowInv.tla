-------------------------- MODULE ProposalFlowInv --------------------------
(***************************************************************************)
(* The inductive invariant of ProposalFlow.  The second half of it says    *)
(* what keeps the loops out of each other's way when contents do not       *)
(* recur: whatever a loop holds in memory still has, in the table as that  *)
(* loop sees it, the status it was listed with.                            *)
(***************************************************************************)
EXTENDS ProposalFlow

May == {"approved", "authorized_for_execution"}

\* A step in the middle of a proposal is a step on a proposal.
InHand ==
  pstep # "pick" => pp \in Proposals /\ ppc \in {"sweep", "pipe", "assess", "resweep"}

\* Without a writer there is nothing uncommitted.
NothingPending == writer = "none" => draft = row

\* A rule or the operator stands behind every status that lets the executor
\* in, and behind everything that may still write one.
Grants ==
  /\ \A p \in Proposals :
       row[p].status \in May \/ draft[p].status \in May => p \in granted
  /\ pstep = "write" /\ seen.status \in May => pp \in granted
  /\ pstep # "pick" /\ Assessing /\ verdict \in May => pp \in granted
  /\ xlist \subseteq granted
  /\ OrdersAreGranted

\* What the executor may have made of an answer by the time the expiry loop
\* gets to a proposal on its list.
Answered == {"approved", "rejected", "authorized_for_execution", "failed"}

\* What is uncommitted is one step of the loop that writes: a legal one, or one
\* past the deadline that crosses an answer.
Uncommitted ==
  \A p \in Proposals :
    draft[p] # row[p] =>
      \/ /\ writer = "propose"
         /\ row[p].status = "proposed" /\ draft[p].status \in Verdicts
      \/ /\ writer = "expiry" /\ p \in late
         /\ \/ row[p].status = "pending_approval"
            \/ row[p].status \in Answered /\ decision[p] # "none"
         /\ draft[p].status = "expired"
         /\ ~(xpc \in {"post", "record"} /\ xe = p)
      \/ /\ writer = "execute"
         /\ \/ row[p].status = "authorized_for_execution"
            \/ /\ row[p].status = "expired" /\ p \in late
               /\ decision[p] = "approved"
         /\ draft[p].status = "failed"

\* A message belongs to a row that was pending once; one whose answer is about
\* to be recorded is pending still, or expired.
AskHolds ==
  /\ late \subseteq sent /\ clicked \subseteq sent
  /\ \A p \in Proposals :
       (row[p].asked <=> p \in sent) /\ (draft[p].asked <=> p \in sent)
  /\ pstep = "write" => ~seen.asked
  /\ \A p \in sent :
       /\ row[p].status \notin {"none", "proposed", "risk_blocked"}
       /\ draft[p].status \notin {"none", "proposed", "risk_blocked"}
  /\ \A p \in clicked :
       /\ row[p].status \in {"pending_approval", "expired"}
       /\ decision[p] = "none"
       /\ row[p].status = "expired" => p \in late
  /\ \A p \in Proposals : decision[p] # "none" => p \in sent

\* The propose loop assesses proposed proposals, and those of the pipeline
\* are new or proposed.
ProposeHolds ==
  /\ Assessing => \A p \in todo : Seen("propose")[p].status = "proposed"
  /\ ppc = "pipe" =>
       /\ todo \subseteq batch
       /\ \A p \in todo : Seen("propose")[p].status \in {"none", "proposed"}
       /\ \A p \in batch \ todo : Seen("propose")[p].status = "proposed"
       /\ pstep # "pick" => pp \in batch
       /\ pstep = "write" => seen.status = "proposed"
  /\ pstep # "pick" => pp \notin todo /\ Seen("propose")[pp].status = "proposed"
  /\ Assessing /\ pstep # "pick" => verdict \in Verdicts

\* The expiry loop expires what is pending and late, or was so when an answer
\* came, and nothing that has or is about to have an order.
ExpiryHolds ==
  \A p \in elist :
    /\ p \in late
    /\ \/ Seen("expiry")[p].status = "pending_approval"
       \/ Seen("expiry")[p].status \in Answered /\ decision[p] # "none"
    /\ ~(xpc \in {"post", "record"} /\ xe = p)

\* The execute loop attempts what is authorized; a late answer may expire in
\* between, and its deadline is on the list.
ExecuteHolds ==
  /\ \A p \in xlist :
       /\ \/ Seen("execute")[p].status = "authorized_for_execution"
          \/ /\ Seen("execute")[p].status = "expired" /\ p \in late
             /\ decision[p] = "approved"
       /\ p \in sent => p \in xdue
       /\ p \notin clicked
  /\ xpc \in {"post", "record"} =>
       /\ xe \notin xlist /\ xe \notin clicked
       /\ Seen("execute")[xe].status = "authorized_for_execution"

FInv ==
  /\ TypeOK /\ InHand /\ NothingPending /\ Grants
  /\ ~Regenerate => /\ Uncommitted /\ AskHolds
                    /\ ProposeHolds /\ ExpiryHolds /\ ExecuteHolds
  /\ ActiveIsClosed /\ DecisionStands
=============================================================================
