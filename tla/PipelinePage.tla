---------------------------- MODULE PipelinePage -----------------------------
(***************************************************************************)
(* A user follows a document through the pipeline: Pipeline and            *)
(* DocumentPage side by side.                                              *)
(*                                                                         *)
(* DocumentPage stands over an abstract document that moves as             *)
(* DocumentLifecycle says.  Here the document is the row the workers write:*)
(* a poll reads it between any two of their statements.                    *)
(***************************************************************************)
EXTENDS Pipeline

CONSTANTS
  Doc,         \* the document the user follows
  Polls,       \* the polls that may be in flight at one time; bounds the model
  PageFaults   \* Faults of DocumentPage

ASSUME FollowAssumption == Doc \in Docs /\ PageFaults \subseteq {"fail", "401"}

VARIABLES visit, shown, error, poll

pageVars == <<visit, shown, error, poll>>
followVars == <<vars, pageVars>>

Page == INSTANCE DocumentPage WITH
  status  <- [d \in {Doc} |-> rows[d].status],
  suspect <- {d \in {Doc} : Suspect(d)},
  Faults  <- PageFaults

FollowInit == Init /\ Page!Init

PipelineMoves == Next /\ UNCHANGED pageVars

PageMoves == UNCHANGED vars /\ Page!PageNext

FollowNext == PipelineMoves \/ PageMoves

FollowSpec == FollowInit /\ [][FollowNext]_followVars

\* The fairness of both sides, over the state of the whole.
FairFollowSpec ==
  /\ FollowSpec
  /\ \A w \in Workers :
       WF_followVars(Handler(w) /\ UNCHANGED pageVars)
       /\ WF_followVars(Restart(w) /\ UNCHANGED pageVars)
  /\ \A d \in Docs :
       /\ WF_followVars((\E w \in Workers : Take(w, d)) /\ UNCHANGED pageVars)
       /\ WF_followVars(MoveStalled(d) /\ UNCHANGED pageVars)
       /\ WF_followVars(Promote(d) /\ UNCHANGED pageVars)
  /\ WF_followVars(UNCHANGED vars /\ \E p \in Polls : Page!Tick(p))
  /\ \A p \in Polls :
       /\ WF_followVars(UNCHANGED vars /\ Page!Answer(p))
       /\ WF_followVars(UNCHANGED vars /\ Page!Arrive(p))

-----------------------------------------------------------------------------
FollowTypeOK == TypeOK /\ Page!TypeOK

\* To the page, the pipeline is a document that moves as the lifecycle says:
\* DocumentPage leaves out nothing the workers do to the row.
PageSpec == Page!Spec

\* The page comes to rest only on the status the row has, whatever the workers
\* write between the read of a poll and its arrival.
RestsOnTheTruth == Page!RestsOnTheTruth

\* Once the row is decided the page comes to show the decision for good.
DecisionIsShown == Page!DecisionIsShown

\* The user who follows an accepted document comes to see a decision and goes
\* on seeing one, the decision of the row as long as nobody may take it back:
\* the pipeline decides (unless the document is Excused) and the interval runs
\* until the decision has arrived (lines 51-56), unless a poll fails.
OutcomeIsSeen ==
  upload[Doc] = "accepted" ~>
    [](\/ ~Page!open \/ Page!Screen = "error" \/ Excused(Doc)
       \/ /\ Page!Screen \in Terminal
          /\ Page!Screen = rows[Doc].status \/ Suspect(Doc))
=============================================================================
