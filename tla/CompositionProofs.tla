------------------------- MODULE CompositionProofs --------------------------
(***************************************************************************)
(* What a user sees of the pipeline.  The document page is proved about    *)
(* over an abstract document (DocumentPageProofs); here the document is    *)
(* the row the workers write, and the page's theorems carry over because   *)
(* the pipeline is proved to be such a document.                           *)
(***************************************************************************)
EXTENDS PipelinePage, PipelineList, PipelineProofs

\* The page's theorems, about the row.
PageFacts == INSTANCE DocumentPageProofs WITH
  status  <- [d \in {Doc} |-> rows[d].status],
  suspect <- {d \in {Doc} : Suspect(d)},
  Faults  <- PageFaults

\* What the lifecycle allows all documents it allows the one that is followed.
LEMMA FollowedMoves ==
  ASSUME Lifecycle!LifecycleNext
  PROVE  Page!LifecycleNext
<1> USE DEF Lifecycle!LifecycleNext, Page!LifecycleNext
<1>1. {d \in {Doc} : Suspect(d)} \subseteq {d \in {Doc} : Suspect(d)}'
  BY FollowAssumption
<1>2. CASE UNCHANGED [d \in Docs |-> rows[d].status]
  BY <1>2, FollowAssumption
<1>3. ASSUME NEW e \in Docs, Lifecycle!Step(e)
      PROVE  \/ UNCHANGED [d \in {Doc} |-> rows[d].status]
             \/ Page!Step(Doc)
  <2>1. CASE e # Doc
    BY <1>3, <2>1, FollowAssumption
       DEF Lifecycle!Step, Lifecycle!Create, Lifecycle!Start, Lifecycle!Finish,
           Lifecycle!GiveUpOn, Lifecycle!Rework, Lifecycle!Becomes
  <2>2. CASE e = Doc
    BY <1>3, <2>2, FollowAssumption
       DEF Lifecycle!Step, Lifecycle!Create, Lifecycle!Start, Lifecycle!Finish,
           Lifecycle!GiveUpOn, Lifecycle!Rework, Lifecycle!Becomes,
           Page!Step, Page!Create, Page!Start, Page!Finish, Page!GiveUpOn,
           Page!Rework, Page!Becomes
  <2> QED
    BY <2>1, <2>2
<1> QED
  BY <1>1, <1>2, <1>3

\* The pipeline goes on as if nobody watched.
LEMMA WatchedPipeline == FollowSpec => Spec
<1>1. FollowInit => Init
  BY DEF FollowInit
<1>2. [FollowNext]_followVars => [Next]_vars
  BY DEF FollowNext, PipelineMoves, PageMoves, followVars
<1> QED
  BY <1>1, <1>2, PTL DEF FollowSpec, Spec

\* Every statement of a worker is, to the page, a move of its document, or
\* nothing at all.
LEMMA FollowStep ==
  ASSUME Typed, ChainInv, CalmInv, [FollowNext]_followVars
  PROVE  [Page!Next]_(Page!vars)
<1> USE DEF Page!Next, Page!vars, Page!document
<1>1. CASE PipelineMoves
  <2>1. Page!LifecycleNext
    BY <1>1, LifecycleStep, FollowedMoves DEF PipelineMoves
  <2>2. {d \in {Doc} : Suspect(d)}' \in SUBSET {Doc}
    OBVIOUS
  <2>3. Page!RowMoves
    BY <1>1, <2>1, <2>2 DEF PipelineMoves, pageVars, Page!RowMoves
  <2> QED
    BY <2>3
<1>2. CASE PageMoves
  BY <1>2 DEF PageMoves
<1>3. CASE UNCHANGED followVars
  BY <1>3 DEF followVars, vars, pageVars, Suspect
<1> QED
  BY <1>1, <1>2, <1>3 DEF FollowNext

\* Over the pipeline the page is the page of DocumentPage: what is proved of it
\* over any document that moves as the lifecycle says holds over the row.
THEOREM FollowsTheLifecycle == FollowSpec => PageSpec
<1>1. FollowInit => Page!Init
  BY FollowAssumption
     DEF FollowInit, Init, NoRow, Suspect, Page!Init, Page!LifecycleInit
<1>2. Typed /\ ChainInv /\ CalmInv /\ [FollowNext]_followVars
        => [Page!Next]_(Page!vars)
  BY FollowStep
<1> QED
  BY <1>1, <1>2, WatchedPipeline, CalmCorrect, PTL DEF FollowSpec, PageSpec, Page!Spec

\* The specification that was proved about is the one that is followed.
LEMMA SamePage == Page!Spec => PageFacts!Spec
<1>1. Page!Init => PageFacts!Init
  BY DEF Page!Init, Page!LifecycleInit, PageFacts!Init, PageFacts!LifecycleInit
<1>2. Page!RowMoves => PageFacts!RowMoves
  BY DEF Page!RowMoves, PageFacts!RowMoves,
         Page!LifecycleNext, PageFacts!LifecycleNext, Page!Step, PageFacts!Step,
         Page!Create, PageFacts!Create, Page!Start, PageFacts!Start,
         Page!Finish, PageFacts!Finish, Page!GiveUpOn, PageFacts!GiveUpOn,
         Page!Rework, PageFacts!Rework, Page!Becomes, PageFacts!Becomes
<1>3. Page!PageNext => PageFacts!PageNext
  <2> USE DEF Page!document, PageFacts!document, Page!row, PageFacts!row,
              Page!open, PageFacts!open
  <2>1. Page!Leave => PageFacts!Leave
    BY DEF Page!Leave, PageFacts!Leave
  <2>2. ASSUME NEW p \in Polls
        PROVE  /\ Page!Open(p) => PageFacts!Open(p)
               /\ Page!Tick(p) => PageFacts!Tick(p)
               /\ Page!Answer(p) => PageFacts!Answer(p)
               /\ Page!Arrive(p) => PageFacts!Arrive(p)
               /\ Page!Fails(p) => PageFacts!Fails(p)
               /\ Page!SignedOut(p) => PageFacts!SignedOut(p)
    BY DEF Page!Open, PageFacts!Open, Page!Tick, PageFacts!Tick,
           Page!Answer, PageFacts!Answer, Page!Arrive, PageFacts!Arrive,
           Page!Fails, PageFacts!Fails, Page!SignedOut, PageFacts!SignedOut,
           Page!Polling, PageFacts!Polling, Page!Undecided, PageFacts!Undecided,
           Page!DocumentStatus, PageFacts!DocumentStatus
  <2> QED
    BY <2>1, <2>2 DEF Page!PageNext, PageFacts!PageNext
<1>4. [Page!Next]_(Page!vars) => [PageFacts!Next]_(PageFacts!vars)
  BY <1>2, <1>3
     DEF Page!Next, PageFacts!Next, Page!vars, PageFacts!vars,
         Page!document, PageFacts!document
<1> QED
  BY <1>1, <1>4, PTL DEF Page!Spec, PageFacts!Spec

\* The types of both sides.
THEOREM FollowTypes == FollowSpec => []FollowTypeOK
<1>1. Typed /\ PageFacts!TypeOK => FollowTypeOK
  BY DEF Typed, FollowTypeOK, PageFacts!TypeOK, PageFacts!DocumentStatus,
         Page!TypeOK, Page!DocumentStatus
<1> QED
  BY <1>1, WatchedPipeline, CalmCorrect, FollowsTheLifecycle, SamePage,
     PageFacts!PageTypes, PTL DEF PageSpec

\* The page at rest shows what the workers have really left in the row.
THEOREM FollowerRestsOnTheTruth == FollowSpec => []RestsOnTheTruth
<1>1. PageFacts!RestsOnTheTruth => RestsOnTheTruth
  BY DEF PageFacts!RestsOnTheTruth, PageFacts!Polling, PageFacts!Undecided,
         PageFacts!open, PageFacts!row, RestsOnTheTruth, Page!RestsOnTheTruth,
         Page!Polling, Page!Undecided, Page!open, Page!row
<1> QED
  BY <1>1, FollowsTheLifecycle, SamePage,
     PageFacts!PageRestsOnTheTruth, PTL DEF PageSpec

-----------------------------------------------------------------------------
(* The dashboard over the pipeline.                                        *)

ListFacts == INSTANCE DashboardPageProofs WITH
  rows     <- [d \in Docs |-> rows[d].status],
  open     <- mounted,
  shown    <- list,
  Suspects <- Docs,
  Faults   <- {"upload", "fetch", "401"}

LEMMA WatchedRows == WatchSpec => Spec
<1>1. WatchInit => Init
  BY DEF WatchInit
<1>2. [WatchNext]_watchVars => [Next]_vars
  BY DEF WatchNext, DocumentsMove, ListMoves, watchVars
<1> QED
  BY <1>1, <1>2, PTL DEF WatchSpec, Spec

\* A worker's statement moves one document, or creates it.
LEMMA ListedMoves ==
  ASSUME Typed, Lifecycle!LifecycleNext
  PROVE  \/ UNCHANGED [d \in Docs |-> rows[d].status]
         \/ \E e \in Docs :
              \/ Dashboard!Lifecycle!Create(e)
              \/ rows[e].status # "NONE" /\ Dashboard!Lifecycle!Step(e)
<1>1. ASSUME NEW e \in Docs, Lifecycle!Step(e)
      PROVE  \/ Dashboard!Lifecycle!Create(e)
             \/ rows[e].status # "NONE" /\ Dashboard!Lifecycle!Step(e)
  BY <1>1
     DEF Lifecycle!Step, Lifecycle!Create, Lifecycle!Start, Lifecycle!Finish,
         Lifecycle!GiveUpOn, Lifecycle!Rework, Lifecycle!Becomes,
         Dashboard!Lifecycle!Step, Dashboard!Lifecycle!Create,
         Dashboard!Lifecycle!Start, Dashboard!Lifecycle!Finish,
         Dashboard!Lifecycle!GiveUpOn, Dashboard!Lifecycle!Rework,
         Dashboard!Lifecycle!Becomes
<1> QED
  BY <1>1 DEF Lifecycle!LifecycleNext

\* What is sent is a document.
Sending == sending \in Docs \cup {None}

LEMMA SendingStep == Sending /\ [WatchNext]_watchVars => Sending'
<1> SUFFICES ASSUME Sending, [WatchNext]_watchVars PROVE Sending'
  OBVIOUS
<1>1. CASE DocumentsMove \/ UNCHANGED watchVars
  BY <1>1 DEF DocumentsMove, watchVars, listVars, Sending
<1>2. CASE Dashboard!UploadFails \/ Dashboard!Leave
  BY <1>2 DEF Dashboard!UploadFails, Dashboard!Leave, Sending
<1>3. ASSUME NEW d \in Docs, SendUpload(d) PROVE Sending'
  BY <1>3 DEF SendUpload, Dashboard!StartUpload, Sending
<1>4. ASSUME NEW f \in Fetches, Accepted(f) \/ Dashboard!Fetching(f)
      PROVE  Sending'
  BY <1>4
     DEF Accepted, Dashboard!Fetching, Dashboard!Tick, Dashboard!Answer,
         Dashboard!Arrive, Dashboard!Fails, Dashboard!SignedOut,
         Dashboard!Ends, Sending
<1> QED
  BY <1>1, <1>2, <1>3, <1>4 DEF WatchNext, ListMoves

\* The 202 comes after the row, because the job does.
LEMMA WatchStep ==
  ASSUME Typed, ChainInv, CalmInv, Sending, [WatchNext]_watchVars
  PROVE  [Dashboard!Next]_(Dashboard!vars)
<1> USE DEF Dashboard!Next, Dashboard!vars
<1>1. CASE DocumentsMove
  <2>1. UNCHANGED <<mounted, list, sending, await, fetch>>
    BY <1>1 DEF DocumentsMove, listVars
  <2>2. Lifecycle!LifecycleNext
    BY <1>1, LifecycleStep DEF DocumentsMove
  <2>3. CASE UNCHANGED [d \in Docs |-> rows[d].status]
    BY <2>1, <2>3
  <2>4. ASSUME NEW e \in Docs,
               \/ Dashboard!Lifecycle!Create(e)
               \/ rows[e].status # "NONE" /\ Dashboard!Lifecycle!Step(e)
        PROVE  Dashboard!RowCreated(e) \/ Dashboard!RowMoves(e)
    BY <2>1, <2>4 DEF Dashboard!RowCreated, Dashboard!RowMoves
  <2> QED
    BY <2>2, <2>3, <2>4, ListedMoves
<1>2. CASE ListMoves
  <2>1. UNCHANGED [d \in Docs |-> rows[d].status]
    BY <1>2 DEF ListMoves, vars
  <2>2. ASSUME NEW d \in Docs, SendUpload(d) PROVE Dashboard!StartUpload(d)
    BY <2>2 DEF SendUpload
  <2>3. ASSUME NEW f \in Fetches, Accepted(f) PROVE Dashboard!Uploaded(f)
    <3>1. sending \in Docs
      BY <2>3 DEF Accepted, Sending
    <3>2. rows[sending].status # "NONE"
      BY <2>3, <3>1 DEF Accepted, ChainInv, UploadChain
    <3> QED
      BY <2>1, <2>3, <3>1, <3>2 DEF Accepted, Dashboard!Uploaded
  <2> QED
    BY <1>2, <2>2, <2>3 DEF ListMoves
<1>3. CASE UNCHANGED watchVars
  BY <1>3 DEF watchVars, vars, listVars
<1> QED
  BY <1>1, <1>2, <1>3 DEF WatchNext
\* Over the pipeline the dashboard is the dashboard of DashboardPage.
THEOREM WatchesTheLifecycle == WatchSpec => ListSpec
<1>1. WatchInit => Sending /\ Dashboard!Init
  BY DEF WatchInit, Dashboard!Init, Sending
<1>2. Typed /\ ChainInv /\ CalmInv /\ Sending /\ [WatchNext]_watchVars
        => [Dashboard!Next]_(Dashboard!vars)
  BY WatchStep
<1> QED
  BY <1>1, <1>2, SendingStep, WatchedRows, CalmCorrect, PTL
     DEF WatchSpec, ListSpec, Dashboard!Spec

LEMMA SameList == Dashboard!Spec => ListFacts!Spec
<1> USE DEF Dashboard!List, ListFacts!List, Dashboard!DocumentStatus,
            ListFacts!DocumentStatus, Dashboard!Free, ListFacts!Free,
            Dashboard!Asked, ListFacts!Asked, Dashboard!Ask, ListFacts!Ask,
            Dashboard!Ends, ListFacts!Ends
<1>1. Dashboard!Init => ListFacts!Init
  BY DEF Dashboard!Init, ListFacts!Init
<1>2. ASSUME NEW d \in Docs
      PROVE  /\ Dashboard!StartUpload(d) => ListFacts!StartUpload(d)
             /\ Dashboard!RowCreated(d) => ListFacts!RowCreated(d)
             /\ Dashboard!RowMoves(d) => ListFacts!RowMoves(d)
  BY DEF Dashboard!StartUpload, ListFacts!StartUpload,
         Dashboard!RowCreated, ListFacts!RowCreated,
         Dashboard!RowMoves, ListFacts!RowMoves,
         Dashboard!Lifecycle!Step, ListFacts!Lifecycle!Step,
         Dashboard!Lifecycle!Create, ListFacts!Lifecycle!Create,
         Dashboard!Lifecycle!Start, ListFacts!Lifecycle!Start,
         Dashboard!Lifecycle!Finish, ListFacts!Lifecycle!Finish,
         Dashboard!Lifecycle!GiveUpOn, ListFacts!Lifecycle!GiveUpOn,
         Dashboard!Lifecycle!Rework, ListFacts!Lifecycle!Rework,
         Dashboard!Lifecycle!Becomes, ListFacts!Lifecycle!Becomes
<1>3. ASSUME NEW f \in Fetches
      PROVE  /\ Dashboard!Uploaded(f) => ListFacts!Uploaded(f)
             /\ Dashboard!Fetching(f) => ListFacts!Fetching(f)
  BY DEF Dashboard!Uploaded, ListFacts!Uploaded,
         Dashboard!Fetching, ListFacts!Fetching, Dashboard!Tick, ListFacts!Tick,
         Dashboard!Answer, ListFacts!Answer, Dashboard!Arrive, ListFacts!Arrive,
         Dashboard!Fails, ListFacts!Fails, Dashboard!SignedOut, ListFacts!SignedOut
<1>4. [Dashboard!Next]_(Dashboard!vars) => [ListFacts!Next]_(ListFacts!vars)
  BY <1>2, <1>3
     DEF Dashboard!Next, ListFacts!Next, Dashboard!vars, ListFacts!vars,
         Dashboard!UploadFails, ListFacts!UploadFails,
         Dashboard!Leave, ListFacts!Leave
<1> QED
  BY <1>1, <1>4, PTL DEF Dashboard!Spec, ListFacts!Spec

\* The list that an upload waits for, read from the real table between any two
\* statements, contains the document: the 202 promises its row.  (None is
\* nobody's fetch.)
THEOREM WatchedUploadsAreListed ==
  ASSUME None \notin Fetches
  PROVE  WatchSpec => []UploadIsListed
<1>1. /\ Docs \subseteq Docs /\ None \notin Docs \cup Fetches
      /\ {"upload", "fetch", "401"} \subseteq {"upload", "fetch", "401"}
  BY QueueAssumption
<1>2. ListFacts!Spec => []ListFacts!UploadIsListed
  BY <1>1, ListFacts!UploadsAreListed
<1>3. ListFacts!UploadIsListed => UploadIsListed
  BY DEF ListFacts!UploadIsListed, ListFacts!List, ListFacts!DocumentStatus,
         UploadIsListed, Dashboard!UploadIsListed, Dashboard!List,
         Dashboard!DocumentStatus
<1> QED
  BY <1>2, <1>3, WatchesTheLifecycle, SameList, PTL DEF ListSpec
=============================================================================
