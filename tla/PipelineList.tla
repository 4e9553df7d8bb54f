---------------------------- MODULE PipelineList -----------------------------
(***************************************************************************)
(* A user uploads documents from the dashboard and watches the list:       *)
(* Pipeline and DashboardPage side by side.                                *)
(*                                                                         *)
(* DashboardPage takes for granted that an upload that is answered has its *)
(* row.  Here the answer is the 202 of DocumentsService.upload, which      *)
(* comes after the job was queued, and the lists are read from the rows    *)
(* between any two statements of the requests and the workers.             *)
(***************************************************************************)
EXTENDS Pipeline

CONSTANT Fetches   \* the list requests that may be in flight at one time

VARIABLES mounted, list, sending, await, fetch

listVars == <<mounted, list, sending, await, fetch>>
watchVars == <<vars, listVars>>

\* Every decision may be taken back, and every request may fail.
Dashboard == INSTANCE DashboardPage WITH
  rows     <- [d \in Docs |-> rows[d].status],
  open     <- mounted,
  shown    <- list,
  Suspects <- Docs,
  Faults   <- {"upload", "fetch", "401"}

WatchInit == Init /\ Dashboard!Init

\* POST /documents/upload of a document nobody has sent before.
SendUpload(d) ==
  /\ upload[d] = "new"
  /\ Dashboard!StartUpload(d)

\* The 202 arrives, whether or not the page is still there.
Accepted(f) ==
  /\ sending # None /\ await = None
  /\ upload[sending] = "accepted"
  /\ Dashboard!Ask(f)
  /\ await' = f
  /\ UNCHANGED <<mounted, list, sending>>

DocumentsMove == Next /\ UNCHANGED listVars

ListMoves ==
  /\ UNCHANGED vars
  /\ \/ Dashboard!UploadFails \/ Dashboard!Leave
     \/ \E d \in Docs : SendUpload(d)
     \/ \E f \in Fetches : Accepted(f) \/ Dashboard!Fetching(f)

WatchNext == DocumentsMove \/ ListMoves

WatchSpec == WatchInit /\ [][WatchNext]_watchVars

-----------------------------------------------------------------------------
\* To the dashboard, the pipeline is a set of documents that move as the
\* lifecycle says, and a 202 that means the row exists.
ListSpec == Dashboard!Spec

\* The list an upload waits for (line 59) contains the uploaded document.
UploadIsListed == Dashboard!UploadIsListed
=============================================================================
