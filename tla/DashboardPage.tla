--------------------------- MODULE DashboardPage ----------------------------
(***************************************************************************)
(* The dashboard of the frontend (app/dashboard/page.tsx): it uploads      *)
(* documents one at a time and polls the list of documents.                *)
(*                                                                         *)
(* A list is a snapshot of all statuses.  Fetches are neither cancelled    *)
(* nor ordered, so an old snapshot may replace a newer one.  The documents *)
(* move as DocumentLifecycle says, which Pipeline is proved to implement.  *)
(***************************************************************************)
EXTENDS Documents

CONSTANTS
  Docs,      \* the documents of the user's tenant; fewer than a page of 50
  Suspects,  \* those whose decisions the pipeline may take back
  Fetches,   \* the list requests that may be in flight at one time; a bound
  None,
  Faults     \* "upload": an upload may be answered with an error;
             \* "fetch": a list request may fail with anything but a 401;
             \* "401": it may end with a 401 the refresh did not cure

ASSUME DashboardAssumption ==
  /\ Suspects \subseteq Docs
  /\ None \notin Docs \cup Fetches
  /\ Faults \subseteq {"upload", "fetch", "401"}

VARIABLES
  rows,      \* the statuses in the database, "NONE" before the row exists
  open,      \* the page is mounted
  shown,     \* the list the page shows; the empty list before the first one
  sending,   \* the document whose upload is under way, or None
  await,     \* the fetch that upload waits for, or None
  fetch      \* each list request: free, asked, or the list it carries back

vars == <<rows, open, shown, sending, await, fetch>>

Lifecycle == INSTANCE DocumentLifecycle WITH status <- rows, suspect <- Suspects

List == [Docs -> DocumentStatus \cup {"NONE"}]
Free  == [d \in Docs |-> "free"]
Asked == [d \in Docs |-> "asked"]

TypeOK ==
  /\ rows \in List
  /\ open \in BOOLEAN
  /\ shown \in List
  /\ sending \in Docs \cup {None}
  /\ await \in Fetches \cup {None}
  /\ fetch \in [Fetches -> List \cup {Free, Asked}]

Ask(f) == fetch[f] = Free /\ fetch' = [fetch EXCEPT ![f] = Asked]

Init ==
  /\ rows = [d \in Docs |-> "NONE"]
  /\ open = TRUE
  /\ shown = rows
  /\ sending = None
  /\ await = None
  /\ \E f \in Fetches :
       fetch = [g \in Fetches |-> IF g = f THEN Asked ELSE Free]

\* An interval that polls only while the list shows a document in progress.
TickWhileProcessing(f) ==
  /\ open
  /\ \E d \in Docs : shown[d] \in Undecided
  /\ Ask(f)
  /\ UNCHANGED <<rows, open, shown, sending, await>>

\* setInterval(fetchDocs, 3000), or the Refresh button.
Tick(f) ==
  /\ open
  /\ Ask(f)
  /\ UNCHANGED <<rows, open, shown, sending, await>>

\* A file is chosen; the input is disabled while an upload is under way.
StartUpload(d) ==
  /\ open /\ sending = None /\ rows[d] = "NONE"
  /\ sending' = d
  /\ UNCHANGED <<rows, open, shown, await, fetch>>

\* DocumentsService.upload creates the row: for the upload under way, for one
\* whose connection was lost, or for a colleague of the same tenant.
RowCreated(d) ==
  /\ Lifecycle!Create(d)
  /\ UNCHANGED <<open, shown, sending, await, fetch>>

\* The list is fetched without waiting for the answer.
UploadedAtOnce(f) ==
  /\ sending # None /\ await = None
  /\ Ask(f)
  /\ await' = f
  /\ UNCHANGED <<rows, open, shown, sending>>

\* It answers once the row exists; the handler then awaits a fetch of its own,
\* even if the user has gone to another page meanwhile.
Uploaded(f) ==
  /\ sending # None /\ await = None /\ rows[sending] # "NONE"
  /\ Ask(f)
  /\ await' = f
  /\ UNCHANGED <<rows, open, shown, sending>>

\* The upload is answered with an error, whether or not the row was created.
UploadFails ==
  /\ "upload" \in Faults
  /\ sending # None /\ await = None
  /\ sending' = None
  /\ UNCHANGED <<rows, open, shown, await, fetch>>

Answer(f) ==
  /\ fetch[f] = Asked
  /\ fetch' = [fetch EXCEPT ![f] = rows]
  /\ UNCHANGED <<rows, open, shown, sending, await>>

\* fetchDocs never throws: an awaited fetch ends the upload however it ends.
Ends(f) ==
  /\ fetch' = [fetch EXCEPT ![f] = Free]
  /\ await' = IF await = f THEN None ELSE await
  /\ sending' = IF await = f THEN None ELSE sending

\* setDocs of a list that has not been awaited.
ArriveUnawaited(f) ==
  /\ fetch[f] # Free
  /\ shown' = IF open THEN fetch[f] ELSE shown
  /\ Ends(f)
  /\ UNCHANGED <<rows, open>>

\* setDocs(result.items)
Arrive(f) ==
  /\ fetch[f] \in List
  /\ shown' = IF open THEN fetch[f] ELSE shown
  /\ Ends(f)
  /\ UNCHANGED <<rows, open>>

\* Anything but a 401 is ignored: the next tick asks again.  A list that is
\* lost on its way back might as well never have been read.
Fails(f) ==
  /\ "fetch" \in Faults
  /\ fetch[f] = Asked
  /\ Ends(f)
  /\ UNCHANGED <<rows, open, shown>>

SignedOut(f) ==
  /\ "401" \in Faults
  /\ fetch[f] = Asked
  /\ open' = FALSE
  /\ Ends(f)
  /\ UNCHANGED <<rows, shown>>

\* "Sign out", a link to a document, or closing the page.
Leave ==
  /\ open
  /\ open' = FALSE
  /\ UNCHANGED <<rows, shown, sending, await, fetch>>

\* What the pipeline does meanwhile.
RowMoves(d) ==
  /\ rows[d] # "NONE"
  /\ Lifecycle!Step(d)
  /\ UNCHANGED <<open, shown, sending, await, fetch>>

Fetching(f) ==
  Tick(f) \/ Answer(f) \/ Arrive(f) \/ Fails(f) \/ SignedOut(f)

Next ==
  \/ UploadFails \/ Leave
  \/ \E d \in Docs : StartUpload(d) \/ RowCreated(d) \/ RowMoves(d)
  \/ \E f \in Fetches : Uploaded(f) \/ Fetching(f)

Spec == Init /\ [][Next]_vars

\* The interval fires, the API answers, and a request made again and again is
\* answered at last; whether documents move, the user uploads or leaves, and
\* whether a request fails is open.
FairSpec ==
  /\ Spec
  /\ WF_vars(\E f \in Fetches : Tick(f))
  /\ \A f \in Fetches : SF_vars(Answer(f)) /\ WF_vars(Arrive(f))

-----------------------------------------------------------------------------
\* The list an upload waits for (line 59) contains the uploaded document: it
\* is asked for only after the row exists.
UploadIsListed ==
  await # None /\ fetch[await] \in List => fetch[await][sending] # "NONE"

\* However the lists are delayed, reordered or lost, the page comes to show
\* the final status of every document and keeps showing it, even if decisions
\* were taken back meanwhile: the unconditional interval (line 49) repairs what
\* a late list spoils.
ListCatchesUp ==
  \A d \in Docs, s \in Terminal :
    <>[](rows[d] = s) => <>[](shown[d] = s \/ ~open)
=============================================================================
