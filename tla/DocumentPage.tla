---------------------------- MODULE DocumentPage ----------------------------
(***************************************************************************)
(* The document page of the frontend (app/documents/[id]/page.tsx) while   *)
(* it follows one document by polling GET /documents/:id.                  *)
(*                                                                         *)
(* Polls are not cancelled and not ordered: a slow answer may arrive after *)
(* a later one.  The document itself moves as DocumentLifecycle says,      *)
(* which Pipeline is proved to implement; once it is suspect its decision  *)
(* may be taken back.                                                      *)
(***************************************************************************)
EXTENDS Documents

CONSTANTS
  Doc,     \* the document
  Polls,   \* the polls that may be in flight at one time; bounds the model
  Faults   \* "fail": a poll may fail with anything but a 401;
           \* "401": it may end with a 401 the refresh did not cure

VARIABLES
  status, suspect,   \* of DocumentLifecycle, for this document
  visit,   \* the user's visit to the page: before, open, or over
  shown,   \* status of the `doc` state; "NONE" before the first answer
  error,   \* the `error` state is set
  poll     \* each poll: free, asked, or the status it carries back

INSTANCE DocumentLifecycle WITH Docs <- {Doc}

document == <<status, suspect>>
vars == <<document, visit, shown, error, poll>>

\* The status of the document in the database; "NONE" before the upload.
row == status[Doc]

\* The page is mounted.
open == visit = "open"

TypeOK ==
  /\ status \in [{Doc} -> DocumentStatus \cup {"NONE"}]
  /\ suspect \subseteq {Doc}
  /\ visit \in {"before", "open", "over"}
  /\ shown \in DocumentStatus \cup {"NONE"}
  /\ error \in BOOLEAN
  /\ poll \in [Polls -> DocumentStatus \cup {"free", "asked"}]

Init ==
  /\ LifecycleInit
  /\ visit = "before"
  /\ shown = "NONE"
  /\ error = FALSE
  /\ poll = [p \in Polls |-> "free"]

\* An interval that a PENDING document does not start.
PollingWhileProcessing == open /\ shown = "PROCESSING"

\* The interval runs while the document in hand is not in a terminal state;
\* there is none before the first answer.
Polling == open /\ shown \in Undecided

\* What the user sees: the error, if there ever was one, hides the document.
Screen == IF error THEN "error" ELSE shown

\* A link in the list of documents opens the page at any time of the
\* document's life; the page asks once.
Open(p) ==
  /\ visit = "before" /\ row # "NONE"
  /\ visit' = "open"
  /\ poll' = [poll EXCEPT ![p] = "asked"]
  /\ UNCHANGED <<document, shown, error>>

Tick(p) ==
  /\ Polling
  /\ poll[p] = "free"
  /\ poll' = [poll EXCEPT ![p] = "asked"]
  /\ UNCHANGED <<document, visit, shown, error>>

\* DocumentsService.findOne reads the row.
Answer(p) ==
  /\ poll[p] = "asked"
  /\ poll' = [poll EXCEPT ![p] = row]
  /\ UNCHANGED <<document, visit, shown, error>>

\* setDoc of the promise itself: the await is missing.
ArriveUnawaited(p) ==
  /\ poll[p] # "free"
  /\ shown' = IF open THEN poll[p] ELSE shown
  /\ poll' = [poll EXCEPT ![p] = "free"]
  /\ UNCHANGED <<document, visit, error>>

\* setDoc(result); an answer for a page that is gone has no effect.
Arrive(p) ==
  /\ poll[p] \in DocumentStatus
  /\ shown' = IF open THEN poll[p] ELSE shown
  /\ poll' = [poll EXCEPT ![p] = "free"]
  /\ UNCHANGED <<document, visit, error>>

\* setError: nothing ever clears it again.
Fails(p) ==
  /\ "fail" \in Faults
  /\ poll[p] # "free"
  /\ error' = (error \/ open)
  /\ poll' = [poll EXCEPT ![p] = "free"]
  /\ UNCHANGED <<document, visit, shown>>

\* clearSession and a redirect to the login page.
SignedOut(p) ==
  /\ "401" \in Faults
  /\ poll[p] # "free"
  /\ visit' = "over"
  /\ poll' = [poll EXCEPT ![p] = "free"]
  /\ UNCHANGED <<document, shown, error>>

Leave ==
  /\ open
  /\ visit' = "over"
  /\ UNCHANGED <<document, shown, error, poll>>

\* What the pipeline does meanwhile.
RowMoves ==
  /\ suspect' \in SUBSET {Doc}
  /\ LifecycleNext
  /\ UNCHANGED <<visit, shown, error, poll>>

PageNext ==
  \/ Leave
  \/ \E p \in Polls :
       \/ Open(p) \/ Tick(p) \/ Answer(p)
       \/ Arrive(p) \/ Fails(p) \/ SignedOut(p)

Next == RowMoves \/ PageNext

Spec == Init /\ [][Next]_vars

\* The interval fires, the API answers and the network delivers; whether the
\* document moves or the user leaves is up to them.
FairSpec ==
  /\ Spec
  /\ WF_vars(\E p \in Polls : Tick(p))
  /\ \A p \in Polls : WF_vars(Answer(p)) /\ WF_vars(Arrive(p))

-----------------------------------------------------------------------------
\* The page is at rest only when there is nothing to follow: no poll is under
\* way and none will be made only if the page shows the status the document
\* really has, or its very first poll failed, or the pipeline may take back
\* decisions of this document.  Late answers can take the page back to an
\* earlier status, which must start the interval again (lines 51-56).
RestsOnTheTruth ==
  open /\ ~Polling /\ (\A p \in Polls : poll[p] = "free") =>
    shown = row \/ (shown = "NONE" /\ error) \/ Doc \in suspect

\* Once the document is decided the page comes to show the decision and keeps
\* showing it, whatever order the answers arrive in, unless a poll fails, whose
\* error is then what the user sees, or the document is suspect.
DecisionIsShown ==
  row \in Terminal ~>
    [](Screen \in {row, "error"} \/ ~open \/ Doc \in suspect)

\* page.tsx:117, shown for a document in progress: "This page polls every 2
\* seconds and will update automatically."
UpdatesAutomatically ==
  open /\ Screen \in Undecided /\ row \in Terminal ~>
    Screen = row \/ ~open \/ Doc \in suspect
=============================================================================
