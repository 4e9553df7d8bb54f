------------------------ MODULE DashboardPageProofs -------------------------
(***************************************************************************)
(* For any documents, fetches and faults: the list an upload waits for     *)
(* contains the uploaded document.                                         *)
(***************************************************************************)
EXTENDS DashboardPage, TLAPS

\* An upload that waits for its list has its row, and no list asked for since
\* lacks it.
UploadInv ==
  await # None =>
    /\ sending \in Docs /\ rows[sending] # "NONE"
    /\ fetch[await] \in List => fetch[await][sending] # "NONE"

DashboardInv == TypeOK /\ UploadInv

LEMMA ListStatus == \A d \in Docs, l \in List : l[d] # "asked" /\ l[d] # "free"
BY DEF List, DocumentStatus

\* What happens to the rows: none disappears.
LEMMA RowsStep ==
  ASSUME DashboardInv, NEW d \in Docs, RowCreated(d) \/ RowMoves(d)
  PROVE  DashboardInv'
<1> USE DEF DashboardInv, TypeOK
<1>1. /\ UNCHANGED <<open, shown, sending, await, fetch>>
      /\ rows' \in List
      /\ \A e \in Docs : rows[e] # "NONE" => rows'[e] # "NONE"
  BY DEF RowCreated, RowMoves, Lifecycle!Step, Lifecycle!Create,
         Lifecycle!Start, Lifecycle!Finish, Lifecycle!GiveUpOn,
         Lifecycle!Rework, Lifecycle!Becomes, List, DocumentStatus
<1> QED
  BY <1>1 DEF UploadInv

\* A fetch is asked for, answered, or ends.
LEMMA FetchStep ==
  ASSUME DashboardInv, NEW f \in Fetches,
         Uploaded(f) \/ Fetching(f)
  PROVE  DashboardInv'
<1> USE DashboardAssumption DEF DashboardInv, TypeOK
<1>1. CASE Tick(f)
  <2>1. TypeOK'
    BY <1>1 DEF Tick, Ask
  <2>2. UploadInv'
    BY <1>1, ListStatus DEF Tick, Ask, UploadInv, Asked
  <2> QED
    BY <2>1, <2>2
<1>2. CASE Uploaded(f)
  <2>1. TypeOK'
    BY <1>2 DEF Uploaded, Ask
  <2>2. /\ await' = f /\ sending' = sending /\ sending \in Docs
        /\ rows' = rows /\ rows[sending] # "NONE"
        /\ fetch'[f] = Asked
    BY <1>2 DEF Uploaded, Ask
  <2>3. Asked \notin List
    BY <2>2, ListStatus DEF Asked
  <2> QED
    BY <2>1, <2>2, <2>3 DEF UploadInv
<1>3. CASE Answer(f)
  <2>1. TypeOK'
    BY <1>3 DEF Answer
  <2>2. UploadInv'
    BY <1>3 DEF Answer, UploadInv
  <2> QED
    BY <2>1, <2>2
<1>4. CASE Arrive(f) \/ Fails(f) \/ SignedOut(f)
  <2>1. /\ Ends(f) /\ rows' = rows
        /\ open' \in BOOLEAN /\ shown' \in List
    BY <1>4 DEF Arrive, Fails, SignedOut
  <2>2. TypeOK'
    BY <2>1 DEF Ends
  <2>3. UploadInv'
    BY <2>1 DEF Ends, UploadInv
  <2> QED
    BY <2>2, <2>3
<1> QED
  BY <1>1, <1>2, <1>3, <1>4 DEF Fetching

\* The invariant of the dashboard, in whatever order lists arrive.
THEOREM DashboardInOrder == Spec => []DashboardInv
<1>1. Init => DashboardInv
  BY DEF Init, DashboardInv, TypeOK, UploadInv, List
<1>2. DashboardInv /\ [Next]_vars => DashboardInv'
  <2> SUFFICES ASSUME DashboardInv, [Next]_vars PROVE DashboardInv'
    OBVIOUS
  <2>1. CASE UploadFails \/ Leave \/ UNCHANGED vars
    BY <2>1 DEF UploadFails, Leave, vars, DashboardInv, TypeOK, UploadInv
  <2>2. ASSUME NEW d \in Docs, StartUpload(d) PROVE DashboardInv'
    BY <2>2, DashboardAssumption
       DEF StartUpload, DashboardInv, TypeOK, UploadInv
  <2> QED
    BY <2>1, <2>2, RowsStep, FetchStep DEF Next
<1> QED
  BY <1>1, <1>2, PTL DEF Spec

\* The types of the list, the upload and the fetches.
THEOREM DashboardTypes == Spec => []TypeOK
BY DashboardInOrder, PTL DEF DashboardInv

\* The list an upload waits for contains its document, however many fetches
\* are under way.
THEOREM UploadsAreListed == Spec => []UploadIsListed
<1>1. DashboardInv => UploadIsListed
  BY DEF DashboardInv, UploadInv, UploadIsListed
<1> QED
  BY <1>1, DashboardInOrder, PTL
=============================================================================
