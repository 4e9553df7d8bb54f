------------------------- MODULE DocumentPageProofs -------------------------
(***************************************************************************)
(* For any number of polls in flight and any faults: the document page is  *)
(* at rest only on the truth.                                              *)
(***************************************************************************)
EXTENDS DocumentPage, TLAPS

\* The page is opened only on a document that exists, and asks nothing before;
\* a decision that is shown or on its way is the document's, unless decisions
\* are taken back; and a page with nothing to show has a poll under way.
PageInv ==
  /\ TypeOK
  /\ visit # "before" => row # "NONE"
  /\ visit = "before" => \A p \in Polls : poll[p] = "free"
  /\ Doc \notin suspect =>
       /\ shown \in Terminal => row = shown
       /\ \A p \in Polls : poll[p] \in Terminal => row = poll[p]
  /\ open /\ shown = "NONE" /\ ~error => \E p \in Polls : poll[p] # "free"

LEMMA PollStep ==
  ASSUME PageInv, NEW p \in Polls,
         \/ Open(p) \/ Tick(p) \/ Answer(p)
         \/ Arrive(p) \/ Fails(p) \/ SignedOut(p)
  PROVE  PageInv'
<1> USE DEF PageInv, TypeOK, DocumentStatus, Terminal, document, row, open
<1>1. UNCHANGED <<status, suspect>> /\ row \in DocumentStatus
  BY DEF Open, Tick, Polling, Answer, Arrive, Fails, SignedOut
<1>2. CASE Tick(p)
  BY <1>2 DEF Tick, Polling, Undecided
<1>3. CASE Answer(p)
  BY <1>1, <1>3 DEF Answer
<1>4. CASE Arrive(p)
  BY <1>1, <1>4 DEF Arrive
<1>5. CASE Fails(p)
  BY <1>1, <1>5 DEF Fails
<1>6. CASE SignedOut(p)
  BY <1>1, <1>6 DEF SignedOut
<1>7. CASE Open(p)
  BY <1>1, <1>7 DEF Open
<1> QED
  BY <1>2, <1>3, <1>4, <1>5, <1>6, <1>7

\* A decision stands unless the document is suspect.
LEMMA RowStep ==
  ASSUME PageInv, RowMoves
  PROVE  PageInv'
<1> USE DEF PageInv, TypeOK, DocumentStatus, Terminal, row
<1>1. /\ suspect \subseteq suspect' /\ suspect' \subseteq {Doc}
      /\ UNCHANGED <<visit, shown, error, poll>>
  BY DEF RowMoves, LifecycleNext
<1>2. status' \in [{Doc} -> DocumentStatus \cup {"NONE"}]
  BY DEF RowMoves, LifecycleNext, Step, Create, Start, Finish, GiveUpOn,
         Rework, Becomes
<1>3. /\ Doc \notin suspect /\ row \in Terminal => row' = row
      /\ row # "NONE" => row' # "NONE"
  BY DEF RowMoves, LifecycleNext, Step, Create, Start, Finish, GiveUpOn,
         Rework, Becomes
<1> QED
  BY <1>1, <1>2, <1>3 DEF open

\* The invariant of the page, in whatever order answers arrive.
THEOREM PageInOrder == Spec => []PageInv
<1>1. Init => PageInv
  BY DEF Init, LifecycleInit, PageInv, TypeOK, DocumentStatus, Terminal, open
<1>2. PageInv /\ [Next]_vars => PageInv'
  <2> SUFFICES ASSUME PageInv, [Next]_vars PROVE PageInv'
    OBVIOUS
  <2>1. CASE Leave
    BY <2>1 DEF Leave, document, PageInv, TypeOK, row, open
  <2>2. CASE UNCHANGED vars
    BY <2>2 DEF vars, document, PageInv, TypeOK, row, open
  <2> QED
    BY <2>1, <2>2, PollStep, RowStep DEF Next, PageNext
<1> QED
  BY <1>1, <1>2, PTL DEF Spec

\* The types of the page's state and of its polls.
THEOREM PageTypes == Spec => []TypeOK
BY PageInOrder, PTL DEF PageInv

\* A page at rest shows the truth, or the error of its first poll, or a
\* decision that was taken back.
THEOREM PageRestsOnTheTruth == Spec => []RestsOnTheTruth
<1>1. PageInv => RestsOnTheTruth
  BY DEF PageInv, TypeOK, RestsOnTheTruth, Polling, Undecided, Terminal,
         DocumentStatus, open, row
<1> QED
  BY <1>1, PageInOrder, PTL
=============================================================================
