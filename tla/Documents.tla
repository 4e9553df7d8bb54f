----------------------------- MODULE Documents -----------------------------
(***************************************************************************)
(* A row of the `documents` table as the pipeline sees it, and what the    *)
(* statements that write one do to it (backend/prisma/schema.prisma, and   *)
(* the data clauses of documents.service.ts and processing.processor.ts).  *)
(*                                                                         *)
(* Kept of a row: the status, whether an error message is set, the retry   *)
(* counter, and whether extractedData (always written together with        *)
(* processedAt) is set.  Names, sizes, checksums and the other timestamps  *)
(* are copied once or written only, and no decision reads them.            *)
(***************************************************************************)
EXTENDS Naturals

DocumentStatus == {"PENDING", "PROCESSING", "COMPLETED", "FAILED"}
Terminal       == {"COMPLETED", "FAILED"}
Undecided      == {"PENDING", "PROCESSING"}

\* "NONE" stands for a row that has not been created.
Row == [status: DocumentStatus \cup {"NONE"}, error: BOOLEAN,
        retries: Nat, data: BOOLEAN]

NoRow == [status |-> "NONE", error |-> FALSE, retries |-> 0, data |-> FALSE]

Created == [NoRow EXCEPT !.status = "PENDING"]

\* A claim that counts the attempt, which a failure then counts again.
ClaimedCounts(r) == [r EXCEPT !.status = "PROCESSING", !.retries = @ + 1]

Claimed(r) == [r EXCEPT !.status = "PROCESSING"]

RejectedAsPdf(r) == [r EXCEPT !.status = "FAILED", !.error = TRUE]

\* A completion that forgets the error message an earlier run left.
CompletedKeepsError(r) == [r EXCEPT !.status = "COMPLETED", !.data = TRUE]

Completed(r) ==
  [r EXCEPT !.status = "COMPLETED", !.data = TRUE, !.error = FALSE]

\* `decrement` for `increment`.
CountedDown(r) == [r EXCEPT !.retries = @ - 1]

\* A retry that is shown as PENDING again.
CountedAsPending(r) == [r EXCEPT !.retries = @ + 1, !.status = "PENDING"]

Counted(r) == [r EXCEPT !.retries = @ + 1]

GivenUp(r) == [r EXCEPT !.status = "FAILED", !.error = TRUE]
=============================================================================
