------------------------------ MODULE Documents ------------------------------
(***************************************************************************)
(* Uploads of supporting documents: upload_loan_document of loans/api.py   *)
(* and store_loan_document of loans/documents.py.  An upload changes two   *)
(* stores that no transaction spans, the media directory and the table     *)
(* loan_documents; the file is written first, chunk by chunk.              *)
(*                                                                         *)
(* A body is the number of its chunks and what is wrong with it, if        *)
(* anything: its type or its magic bytes.  Sizes are counted in chunks.    *)
(***************************************************************************)
EXTENDS Naturals, FiniteSets

CONSTANTS Clients, Managers, Workers,
          None,                      \* no client, no file, no row
          LoanIds,                   \* the identifiers that requests name
          MaxSize,                   \* MAX_LOAN_DOCUMENT_BYTES
          MaxFiles,                  \* bound: names drawn with uuid4
          MaxCrashes, MaxFaults      \* bounds: server crashes, failed calls

Users == Clients \cup Managers
Names == 1..MaxFiles
Row == [loan : LoanIds, uploader : Users, size : Nat]

ASSUME NoneIsNothing ==
    None \notin Users /\ None \notin Nat /\ None \notin Row
ASSUME WorkersAreFinite == IsFiniteSet(Workers)
ASSUME BoundsAreNat ==
    MaxSize \in Nat /\ MaxFiles \in Nat /\ MaxCrashes \in Nat /\ MaxFaults \in Nat

VARIABLES
    owner,      \* the client of every loan, None when there is no such loan
    files,      \* the media directory: name -> chunks written, None when absent
    rows,       \* table loan_documents: stored_name -> row or None
    issued,     \* how many names uuid4 has drawn
    pc, req, code,
    name, size, \* local variables of store_loan_document
    crashes, faults                  \* counters for the bounds

stores == <<owner, files, rows, issued>>
handler == <<pc, req, code, name, size>>
counters == <<crashes, faults>>
vars == <<owner, files, rows, issued, pc, req, code, name, size, crashes, faults>>

\* Bodies at every edge of the checks: empty, full, one chunk too large.
Requests == [user : Users, loan : LoanIds, chunks : 0..(MaxSize + 1),
             body : {"good", "wrongType", "wrongMagic"}]
Steps == {"idle", "loan", "store", "write", "unlink", "row", "answer"}

Init ==
    /\ owner \in [LoanIds -> Clients \cup {None}]
    /\ files = [n \in Names |-> None]
    /\ rows = [n \in Names |-> None]
    /\ issued = 0
    /\ pc = [w \in Workers |-> "idle"]
    /\ req = [w \in Workers |-> None]
    /\ code = [w \in Workers |-> 0]
    /\ name = [w \in Workers |-> None]
    /\ size = [w \in Workers |-> 0]
    /\ crashes = 0 /\ faults = 0

Goto(w, step) == pc' = [pc EXCEPT ![w] = step] /\ UNCHANGED <<req, code>>

\* The result, or the error that is on its way to the client.
Leave(w, step, c) ==
    /\ pc' = [pc EXCEPT ![w] = step]
    /\ code' = [code EXCEPT ![w] = c]
    /\ UNCHANGED req

Begin(w) ==
    /\ pc[w] = "idle"
    /\ \E r \in Requests : req' = [req EXCEPT ![w] = r]
    /\ pc' = [pc EXCEPT ![w] = "loan"]
    /\ UNCHANGED <<stores, code, name, size, counters>>

\* _get_loan_or_404, the test of the role, _assert_can_view
FindLoan(w) ==
    /\ pc[w] = "loan"
    /\ LET r == req[w] IN
       IF owner[r.loan] = None THEN Leave(w, "answer", 404)
       ELSE IF r.user \notin Clients THEN Leave(w, "answer", 403)
       ELSE IF owner[r.loan] # r.user THEN Leave(w, "answer", 404)
       ELSE Goto(w, "store")
    /\ UNCHANGED <<stores, name, size, counters>>

\* Variant: what is refused is reported as a validation error.
RefuseUnprocessable(w) ==
    /\ pc[w] = "store"
    /\ req[w].body = "wrongType" \/ req[w].chunks > MaxSize
    /\ Leave(w, "answer", 422)
    /\ UNCHANGED <<stores, name, size, counters>>

\* The declared type and size are refused before a file exists.
Refuse(w) ==
    /\ pc[w] = "store"
    /\ req[w].body = "wrongType" \/ req[w].chunks > MaxSize
    /\ Leave(w, "answer", IF req[w].body = "wrongType" THEN 415 ELSE 413)
    /\ UNCHANGED <<stores, name, size, counters>>

\* open("xb") of a name never used before.
Open(w) ==
    /\ pc[w] = "store"
    /\ req[w].body # "wrongType" /\ req[w].chunks <= MaxSize
    /\ issued < MaxFiles
    /\ issued' = issued + 1
    /\ name' = [name EXCEPT ![w] = issued + 1]
    /\ files' = [files EXCEPT ![issued + 1] = 0]
    /\ size' = [size EXCEPT ![w] = 0]
    /\ Goto(w, "write")
    /\ UNCHANGED <<owner, rows, counters>>

\* Variant: the row is created before the last chunk is written.
WriteChunkEager(w) ==
    /\ pc[w] = "write"
    /\ size[w] < req[w].chunks
    /\ files' = [files EXCEPT ![name[w]] = size[w] + 1]
    /\ size' = [size EXCEPT ![w] = req[w].chunks]
    /\ Goto(w, "write")
    /\ UNCHANGED <<owner, rows, issued, name, counters>>

\* The header of the first chunk is judged before the chunk is written, and so
\* is the size; Django declares the true size, so that no chunk is too many here.
WriteChunk(w) ==
    /\ pc[w] = "write"
    /\ size[w] < req[w].chunks
    /\ IF size[w] = 0 /\ req[w].body = "wrongMagic"
       THEN Leave(w, "unlink", 415) /\ UNCHANGED <<files, size>>
       ELSE IF size[w] = MaxSize
       THEN Leave(w, "unlink", 413) /\ UNCHANGED <<files, size>>
       ELSE /\ files' = [files EXCEPT ![name[w]] = size[w] + 1]
            /\ size' = [size EXCEPT ![w] = size[w] + 1]
            /\ Goto(w, "write")
    /\ UNCHANGED <<owner, rows, issued, name, counters>>

\* Variant: an empty file is refused outside the try.
EndOfFileUnguarded(w) ==
    /\ pc[w] = "write"
    /\ size[w] = req[w].chunks
    /\ IF size[w] = 0 THEN Leave(w, "answer", 400) ELSE Goto(w, "row")
    /\ UNCHANGED <<stores, name, size, counters>>

EndOfFile(w) ==
    /\ pc[w] = "write"
    /\ size[w] = req[w].chunks
    /\ IF size[w] = 0 THEN Leave(w, "unlink", 400) ELSE Goto(w, "row")
    /\ UNCHANGED <<stores, name, size, counters>>

\* The handler of every exception in the try: final_path.unlink.
Unlink(w) ==
    /\ pc[w] = "unlink"
    /\ files' = [files EXCEPT ![name[w]] = None]
    /\ Goto(w, "answer")
    /\ UNCHANGED <<owner, rows, issued, name, size, counters>>

\* Variant: an exception of log_action is not caught.
CreateRowUnsure(w) ==
    /\ pc[w] = "row"
    /\ rows' = [rows EXCEPT ![name[w]] =
          [loan |-> req[w].loan, uploader |-> req[w].user, size |-> size[w]]]
    /\ \E c \in {201, 500} : Leave(w, "answer", c)
    /\ UNCHANGED <<owner, files, issued, name, size, counters>>

\* LoanDocument.objects.create, after the try.
CreateRow(w) ==
    /\ pc[w] = "row"
    /\ rows' = [rows EXCEPT ![name[w]] =
          [loan |-> req[w].loan, uploader |-> req[w].user, size |-> size[w]]]
    /\ Leave(w, "answer", 201)
    /\ UNCHANGED <<owner, files, issued, name, size, counters>>

Answer(w) ==
    /\ pc[w] = "answer"
    /\ pc' = [pc EXCEPT ![w] = "idle"]
    /\ req' = [req EXCEPT ![w] = None]
    /\ code' = [code EXCEPT ![w] = 0]
    /\ name' = [name EXCEPT ![w] = None]
    /\ size' = [size EXCEPT ![w] = 0]
    /\ UNCHANGED <<stores, counters>>

-----------------------------------------------------------------------------
Fault == faults < MaxFaults /\ faults' = faults + 1 /\ UNCHANGED crashes

\* The directory or the file cannot be created; nothing is there to remove.
OpenFails(w) ==
    /\ pc[w] = "store"
    /\ req[w].body # "wrongType" /\ req[w].chunks <= MaxSize
    /\ Fault
    /\ Leave(w, "answer", 500)
    /\ UNCHANGED <<stores, name, size>>

\* The disk is full: an exception in the try.
WriteFails(w) ==
    /\ pc[w] = "write"
    /\ Fault
    /\ Leave(w, "unlink", 500)
    /\ UNCHANGED <<stores, name, size>>

\* An exception of unlink is suppressed.
UnlinkFails(w) ==
    /\ pc[w] = "unlink"
    /\ Fault
    /\ Goto(w, "answer")
    /\ UNCHANGED <<stores, name, size>>

\* A statement raises; nothing removes a file that was written before.
StatementFails(w) ==
    /\ pc[w] \in {"loan", "row"}
    /\ Fault
    /\ Leave(w, "answer", 500)
    /\ UNCHANGED <<stores, name, size>>

\* The server dies and is started again.
Crash ==
    /\ crashes < MaxCrashes
    /\ crashes' = crashes + 1
    /\ pc' = [w \in Workers |-> "idle"]
    /\ req' = [w \in Workers |-> None]
    /\ code' = [w \in Workers |-> 0]
    /\ name' = [w \in Workers |-> None]
    /\ size' = [w \in Workers |-> 0]
    /\ UNCHANGED <<stores, faults>>

\* The bound on names is reached.
Exhausted ==
    /\ issued = MaxFiles
    /\ UNCHANGED vars

Next ==
    \/ \E w \in Workers :
          \/ Begin(w) \/ FindLoan(w) \/ Refuse(w) \/ Open(w) \/ WriteChunk(w) \/ EndOfFile(w)
          \/ Unlink(w) \/ CreateRow(w) \/ Answer(w)
          \/ OpenFails(w) \/ WriteFails(w) \/ UnlinkFails(w) \/ StatementFails(w)
    \/ Crash \/ Exhausted

Spec == Init /\ [][Next]_vars

-----------------------------------------------------------------------------
StoresOK ==
    /\ owner \in [LoanIds -> Clients \cup {None}]
    /\ files \in [Names -> 0..MaxSize \cup {None}]
    /\ rows \in [Names -> Row \cup {None}]
    /\ issued \in 0..MaxFiles

HandlersOK ==
    /\ pc \in [Workers -> Steps]
    /\ req \in [Workers -> Requests \cup {None}]
    /\ code \in [Workers -> {0, 201, 400, 403, 404, 413, 415, 500}]
    /\ name \in [Workers -> Names \cup {None}]
    /\ size \in [Workers -> 0..MaxSize]
    /\ crashes \in 0..MaxCrashes
    /\ faults \in 0..MaxFaults

\* Every variable stays within what the handlers know; no file outgrows MaxSize.
TypeOK == StoresOK /\ HandlersOK

\* Every row describes a file that is there, complete and not empty, for a loan
\* of its uploader: the row is the commit point of an upload.
RowsHaveFiles ==
    \A n \in Names : rows[n] # None =>
        /\ files[n] = rows[n].size /\ rows[n].size > 0
        /\ owner[rows[n].loan] = rows[n].uploader

\* A file that has no row and that no upload in progress will delete or record.
Orphans ==
    {n \in Names : /\ files[n] # None /\ rows[n] = None
                   /\ \A w \in Workers : name[w] = n => pc[w] = "answer"}

\* Only what fails costs disk space: each failed call leaves one file behind at
\* most, each crash one per thread, and a refused upload none.
OrphansExplained == Cardinality(Orphans) <= faults + crashes * Cardinality(Workers)

\* An upload that was answered with an error has no row: a client may repeat it.
\* One that was answered 201 has one.
AnswersTrue ==
    \A w \in Workers : (pc[w] = "answer" /\ name[w] # None) =>
        (code[w] = 201 <=> rows[name[w]] # None)
=============================================================================
