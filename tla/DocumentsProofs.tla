--------------------------- MODULE DocumentsProofs ---------------------------
(***************************************************************************)
(* Proofs about Documents for every set of users, threads, loans and names, *)
(* and every size limit: rows describe complete files, what was answered is  *)
(* true, and each file without a row is paid for by a failure or a crash.    *)
(***************************************************************************)
EXTENDS Documents, FiniteSetTheorems, TLAPS

Uploading == {"store", "write", "unlink", "row"}

\* A request is there while it is handled; only the owner of a loan gets past
\* _assert_can_view; the file is named once it is open.
RequestInv ==
    \A w \in Workers :
        /\ pc[w] # "idle" => req[w] \in Requests
        /\ pc[w] \in Uploading => owner[req[w].loan] = req[w].user
        /\ pc[w] # "answer" => code[w] # 201
        /\ pc[w] \in {"idle", "loan", "store"} => name[w] = None
        /\ pc[w] \in {"write", "unlink", "row"} => name[w] # None
        /\ pc[w] = "write" => size[w] <= req[w].chunks /\ req[w].chunks <= MaxSize

\* A name is drawn once, and is nobody else's.
NameInv ==
    /\ \A v, w \in Workers : name[v] # None /\ name[v] = name[w] => v = w
    /\ \A w \in Workers : name[w] # None => name[w] <= issued
    /\ \A n \in Names : n > issued => files[n] = None /\ rows[n] = None

\* A file that is being written has as many chunks as its handler has counted,
\* and no row before the last.
FileInv ==
    \A w \in Workers :
        /\ pc[w] \in {"write", "row"} => files[name[w]] = size[w]
        /\ pc[w] = "row" => size[w] > 0
        /\ pc[w] \in {"write", "unlink", "row"} => rows[name[w]] = None

DocInv == TypeOK /\ RequestInv /\ NameInv /\ FileInv /\ RowsHaveFiles /\ AnswersTrue

-----------------------------------------------------------------------------
LEMMA RequestShape ==
    ASSUME NEW r \in Requests
    PROVE  /\ r.user \in Users /\ r.loan \in LoanIds /\ r.chunks \in Nat
           /\ r.body \in {"good", "wrongType", "wrongMagic"}
BY BoundsAreNat DEF Requests

LEMMA DocInit == Init => DocInv
<1> SUFFICES ASSUME Init PROVE DocInv
  OBVIOUS
<1>1. TypeOK
  BY BoundsAreNat DEF Init, TypeOK, StoresOK, HandlersOK, Steps
<1>2. RequestInv /\ FileInv /\ RowsHaveFiles /\ AnswersTrue
  BY DEF Init, RequestInv, FileInv, RowsHaveFiles, AnswersTrue, Uploading
<1>3. NameInv
  BY DEF Init, NameInv
<1>4. QED
  BY <1>1, <1>2, <1>3 DEF DocInv

\* A step of w that leaves the stores alone and gives w no new name or size.
Walks(w) ==
    /\ UNCHANGED <<owner, files, rows, issued, name, size>>
    /\ \A v \in Workers : v # w => pc'[v] = pc[v] /\ req'[v] = req[v] /\ code'[v] = code[v]

LEMMA WalkKeeps ==
    ASSUME DocInv, NEW w \in Workers, Walks(w), TypeOK',
           pc'[w] # "idle", req'[w] \in Requests,
           pc'[w] \in Uploading => owner[req'[w].loan] = req'[w].user,
           pc'[w] # "answer" => code'[w] # 201,
           pc'[w] \in {"loan", "store"} => name[w] = None,
           pc'[w] \in {"write", "unlink", "row"} => name[w] # None /\ rows[name[w]] = None,
           pc'[w] = "write" => pc[w] = "write" /\ req'[w] = req[w],
           pc'[w] = "row" => files[name[w]] = size[w] /\ size[w] > 0,
           pc'[w] = "answer" /\ name[w] # None => (code'[w] = 201 <=> rows[name[w]] # None)
    PROVE  DocInv'
<1>1. RequestInv'
  BY DEF DocInv, RequestInv, Walks, Uploading
<1>2. NameInv'
  BY DEF DocInv, NameInv, Walks
<1>3. FileInv'
  BY DEF DocInv, FileInv, Walks
<1>4. RowsHaveFiles'
  BY DEF DocInv, RowsHaveFiles, Walks
<1>5. AnswersTrue'
  BY DEF DocInv, AnswersTrue, Walks
<1>6. QED
  BY <1>1, <1>2, <1>3, <1>4, <1>5 DEF DocInv

LEMMA TypeStep == TypeOK /\ RequestInv /\ [Next]_vars => TypeOK'
<1> SUFFICES ASSUME TypeOK, RequestInv, [Next]_vars PROVE TypeOK'
  OBVIOUS
<1> USE BoundsAreNat DEF TypeOK, StoresOK, HandlersOK, Steps
<1>1. ASSUME NEW w \in Workers, Begin(w) PROVE TypeOK'
  BY <1>1 DEF Begin, stores, counters
<1>2. ASSUME NEW w \in Workers, FindLoan(w) PROVE TypeOK'
  BY <1>2 DEF FindLoan, Leave, Goto, stores, counters
<1>3. ASSUME NEW w \in Workers, Refuse(w) PROVE TypeOK'
  BY <1>3 DEF Refuse, Leave, stores, counters
<1>4. ASSUME NEW w \in Workers, Open(w) PROVE TypeOK'
  <2>1. issued + 1 \in Names /\ issued' \in 0..MaxFiles
    BY <1>4 DEF Open, Names
  <2>2. files' \in [Names -> 0..MaxSize \cup {None}] /\ name' \in [Workers -> Names \cup {None}]
        /\ size' \in [Workers -> 0..MaxSize]
    BY <1>4, <2>1 DEF Open
  <2>3. QED
    BY <1>4, <2>1, <2>2 DEF Open, Goto, counters
<1>5. ASSUME NEW w \in Workers, WriteChunk(w) PROVE TypeOK'
  <2>1. pc[w] = "write" /\ name[w] \in Names /\ UNCHANGED <<owner, rows, issued, name, crashes, faults, req>>
    BY <1>5 DEF WriteChunk, RequestInv, counters, Leave, Goto
  <2>2. CASE UNCHANGED <<files, size>>
    BY <1>5, <2>1, <2>2 DEF WriteChunk, Leave, Goto
  <2>3. CASE /\ size[w] # MaxSize
             /\ files' = [files EXCEPT ![name[w]] = size[w] + 1]
             /\ size' = [size EXCEPT ![w] = size[w] + 1]
             /\ Goto(w, "write")
    <3>1. size[w] + 1 \in 0..MaxSize
      BY <2>3
    <3>2. files' \in [Names -> 0..MaxSize \cup {None}] /\ size' \in [Workers -> 0..MaxSize]
      BY <2>1, <2>3, <3>1
    <3>3. QED
      BY <2>1, <2>3, <3>2 DEF Goto
  <2>4. QED
    BY <1>5, <2>2, <2>3 DEF WriteChunk
<1>6. ASSUME NEW w \in Workers, EndOfFile(w) PROVE TypeOK'
  BY <1>6 DEF EndOfFile, Leave, Goto, stores, counters
<1>7. ASSUME NEW w \in Workers, Unlink(w) PROVE TypeOK'
  <2>1. files' \in [Names -> 0..MaxSize \cup {None}]
    BY <1>7 DEF Unlink
  <2>2. QED
    BY <1>7, <2>1 DEF Unlink, Goto, counters
<1>8. ASSUME NEW w \in Workers, CreateRow(w) PROVE TypeOK'
  <2>1. [loan |-> req[w].loan, uploader |-> req[w].user, size |-> size[w]] \in Row
    <3>1. req[w] \in Requests /\ size[w] \in Nat
      BY <1>8 DEF CreateRow, RequestInv
    <3>2. QED
      BY <3>1, RequestShape DEF Row
  <2>2. rows' \in [Names -> Row \cup {None}]
    BY <1>8, <2>1 DEF CreateRow
  <2>3. QED
    BY <1>8, <2>2 DEF CreateRow, Leave, counters
<1>9. ASSUME NEW w \in Workers, Answer(w) PROVE TypeOK'
  BY <1>9 DEF Answer, stores, counters
<1>10. ASSUME NEW w \in Workers,
              OpenFails(w) \/ WriteFails(w) \/ UnlinkFails(w) \/ StatementFails(w)
       PROVE  TypeOK'
  BY <1>10 DEF OpenFails, WriteFails, UnlinkFails, StatementFails, Fault, Leave, Goto, stores
<1>11. CASE Crash
  BY <1>11 DEF Crash, stores
<1>12. CASE UNCHANGED vars
  BY <1>12 DEF vars
<1>13. QED
  BY <1>1, <1>2, <1>3, <1>4, <1>5, <1>6, <1>7, <1>8, <1>9, <1>10, <1>11, <1>12 DEF Next, Exhausted

\* An uploader draws a name: its file is new, and nobody else has it.
LEMMA OpenKeeps ==
    ASSUME DocInv, TypeOK', NEW w \in Workers, Open(w)
    PROVE  DocInv'
<1>1. PICK n \in Names : n = issued + 1
  BY DEF Open, DocInv, TypeOK, StoresOK, Names
<1>2. /\ pc[w] = "store" /\ name' = [name EXCEPT ![w] = n] /\ files' = [files EXCEPT ![n] = 0]
      /\ size' = [size EXCEPT ![w] = 0] /\ pc' = [pc EXCEPT ![w] = "write"]
      /\ issued' = n /\ issued < n /\ UNCHANGED <<owner, rows, req, code>> /\ req[w].chunks <= MaxSize
      /\ DOMAIN name = Workers /\ DOMAIN files = Names /\ DOMAIN size = Workers /\ DOMAIN pc = Workers
  BY <1>1 DEF Open, Goto, DocInv, TypeOK, StoresOK, HandlersOK
<1>3. \A v \in Workers : name[v] # n /\ (name[v] # None => name[v] \in Names)
  BY <1>1, <1>2, NoneIsNothing DEF DocInv, NameInv, TypeOK, StoresOK, HandlersOK, Names
<1>4. files[n] = None /\ rows[n] = None /\ n # None
  BY <1>1, <1>2, NoneIsNothing DEF DocInv, NameInv, Names
<1>5. RequestInv'
  <2>1. req[w].chunks \in Nat
    BY <1>2, RequestShape DEF DocInv, RequestInv
  <2>2. QED
    BY <1>2, <1>4, <2>1 DEF DocInv, RequestInv, Uploading
<1>6. NameInv'
  BY <1>1, <1>2, <1>3, <1>4 DEF DocInv, NameInv, Names, TypeOK, StoresOK
<1>7. FileInv'
  BY <1>2, <1>3, <1>4 DEF DocInv, FileInv, RequestInv
<1>8. RowsHaveFiles'
  BY <1>2, <1>4 DEF DocInv, RowsHaveFiles
<1>9. AnswersTrue'
  BY <1>2, <1>3 DEF DocInv, AnswersTrue
<1>10. QED
  BY <1>5, <1>6, <1>7, <1>8, <1>9 DEF DocInv

\* A chunk is written to the file of its own handler.
LEMMA ChunkKeeps ==
    ASSUME DocInv, TypeOK', NEW w \in Workers, WriteChunk(w)
    PROVE  DocInv'
<1>1. PICK n \in Names : n = name[w]
  BY DEF WriteChunk, DocInv, TypeOK, HandlersOK, RequestInv
<1>2. /\ pc[w] = "write" /\ UNCHANGED <<owner, rows, issued, name, req>>
      /\ DOMAIN pc = Workers /\ DOMAIN size = Workers /\ DOMAIN files = Names /\ DOMAIN code = Workers
      /\ req[w] \in Requests /\ owner[req[w].loan] = req[w].user /\ rows[n] = None
      /\ \A v \in Workers : v # w => name[v] # n
  BY <1>1, NoneIsNothing DEF WriteChunk, Leave, Goto, DocInv, TypeOK, StoresOK, HandlersOK, RequestInv,
     Uploading, NameInv, FileInv, Names
<1>3. CASE /\ Leave(w, "unlink", 413) \/ Leave(w, "unlink", 415)
           /\ UNCHANGED <<files, size>>
  <2>1. /\ pc'[w] = "unlink" /\ code'[w] # 201 /\ Walks(w)
    BY <1>2, <1>3 DEF Leave, Walks
  <2>2. name[w] # None
    BY <1>2 DEF DocInv, RequestInv
  <2>3. QED
    BY <1>1, <1>2, <2>1, <2>2, WalkKeeps
<1>4. CASE /\ size[w] < req[w].chunks
           /\ files' = [files EXCEPT ![n] = size[w] + 1]
           /\ size' = [size EXCEPT ![w] = size[w] + 1]
           /\ Goto(w, "write")
  <2>1. /\ pc' = [pc EXCEPT ![w] = "write"] /\ code' = code /\ pc' = pc
        /\ size[w] \in Nat /\ req[w].chunks \in Nat
    BY <1>2, <1>4, RequestShape DEF Goto, DocInv, TypeOK, HandlersOK
  <2>2. RequestInv'
    <3>1. size'[w] = size[w] + 1 /\ size'[w] <= req[w].chunks /\ \A v \in Workers : v # w => size'[v] = size[v]
      BY <1>2, <1>4, <2>1
    <3>2. QED
      BY <1>2, <2>1, <3>1 DEF DocInv, RequestInv
  <2>3. NameInv'
    <3>1. \A m \in Names : m > issued => m # n
      BY <1>1, <1>2 DEF DocInv, NameInv, RequestInv, Names, TypeOK, StoresOK
    <3>2. QED
      BY <1>2, <1>4, <3>1 DEF DocInv, NameInv
  <2>4. FileInv'
    BY <1>1, <1>2, <1>4, <2>1 DEF DocInv, FileInv
  <2>5. RowsHaveFiles'
    BY <1>2, <1>4 DEF DocInv, RowsHaveFiles
  <2>6. AnswersTrue'
    BY <1>2, <2>1 DEF DocInv, AnswersTrue
  <2>7. QED
    BY <2>2, <2>3, <2>4, <2>5, <2>6 DEF DocInv
<1>5. QED
  BY <1>1, <1>3, <1>4 DEF WriteChunk

\* A file is removed by the handler that wrote it, before there is a row.
LEMMA UnlinkKeeps ==
    ASSUME DocInv, TypeOK', NEW w \in Workers, Unlink(w)
    PROVE  DocInv'
<1>1. PICK n \in Names : n = name[w]
  BY DEF Unlink, DocInv, TypeOK, HandlersOK, RequestInv
<1>2. /\ pc[w] = "unlink" /\ UNCHANGED <<owner, rows, issued, name, size, req, code>>
      /\ pc' = [pc EXCEPT ![w] = "answer"] /\ files' = [files EXCEPT ![n] = None]
      /\ DOMAIN pc = Workers /\ DOMAIN files = Names
      /\ rows[n] = None /\ code[w] # 201
      /\ \A v \in Workers : v # w => name[v] # n
  BY <1>1, NoneIsNothing DEF Unlink, Goto, DocInv, TypeOK, StoresOK, HandlersOK, RequestInv,
     Uploading, NameInv, FileInv, Names
<1>3. RequestInv'
  BY <1>2 DEF DocInv, RequestInv, Uploading
<1>4. NameInv'
  BY <1>2 DEF DocInv, NameInv
<1>5. FileInv'
  BY <1>1, <1>2 DEF DocInv, FileInv, RequestInv, TypeOK, HandlersOK
<1>6. RowsHaveFiles'
  BY <1>2 DEF DocInv, RowsHaveFiles
<1>7. AnswersTrue'
  BY <1>1, <1>2 DEF DocInv, AnswersTrue
<1>8. QED
  BY <1>3, <1>4, <1>5, <1>6, <1>7 DEF DocInv

\* The row is created when its file is complete.
LEMMA RowKeeps ==
    ASSUME DocInv, TypeOK', NEW w \in Workers, CreateRow(w)
    PROVE  DocInv'
<1>1. PICK n \in Names : n = name[w]
  BY DEF CreateRow, DocInv, TypeOK, HandlersOK, RequestInv
<1> DEFINE row == [loan |-> req[w].loan, uploader |-> req[w].user, size |-> size[w]]
<1>2. /\ pc[w] = "row" /\ UNCHANGED <<owner, files, issued, name, size, req>>
      /\ pc' = [pc EXCEPT ![w] = "answer"] /\ code' = [code EXCEPT ![w] = 201]
      /\ rows' = [rows EXCEPT ![n] = row]
      /\ DOMAIN pc = Workers /\ DOMAIN code = Workers /\ DOMAIN rows = Names
      /\ n <= issued /\ n \in Nat /\ issued \in Nat
      /\ \A v \in Workers : v # w => name[v] # n
  BY <1>1, NoneIsNothing DEF CreateRow, Leave, DocInv, TypeOK, StoresOK, HandlersOK, NameInv, Names
<1>3. /\ files[n] = size[w] /\ size[w] > 0 /\ owner[req[w].loan] = req[w].user
      /\ row.size = size[w] /\ row.loan = req[w].loan /\ row.uploader = req[w].user
  BY <1>1, <1>2 DEF DocInv, FileInv, RequestInv, Uploading
<1>4. row # None
  <2>1. row \in Row
    BY <1>2, RequestShape DEF DocInv, RequestInv, TypeOK, HandlersOK, Row
  <2>2. QED
    BY <2>1, NoneIsNothing
<1> HIDE DEF row
<1>5. RequestInv'
  BY <1>2 DEF DocInv, RequestInv, Uploading
<1>6. NameInv'
  BY <1>2 DEF DocInv, NameInv, Names
<1>7. FileInv'
  BY <1>1, <1>2 DEF DocInv, FileInv, RequestInv, TypeOK, HandlersOK
<1>8. RowsHaveFiles'
  BY <1>2, <1>3 DEF DocInv, RowsHaveFiles
<1>9. AnswersTrue'
  BY <1>1, <1>2, <1>4 DEF DocInv, AnswersTrue
<1>10. QED
  BY <1>5, <1>6, <1>7, <1>8, <1>9 DEF DocInv

\* A worker forgets its upload: the answer has arrived.
LEMMA AnswerKeeps ==
    ASSUME DocInv, TypeOK', NEW w \in Workers, Answer(w)
    PROVE  DocInv'
<1>1. /\ UNCHANGED <<owner, files, rows, issued>> /\ pc' = [pc EXCEPT ![w] = "idle"]
      /\ req' = [req EXCEPT ![w] = None] /\ code' = [code EXCEPT ![w] = 0]
      /\ name' = [name EXCEPT ![w] = None] /\ size' = [size EXCEPT ![w] = 0]
      /\ DOMAIN pc = Workers /\ DOMAIN req = Workers /\ DOMAIN code = Workers
      /\ DOMAIN name = Workers /\ DOMAIN size = Workers
  BY DEF Answer, stores, DocInv, TypeOK, HandlersOK
<1>2. RequestInv'
  BY <1>1 DEF DocInv, RequestInv, Uploading
<1>3. NameInv'
  BY <1>1 DEF DocInv, NameInv
<1>4. FileInv'
  BY <1>1 DEF DocInv, FileInv
<1>5. RowsHaveFiles' /\ AnswersTrue'
  BY <1>1 DEF DocInv, RowsHaveFiles, AnswersTrue
<1>6. QED
  BY <1>2, <1>3, <1>4, <1>5 DEF DocInv
LEMMA DocStep == DocInv /\ [Next]_vars => DocInv'
<1> SUFFICES ASSUME DocInv, [Next]_vars PROVE DocInv'
  OBVIOUS
<1>0. TypeOK'
  BY TypeStep DEF DocInv
<1>1. /\ DOMAIN pc = Workers /\ DOMAIN req = Workers /\ DOMAIN code = Workers
  BY DEF DocInv, TypeOK, HandlersOK
<1>2. ASSUME NEW w \in Workers, Begin(w) PROVE DocInv'
  <2>1. /\ pc[w] = "idle" /\ pc'[w] = "loan" /\ req'[w] \in Requests /\ name[w] = None /\ Walks(w)
        /\ code'[w] # 201
    BY <1>1, <1>2 DEF Begin, stores, Walks, DocInv, RequestInv
  <2>2. QED
    BY <1>0, <2>1, WalkKeeps DEF Uploading
<1>3. ASSUME NEW w \in Workers, FindLoan(w) PROVE DocInv'
  <2>1. /\ pc[w] = "loan" /\ pc'[w] \in {"store", "answer"} /\ req'[w] \in Requests /\ name[w] = None
        /\ Walks(w)
        /\ pc'[w] = "store" => owner[req'[w].loan] = req'[w].user
        /\ code'[w] # 201
    BY <1>1, <1>3 DEF FindLoan, Goto, Leave, stores, Walks, DocInv, RequestInv
  <2>2. QED
    BY <1>0, <2>1, WalkKeeps DEF Uploading
<1>4. ASSUME NEW w \in Workers, Refuse(w) \/ OpenFails(w) PROVE DocInv'
  <2>1. /\ pc[w] = "store" /\ pc'[w] = "answer" /\ req'[w] \in Requests /\ name[w] = None /\ Walks(w)
    BY <1>1, <1>4 DEF Refuse, OpenFails, Fault, Leave, stores, Walks, DocInv, RequestInv
  <2>2. QED
    BY <1>0, <2>1, WalkKeeps DEF Uploading
<1>5. ASSUME NEW w \in Workers, EndOfFile(w) \/ WriteFails(w) PROVE DocInv'
  <2>1. /\ pc[w] = "write" /\ pc'[w] \in {"unlink", "row"} /\ req'[w] = req[w] /\ Walks(w)
        /\ code'[w] # 201 /\ size[w] \in Nat
        /\ pc'[w] = "row" => size[w] # 0
    BY <1>1, <1>5 DEF EndOfFile, WriteFails, Leave, Goto, Fault, stores, Walks, DocInv, RequestInv,
                      TypeOK, HandlersOK
  <2>2. /\ req[w] \in Requests /\ name[w] # None /\ rows[name[w]] = None
        /\ files[name[w]] = size[w] /\ owner[req[w].loan] = req[w].user
    BY <2>1 DEF DocInv, RequestInv, FileInv, Uploading
  <2>3. pc'[w] = "row" => size[w] > 0
    BY <2>1
  <2>4. QED
    BY <1>0, <2>1, <2>2, <2>3, WalkKeeps DEF Uploading
<1>6. ASSUME NEW w \in Workers, UnlinkFails(w) \/ StatementFails(w) PROVE DocInv'
  <2>1. /\ pc[w] \in {"unlink", "loan", "row"} /\ pc'[w] = "answer" /\ req'[w] = req[w] /\ Walks(w)
        /\ code'[w] # 201
    BY <1>1, <1>6 DEF UnlinkFails, StatementFails, Leave, Goto, Fault, stores, Walks, DocInv, RequestInv
  <2>2. /\ req[w] \in Requests
        /\ name[w] # None => rows[name[w]] = None
    BY <2>1 DEF DocInv, RequestInv, FileInv
  <2>3. QED
    BY <1>0, <2>1, <2>2, WalkKeeps DEF Uploading
<1>7. CASE Crash
  <2>1. /\ UNCHANGED <<owner, files, rows, issued>>
        /\ pc' = [w \in Workers |-> "idle"] /\ code' = [w \in Workers |-> 0]
        /\ name' = [w \in Workers |-> None]
    BY <1>7 DEF Crash, stores
  <2>2. RequestInv' /\ NameInv' /\ FileInv' /\ RowsHaveFiles' /\ AnswersTrue'
    BY <2>1 DEF DocInv, RequestInv, NameInv, FileInv, RowsHaveFiles, AnswersTrue, Uploading
  <2>3. QED
    BY <1>0, <2>2 DEF DocInv
<1>8. CASE UNCHANGED vars
  <2>1. RequestInv' /\ NameInv' /\ FileInv' /\ RowsHaveFiles' /\ AnswersTrue'
    BY <1>8 DEF vars, DocInv, RequestInv, NameInv, FileInv, RowsHaveFiles, AnswersTrue, Uploading
  <2>2. QED
    BY <1>0, <2>1 DEF DocInv
<1>9. QED
  BY <1>0, <1>2, <1>3, <1>4, <1>5, <1>6, <1>7, <1>8,
     OpenKeeps, ChunkKeeps, UnlinkKeeps, RowKeeps, AnswerKeeps DEF Next, Exhausted

LEMMA DocInvariant == Spec => []DocInv
BY DocInit, DocStep, PTL DEF Spec

\* Every reachable state of the upload endpoint is well typed, and no file is
\* larger than MAX_LOAN_DOCUMENT_BYTES.
THEOREM TypeCorrect == Spec => []TypeOK
BY DocInvariant, PTL DEF DocInv

\* The row is the commit point of an upload: whatever fails, and whenever the
\* server dies, a row has its complete file (store_loan_document).
THEOREM RowsAreComplete == Spec => []RowsHaveFiles
BY DocInvariant, PTL DEF DocInv

\* An upload is answered 201 exactly if its row is there.
THEOREM UploadAnswersTrue == Spec => []AnswersTrue
BY DocInvariant, PTL DEF DocInv

-----------------------------------------------------------------------------
\* The files that failures have left behind are counted.
LEMMA OrphanFacts ==
    ASSUME TypeOK
    PROVE  /\ IsFiniteSet(Orphans) /\ Cardinality(Orphans) \in Nat
           /\ Cardinality(Workers) \in Nat /\ crashes \in Nat /\ faults \in Nat
           /\ crashes * Cardinality(Workers) \in Nat
           /\ (crashes + 1) * Cardinality(Workers) = crashes * Cardinality(Workers) + Cardinality(Workers)
<1>1. Orphans \in SUBSET Names /\ IsFiniteSet(Names)
  BY BoundsAreNat, FS_Interval DEF Orphans, Names
<1>2. IsFiniteSet(Orphans) /\ Cardinality(Orphans) \in Nat
  BY <1>1, FS_Subset, FS_CardinalityType
<1>3. Cardinality(Workers) \in Nat
  BY WorkersAreFinite, FS_CardinalityType
<1>4. crashes \in Nat /\ faults \in Nat
  BY BoundsAreNat DEF TypeOK, HandlersOK
<1>5. QED
  BY <1>2, <1>3, <1>4

\* Files that were no orphans become orphans one by one, except in a crash.
LEMMA NoNewOrphans ==
    ASSUME TypeOK, OrphansExplained, Orphans' \subseteq Orphans,
           crashes' = crashes, faults' \in {faults, faults + 1}
    PROVE  OrphansExplained'
<1>1. IsFiniteSet(Orphans) /\ Orphans' \in SUBSET Orphans
  BY OrphanFacts
<1>2. Cardinality(Orphans') <= Cardinality(Orphans) /\ Cardinality(Orphans') \in Nat
  BY <1>1, FS_Subset, FS_CardinalityType
<1>3. QED
  BY <1>2, OrphanFacts DEF OrphansExplained

LEMMA OneNewOrphan ==
    ASSUME TypeOK, OrphansExplained, NEW n, Orphans' \subseteq Orphans \cup {n},
           crashes' = crashes, faults' = faults + 1
    PROVE  OrphansExplained'
<1>1. /\ IsFiniteSet(Orphans \cup {n})
      /\ Cardinality(Orphans \cup {n}) = IF n \in Orphans THEN Cardinality(Orphans) ELSE Cardinality(Orphans) + 1
  BY OrphanFacts, FS_AddElement, Zenon
<1>2. Cardinality(Orphans') <= Cardinality(Orphans \cup {n}) /\ Cardinality(Orphans') \in Nat
  BY <1>1, FS_Subset, FS_CardinalityType
<1>3. QED
  BY <1>1, <1>2, OrphanFacts DEF OrphansExplained

LEMMA CrashOrphans ==
    ASSUME DocInv, OrphansExplained, Crash
    PROVE  OrphansExplained'
<1> DEFINE named == {name[w] : w \in Workers}
<1>1. IsFiniteSet(named) /\ Cardinality(named) <= Cardinality(Workers) /\ Cardinality(named) \in Nat
  <2>1. name \in Surjection(Workers, named)
    BY DEF Surjection, DocInv, TypeOK, HandlersOK
  <2> HIDE DEF named
  <2>2. QED
    BY <2>1, WorkersAreFinite, FS_Surjection, FS_CardinalityType
<1>2. Orphans' \in SUBSET (Orphans \cup named)
  BY DEF Crash, stores, Orphans
<1> HIDE DEF named
<1>3. /\ IsFiniteSet(Orphans \cup named)
      /\ Cardinality(Orphans \cup named)
           = Cardinality(Orphans) + Cardinality(named) - Cardinality(Orphans \cap named)
      /\ Cardinality(Orphans \cap named) \in Nat
  BY <1>1, OrphanFacts, FS_Union, FS_Intersection, FS_CardinalityType DEF DocInv
<1>4. Cardinality(Orphans') <= Cardinality(Orphans \cup named) /\ Cardinality(Orphans') \in Nat
  BY <1>2, <1>3, FS_Subset, FS_CardinalityType
<1>5. Cardinality(Orphans') <= Cardinality(Orphans) + Cardinality(Workers)
  BY <1>1, <1>3, <1>4, OrphanFacts DEF DocInv
<1>6. crashes' = crashes + 1 /\ faults' = faults
  BY DEF Crash
<1>7. QED
  BY <1>4, <1>5, <1>6, OrphanFacts DEF OrphansExplained, DocInv

LEMMA OrphanStep == DocInv /\ OrphansExplained /\ [Next]_vars => OrphansExplained'
<1> SUFFICES ASSUME DocInv, OrphansExplained, [Next]_vars PROVE OrphansExplained'
  OBVIOUS
<1>0. /\ TypeOK /\ DOMAIN pc = Workers /\ DOMAIN name = Workers /\ DOMAIN files = Names /\ DOMAIN rows = Names
      /\ crashes \in Nat /\ faults \in Nat
  BY OrphanFacts DEF DocInv, TypeOK, StoresOK, HandlersOK
<1>1. ASSUME NEW w \in Workers,
             \/ Begin(w) \/ FindLoan(w) \/ Refuse(w) \/ OpenFails(w) \/ EndOfFile(w) \/ WriteFails(w)
      PROVE  OrphansExplained'
  <2>1. /\ UNCHANGED <<files, rows, name, crashes>> /\ faults' \in {faults, faults + 1}
        /\ \A v \in Workers : v # w => pc'[v] = pc[v]
        /\ pc'[w] = "answer" => name[w] = None
    BY <1>0, <1>1 DEF Begin, FindLoan, Refuse, OpenFails, EndOfFile, WriteFails, Fault, Leave, Goto, stores, counters,
                      DocInv, RequestInv
  <2>2. \A n \in Names : n # None
    BY NoneIsNothing DEF Names
  <2>3. Orphans' \subseteq Orphans
    BY <2>1, <2>2 DEF Orphans
  <2>4. QED
    BY <1>0, <2>1, <2>3, NoNewOrphans
<1>2. ASSUME NEW w \in Workers, Open(w) PROVE OrphansExplained'
  <2>1. PICK n \in Names : n = issued + 1
    <3>1. issued \in Nat /\ issued < MaxFiles /\ MaxFiles \in Nat
      BY <1>0, <1>2, BoundsAreNat DEF Open, TypeOK, StoresOK
    <3>2. issued + 1 \in Names
      BY <3>1 DEF Names
    <3>3. QED
      BY <3>2
  <2>2. /\ pc'[w] = "write" /\ name'[w] = n /\ UNCHANGED <<rows, crashes, faults>>
        /\ \A m \in Names : m # n => files'[m] = files[m]
        /\ \A v \in Workers : v # w => pc'[v] = pc[v] /\ name'[v] = name[v]
        /\ name[w] = None
    BY <1>0, <1>2, <2>1 DEF Open, Goto, counters, DocInv, RequestInv
  <2>3. \A m \in Names : m # None
    BY NoneIsNothing DEF Names
  <2>4. Orphans' \subseteq Orphans
    BY <2>2, <2>3 DEF Orphans
  <2>5. QED
    BY <1>0, <2>2, <2>4, NoNewOrphans
<1>3. ASSUME NEW w \in Workers, WriteChunk(w) PROVE OrphansExplained'
  <2>1. /\ pc[w] = "write" /\ pc'[w] # "answer" /\ UNCHANGED <<rows, name, crashes, faults>>
        /\ \A m \in Names : m # name[w] => files'[m] = files[m]
        /\ \A v \in Workers : v # w => pc'[v] = pc[v]
    BY <1>0, <1>3 DEF WriteChunk, Goto, Leave, counters
  <2>2. Orphans' \subseteq Orphans
    BY <2>1 DEF Orphans
  <2>3. QED
    BY <1>0, <2>1, <2>2, NoNewOrphans
<1>4. ASSUME NEW w \in Workers, Unlink(w) \/ CreateRow(w) PROVE OrphansExplained'
  <2>1. /\ name[w] \in Names /\ pc'[w] = "answer" /\ UNCHANGED <<name, crashes, faults>>
        /\ \A v \in Workers : v # w => pc'[v] = pc[v]
        /\ \A m \in Names : m # name[w] => files'[m] = files[m] /\ rows'[m] = rows[m]
    BY <1>0, <1>4 DEF Unlink, CreateRow, Goto, Leave, counters, DocInv, RequestInv, TypeOK, HandlersOK
  <2>2. files'[name[w]] = None \/ rows'[name[w]] # None
    <3>1. CASE Unlink(w)
      BY <1>0, <2>1, <3>1 DEF Unlink
    <3>2. CASE CreateRow(w)
      <4>1. [loan |-> req[w].loan, uploader |-> req[w].user, size |-> size[w]] \in Row
        BY <3>2, RequestShape DEF CreateRow, DocInv, RequestInv, TypeOK, HandlersOK, Row
      <4>2. QED
        BY <1>0, <2>1, <3>2, <4>1, NoneIsNothing DEF CreateRow
    <3>3. QED
      BY <1>4, <3>1, <3>2
  <2>3. Orphans' \subseteq Orphans
    BY <2>1, <2>2 DEF Orphans
  <2>4. QED
    BY <1>0, <2>1, <2>3, NoNewOrphans
<1>5. ASSUME NEW w \in Workers, Answer(w) PROVE OrphansExplained'
  <2>1. /\ pc[w] = "answer" /\ UNCHANGED <<files, rows, crashes, faults>>
        /\ \A v \in Workers : v # w => pc'[v] = pc[v] /\ name'[v] = name[v]
    BY <1>0, <1>5 DEF Answer, stores, counters
  <2>2. Orphans' \subseteq Orphans
    BY <2>1 DEF Orphans
  <2>3. QED
    BY <1>0, <2>1, <2>2, NoNewOrphans
<1>6. ASSUME NEW w \in Workers, UnlinkFails(w) \/ StatementFails(w) PROVE OrphansExplained'
  <2>1. /\ UNCHANGED <<files, rows, name, crashes>> /\ faults' = faults + 1
        /\ \A v \in Workers : v # w => pc'[v] = pc[v]
    BY <1>0, <1>6 DEF UnlinkFails, StatementFails, Fault, Goto, Leave, stores
  <2>2. Orphans' \subseteq Orphans \cup {name[w]}
    BY <2>1 DEF Orphans
  <2>3. QED
    BY <1>0, <2>1, <2>2, OneNewOrphan
<1>7. CASE UNCHANGED vars
  BY <1>7 DEF vars, OrphansExplained, Orphans
<1>8. QED
  BY <1>1, <1>2, <1>3, <1>4, <1>5, <1>6, <1>7, CrashOrphans DEF Next, Exhausted

\* Disk space is only lost to failures: one file for each failed call at most,
\* and one for each thread that a crash has caught.
THEOREM OrphansAreFailures == Spec => []OrphansExplained
<1>1. Init => OrphansExplained
  <2> SUFFICES ASSUME Init PROVE OrphansExplained
    OBVIOUS
  <2>1. Orphans = {} /\ TypeOK /\ crashes = 0 /\ faults = 0
    BY DocInit DEF Init, Orphans, DocInv
  <2>2. QED
    BY <2>1, OrphanFacts, FS_EmptySet DEF OrphansExplained
<1>2. DocInv /\ OrphansExplained /\ [Next]_vars => OrphansExplained'
  BY OrphanStep
<1>3. QED
  BY <1>1, <1>2, DocInvariant, PTL DEF Spec
=============================================================================
