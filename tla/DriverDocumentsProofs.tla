------------------------ MODULE DriverDocumentsProofs ------------------------
(***************************************************************************)
(* Theorems about DriverDocuments, for every set of requests, operations   *)
(* and identity numbers and every bound on the rows.                       *)
(***************************************************************************)
EXTENDS DriverDocuments, WellFoundedInduction, TLAPS

-----------------------------------------------------------------------------
(* Invariants.                                                               *)

\* The two columns of the standing agree, unless the status was set by hand:
\* nothing else makes a driver inactive or suspended.
Agrees(d) == d.status = IF d.verified THEN "active" ELSE "pending"
Fits(d)   == byHand \/ Agrees(d)

\* A profile change that will delete row i: it will see that the number is
\* not the one it had read, or is about to list the rows of the document, or
\* has listed i, or has the document still ahead.
Covers(t, i) ==
  /\ paper[t].op = "patch"
  /\ \/ /\ docAt[t] = "refresh" /\ paper[t].asked[rows[i].doc] # NoNumber
        /\ paper[t].was[rows[i].doc] # number[rows[i].doc]
     \/ docAt[t] = "list" /\ paper[t].doc = rows[i].doc
     \/ docAt[t] = "remove" /\ paper[t].doc = rows[i].doc /\ i \in paper[t].doomed
     \/ docAt[t] \in {"list", "remove", "demote", "demoteWrite"} /\ rows[i].doc \in paper[t].todo

\* Row i was checked, or is about to be, with n.
Settled(i, n) ==
  rows[i].doc \in IdDocs /\ n # number[rows[i].doc]
    => i \in forgotten \/ \E t \in DocSessions : Covers(t, i)

RowOK(i) ==
  /\ rows[i].doc # "none" => i <= made /\ rows[i].file \in FileIds
  /\ rows[i].checked # NoNumber => Settled(i, rows[i].checked)

\* What a request carries fits its next statement.
SessionOK(s) ==
  /\ docAt[s] = "analyse" /\ paper[s].op # "trigger" => paper[s].file \in FileIds
  /\ docAt[s] = "insert" => paper[s].file \in FileIds
  /\ docAt[s] \in {"number", "persist"}
     => paper[s].row \in 1 .. made /\ rows[paper[s].row].doc \in {paper[s].doc, "none"}
  /\ docAt[s] = "number" => paper[s].doc \in IdDocs
  /\ docAt[s] = "persist" => paper[s].number \in Numbers /\ Settled(paper[s].row, paper[s].number)
  /\ docAt[s] = "write" => paper[s].op = "patch"
  /\ Fits(paper[s].seen)

DocsInv ==
  /\ DocsTypeOK
  /\ Fits(driver)
  /\ \A i \in 1 .. MaxRows : RowOK(i)
  /\ \A s \in DocSessions : SessionOK(s)

-----------------------------------------------------------------------------
(* Helpers.                                                                  *)

\* The newest of some rows is one of them.
LEMMA LatestOne ==
  ASSUME NEW ids \in SUBSET (1 .. MaxRows), ids # {}
  PROVE  Latest(ids) \in ids
<1> DEFINE left == {MaxRows - i : i \in ids}
           less == OpToRel(<, Nat)
<1>1. left \in SUBSET Nat /\ left # {}
  <2>1. \A i \in ids : MaxRows - i \in Nat
    BY RowsAssumption
  <2> QED
    BY <2>1
<1>2. PICK n \in left : \A m \in left : ~(<<m, n>> \in less)
  <2>1. IsWellFoundedOn(less, Nat)
    BY NatLessThanWellFounded
  <2> HIDE DEF less, left
  <2> QED
    BY <1>1, <2>1, WFMin
<1>3. ASSUME NEW m \in left PROVE n <= m
  <2>1. m \in Nat /\ n \in Nat /\ ~(<<m, n>> \in less)
    BY <1>1, <1>2
  <2> HIDE DEF left
  <2>2. m < n => <<m, n>> \in less
    BY <2>1 DEF OpToRel
  <2> HIDE DEF less
  <2> QED
    BY <2>1, <2>2
<1>4. PICK i \in ids : n = MaxRows - i
  OBVIOUS
<1>5. ASSUME NEW k \in ids PROVE k <= i
  <2>1. MaxRows - k \in left
    OBVIOUS
  <2>2. MaxRows - i <= MaxRows - k /\ k \in 1 .. MaxRows /\ i \in 1 .. MaxRows
    BY <1>3, <1>4, <2>1
  <2> QED
    BY <2>2, RowsAssumption
<1> QED
  BY <1>4, <1>5 DEF Latest

LEMMA Documents ==
  /\ DocOrder \in Seq(IdDocs) /\ IdDocs \subseteq Docs
  /\ "none" \notin Docs /\ "selfie" \notin IdDocs /\ Len(DocOrder) \in Nat
  /\ \A k \in 1 .. Len(DocOrder) : DocOrder[k] \in IdDocs
<1>1. CASE DocOrder = <<"cnic", "license">>
  <2>1. IdDocs = {"cnic", "license"} /\ Len(DocOrder) = 2
    BY <1>1 DEF IdDocs
  <2> QED
    BY <1>1, <2>1 DEF Docs
<1>2. CASE DocOrder = <<"cnic">>
  <2>1. IdDocs = {"cnic"} /\ Len(DocOrder) = 1
    BY <1>2 DEF IdDocs
  <2> QED
    BY <1>2, <2>1 DEF Docs
<1> QED
  BY <1>1, <1>2, DocOrderAssumption

\* The first of some documents is one of them.
LEMMA FirstIn ==
  ASSUME NEW ds \in SUBSET IdDocs, ds # {}
  PROVE  FirstOf(ds) \in ds
<1> DEFINE ks == {k \in 1 .. Len(DocOrder) : DocOrder[k] \in ds}
<1>1. Len(DocOrder) \in {1, 2} /\ \E k \in 1 .. Len(DocOrder) : DocOrder[k] \in ds
  <2>1. DocOrder = <<"cnic", "license">> => Len(DocOrder) = 2
    OBVIOUS
  <2>2. DocOrder = <<"cnic">> => Len(DocOrder) = 1
    OBVIOUS
  <2> QED
    BY <2>1, <2>2, DocOrderAssumption DEF IdDocs
<1>2. \E k \in ks : \A m \in ks : k <= m
  BY <1>1
<1>3. Min(ks) \in ks
  <2> HIDE DEF ks
  <2> QED
    BY <1>2 DEF Min
<1> QED
  BY <1>3 DEF FirstOf

LEMMA FileTypes ==
  /\ NoFile \notin DocSessions /\ DocSessions \subseteq FileIds /\ Docs \subseteq FileIds
  /\ "bundled" \in FileIds
BY FilesAssumption DEF FileIds

LEMMA BlankTypes == NoPaper \in Papers /\ NoVerification \in VerificationRows /\ Agrees(NoPaper.seen)
<1>1. Blank \in Profiles
  BY DEF Blank, Profiles
<1> QED
  BY <1>1, RowsAssumption
     DEF NoPaper, NoVerification, Papers, VerificationRows, AllDocOps, DocStatus, Standings, Statuses, Agrees

LEMMA SelfieType == DocsTypeOK => LatestSelfie \in FileIds \cup {NoFile}
BY DEF DocsTypeOK, LatestSelfie, Resolved

LEMMA InitInv == DocInit => DocsInv
<1> SUFFICES ASSUME DocInit PROVE DocsInv
  OBVIOUS
<1>1. \A i \in 1 .. made : /\ FirstRow(i) \in VerificationRows /\ FirstRow(i).file \in FileIds
                           /\ FirstRow(i).doc \in IdDocs => FirstRow(i).checked = number[FirstRow(i).doc]
  <2> SUFFICES ASSUME NEW i \in 1 .. made
               PROVE  /\ FirstRow(i) \in VerificationRows /\ FirstRow(i).file \in FileIds
                      /\ FirstRow(i).doc \in IdDocs => FirstRow(i).checked = number[FirstRow(i).doc]
    OBVIOUS
  <2> DEFINE d == IF i = 1 THEN "selfie" ELSE DocOrder[i - 1]
  <2>1. d \in Docs /\ (i # 1 => d \in IdDocs)
    BY Documents DEF DocInit, Docs
  <2> HIDE DEF d
  <2>2. FirstRow(i) = [doc |-> d, status |-> "verified", file |-> d, face |-> "selfie",
                       checked |-> IF d \in IdDocs THEN number[d] ELSE NoNumber]
    BY DEF FirstRow, d
  <2>3. d \in FileIds /\ "selfie" \in FileIds /\ (d \in IdDocs => number[d] \in Numbers)
    BY <2>1, FileTypes DEF DocInit, Docs
  <2> QED
    BY <2>1, <2>2, <2>3 DEF VerificationRows, DocStatus
<1>2. DocsTypeOK
  <2>1. rows \in [1 .. MaxRows -> VerificationRows]
    BY <1>1, BlankTypes DEF DocInit
  <2>2. made \in 0 .. MaxRows /\ files \subseteq FileIds /\ driver \in Standings
    BY RowsAssumption, Documents, FileTypes DEF DocInit, Standings, Statuses
  <2>3. docAt \in [DocSessions -> DocSteps] /\ paper \in [DocSessions -> Papers] /\ number \in [IdDocs -> Numbers]
    BY BlankTypes DEF DocInit, DocSteps
  <2> QED
    BY <2>1, <2>2, <2>3 DEF DocsTypeOK, DocInit
<1>3. ASSUME NEW i \in 1 .. MaxRows PROVE RowOK(i)
  <2>1. CASE i <= made
    <3>1. rows[i] = FirstRow(i) /\ i \in 1 .. made
      BY <2>1, <1>2 DEF DocInit, DocsTypeOK
    <3> QED
      BY <1>1, <2>1, <3>1 DEF RowOK, Settled
  <2>2. CASE ~(i <= made)
    BY <2>2 DEF DocInit, RowOK, NoVerification
  <2> QED
    BY <2>1, <2>2
<1>4. ASSUME NEW s \in DocSessions PROVE SessionOK(s)
  BY BlankTypes DEF DocInit, SessionOK, Fits
<1> QED
  BY <1>2, <1>3, <1>4 DEF DocsInv, DocInit, Agrees, Fits

-----------------------------------------------------------------------------
(* One request moves and no number changes.                                  *)

\* A step keeps row i, but for a check that is settled.
KeepsRow(i) ==
  /\ rows'[i].doc = rows[i].doc /\ rows'[i].file = rows[i].file
  /\ rows'[i].checked \in {rows[i].checked, NoNumber} \/ Settled(i, rows'[i].checked)

Still(t) == docAt'[t] = docAt[t] /\ paper'[t] = paper[t]

\* The history forgets nothing.
Remembers ==
  /\ byHand' \in BOOLEAN /\ (byHand => byHand')
  /\ forgotten' \subseteq 1 .. MaxRows /\ forgotten \subseteq forgotten'

\* Request s goes on covering row i, or leaves it to the history.
StaysCovered(s, i) == rows[i].doc \in IdDocs /\ Covers(s, i) => i \in forgotten' \/ Covers(s, i)'

\* What settles row i does so after the step.
LEMMA StaysSettled ==
  ASSUME NEW s \in DocSessions, \A t \in DocSessions \ {s} : Still(t), number' = number,
         Remembers, NEW i \in 1 .. MaxRows, rows'[i].doc = rows[i].doc, StaysCovered(s, i),
         NEW n, Settled(i, n)
  PROVE  Settled(i, n)'
<1>1. ASSUME NEW t \in DocSessions, Covers(t, i), rows[i].doc \in IdDocs
      PROVE  i \in forgotten' \/ Covers(t, i)'
  <2>1. CASE t = s
    BY <1>1, <2>1 DEF StaysCovered
  <2>2. CASE t # s
    BY <1>1, <2>2 DEF Covers, Still
  <2> QED
    BY <2>1, <2>2
<1> QED
  BY <1>1 DEF Settled, Remembers

LEMMA OneMoves ==
  ASSUME DocsInv, DocsTypeOK', number' = number, made <= made', Fits(driver)', Remembers,
         NEW s \in DocSessions, \A t \in DocSessions \ {s} : Still(t),
         \A i \in 1 .. MaxRows : \/ KeepsRow(i) /\ StaysCovered(s, i)
                                 \/ rows'[i].doc = "none"
                                 \/ i > made /\ RowOK(i)',
         SessionOK(s)'
  PROVE  DocsInv'
<1>1. ASSUME NEW i \in 1 .. MaxRows PROVE RowOK(i)'
  <2>1. CASE KeepsRow(i) /\ StaysCovered(s, i)
    <3>1. rows'[i].doc # "none" => i <= made' /\ rows'[i].file \in FileIds
      <4>1. made \in Int /\ made' \in Int
        BY DEF DocsInv, DocsTypeOK
      <4> QED
        BY <2>1, <4>1 DEF KeepsRow, DocsInv, RowOK
    <3>2. ASSUME rows'[i].checked # NoNumber PROVE Settled(i, rows'[i].checked)
      BY <2>1, <3>2 DEF KeepsRow, DocsInv, RowOK
    <3>3. ASSUME rows'[i].checked # NoNumber PROVE Settled(i, rows[i].checked)'
      <4> DEFINE n == rows'[i].checked
      <4>1. Settled(i, n)
        BY <3>2, <3>3
      <4> HIDE DEF n
      <4>2. \A m : Settled(i, m) => (rows'[i].doc \in IdDocs /\ m # number'[rows'[i].doc]
                                     => i \in forgotten' \/ \E t \in DocSessions : Covers(t, i)')
        BY <2>1, StaysSettled DEF KeepsRow, Settled
      <4> QED
        BY <4>1, <4>2 DEF Settled, n
    <3> QED
      BY <3>1, <3>3 DEF RowOK
  <2>2. CASE rows'[i].doc = "none"
    BY <2>2, Documents DEF RowOK, Settled
  <2> QED
    BY <2>1, <2>2
<1>2. ASSUME NEW t \in DocSessions \ {s} PROVE SessionOK(t)'
  <2>1. Still(t) /\ SessionOK(t) /\ made \in 0 .. MaxRows /\ made' \in 0 .. MaxRows
    BY DEF DocsInv, DocsTypeOK
  <2>4. Fits(paper[t].seen)'
    BY <2>1 DEF SessionOK, Still, Fits, Remembers
  <2>2. CASE docAt[t] \in {"number", "persist"}
    <3>0. paper[t].row \in 1 .. made
      BY <2>1, <2>2 DEF SessionOK
    <3>1. PICK i \in 1 .. MaxRows : i = paper[t].row
      BY <2>1, <3>0, RowsAssumption
    <3>6. i \in 1 .. made /\ i \in 1 .. made' /\ rows[i].doc \in {paper[t].doc, "none"} /\ ~(i > made)
      BY <2>1, <2>2, <3>0, <3>1 DEF SessionOK
    <3>2. \/ KeepsRow(i) /\ StaysCovered(s, i)
          \/ rows'[i].doc = "none"
      BY <3>6
    <3>3. rows'[i].doc \in {paper[t].doc, "none"}
      BY <3>2, <3>6 DEF KeepsRow
    <3>4. ASSUME NEW n, Settled(i, n) PROVE Settled(i, n)'
      <4>1. CASE rows'[i].doc = "none"
        BY <4>1, Documents DEF Settled
      <4>2. CASE KeepsRow(i) /\ StaysCovered(s, i)
        BY <3>4, <4>2, StaysSettled DEF KeepsRow
      <4> QED
        BY <3>2, <4>1, <4>2
    <3>5. \A n : Settled(i, n) => (rows'[i].doc \in IdDocs /\ n # number'[rows'[i].doc]
                                   => i \in forgotten' \/ \E u \in DocSessions : Covers(u, i)')
      BY <3>4 DEF Settled
    <3> QED
      BY <2>1, <2>2, <2>4, <3>1, <3>6, <3>3, <3>5 DEF SessionOK, Still, Settled
  <2>3. CASE docAt[t] \notin {"number", "persist"}
    BY <2>1, <2>3, <2>4 DEF SessionOK, Still
  <2> QED
    BY <2>2, <2>3
<1> QED
  BY <1>1, <1>2 DEF DocsInv

\* A request turns to a next statement, with what it carries, and no row or
\* number changes.
LEMMA Turns ==
  ASSUME DocsInv, UNCHANGED <<rows, made, number>>, files' \subseteq FileIds,
         driver' \in Standings, Fits(driver)', Remembers,
         NEW s \in DocSessions, NEW j \in Papers, NEW step \in DocSteps,
         docAt' = [docAt EXCEPT ![s] = step], paper' = [paper EXCEPT ![s] = j],
         \A i \in 1 .. MaxRows :
           rows[i].doc \in IdDocs /\ Covers(s, i) =>
             \/ i \in forgotten'
             \/ /\ j.op = "patch"
                /\ \/ step = "list" /\ j.doc = rows[i].doc
                   \/ step = "remove" /\ j.doc = rows[i].doc /\ i \in j.doomed
                   \/ step \in {"list", "remove", "demote", "demoteWrite"} /\ rows[i].doc \in j.todo,
         step = "analyse" /\ j.op # "trigger" => j.file \in FileIds, step = "insert" => j.file \in FileIds,
         step \in {"number", "persist"} => j.row \in 1 .. made /\ rows[j.row].doc \in {j.doc, "none"},
         step = "number" => j.doc \in IdDocs,
         step = "persist" => j.doc \in IdDocs /\ j.number = number[j.doc],
         step = "write" => j.op = "patch",
         Fits(j.seen)
  PROVE  DocsInv'
<1>1. DocsTypeOK /\ paper'[s] = j /\ docAt'[s] = step /\ \A t \in DocSessions \ {s} : Still(t)
  BY DEF DocsInv, DocsTypeOK, Still
<1>2. DocsTypeOK'
  BY <1>1 DEF DocsTypeOK, Remembers
<1>3. \A i \in 1 .. MaxRows : KeepsRow(i) /\ StaysCovered(s, i)
  BY <1>1 DEF KeepsRow, Covers, StaysCovered
<1>4. step = "persist" => j.number \in Numbers /\ Settled(j.row, j.number)'
  BY <1>1, Documents DEF DocsTypeOK, Settled
<1>7. Fits(paper[s].seen)'
  BY <1>1 DEF Fits, Remembers
<1>5. SessionOK(s)'
  BY <1>1, <1>4, <1>7 DEF SessionOK, Settled
<1>6. made <= made' /\ number' = number
  BY <1>1 DEF DocsTypeOK
<1> QED
  BY <1>1, <1>2, <1>3, <1>5, <1>6, OneMoves

\* A request ends.
LEMMA Ends ==
  ASSUME DocsInv, UNCHANGED <<rows, made, number>>, files' \subseteq FileIds,
         driver' \in Standings, Fits(driver)', Remembers, NEW s \in DocSessions, DocReturn(s),
         \A i \in 1 .. MaxRows : rows[i].doc \in IdDocs /\ Covers(s, i) => i \in forgotten'
  PROVE  DocsInv'
<1>1. "done" \in DocSteps /\ Fits(NoPaper.seen)
  BY BlankTypes DEF DocSteps, Fits
<1> QED
  BY <1>1, BlankTypes, Turns DEF DocReturn, DocGoto

LEMMA Typed ==
  ASSUME DocsInv
  PROVE  /\ rows \in [1 .. MaxRows -> VerificationRows] /\ made \in 0 .. MaxRows /\ files \subseteq FileIds
         /\ number \in [IdDocs -> Numbers] /\ driver \in Standings /\ Fits(driver)
         /\ UNCHANGED docHistory => Remembers
         /\ UNCHANGED <<byHand, driver>> => Fits(driver)'
         /\ \A s \in DocSessions : paper[s] \in Papers /\ SessionOK(s)
         /\ \A d : RowsOf(d) \subseteq 1 .. MaxRows
BY DEF DocsInv, DocsTypeOK, RowsOf, docHistory, Remembers, Fits

-----------------------------------------------------------------------------
(* The operations begin.                                                     *)

LEMMA Begins ==
  ASSUME NEW op \in AllDocOps, NEW d \in Docs, NEW s
  PROVE  /\ Begun(s, op, d) \in Papers /\ Agrees(Begun(s, op, d).seen) /\ Fits(Begun(s, op, d).seen)
         /\ Begun(s, op, d).op = op /\ Begun(s, op, d).doc = d
BY BlankTypes DEF Begun, Papers, NoPaper, Fits

LEMMA IdleCoversNone ==
  ASSUME NEW s, docAt[s] \notin {"refresh", "list", "remove", "demote", "demoteWrite"}
  PROVE  \A i : ~Covers(s, i)
BY DEF Covers

LEMMA UploadBegins ==
  ASSUME DocsInv, NEW s \in DocSessions, NEW d \in Docs, BeginUpload(s, d)
  PROVE  DocsInv'
<1>1. PICK op \in {"upload", "bundle"} :
        /\ BeginDoc(s, op, d) /\ (op = "bundle" => d # "selfie")
        /\ files' = files \cup {s}
        /\ Keep(s, [Begun(s, op, d) EXCEPT
                      !.file = s,
                      !.selfie = IF d = "selfie" THEN NoFile ELSE IF op = "bundle" THEN "bundled" ELSE LatestSelfie,
                      !.todo = IF d = "selfie" THEN IdDocs ELSE {}])
        /\ DocGoto(s, "analyse")
        /\ UNCHANGED <<rows, made, number, driver, docHistory>>
  BY DEF BeginUpload
<1>2. op \in AllDocOps /\ "analyse" \in DocSteps /\ s \in FileIds
  BY FileTypes DEF AllDocOps, DocSteps
<1>3. PICK selfie \in FileIds \cup {NoFile} :
        selfie = IF d = "selfie" THEN NoFile ELSE IF op = "bundle" THEN "bundled" ELSE LatestSelfie
  BY FileTypes, SelfieType DEF DocsInv
<1>4. PICK todo \in SUBSET IdDocs : todo = IF d = "selfie" THEN IdDocs ELSE {}
  <2>1. (IF d = "selfie" THEN IdDocs ELSE {}) \in SUBSET IdDocs
    OBVIOUS
  <2> QED
    BY <2>1, Zenon
<1>5. PICK p \in Papers : p = Begun(s, op, d) /\ Fits(p.seen)
  BY <1>2, Begins
<1> DEFINE j == [p EXCEPT !.file = s, !.selfie = selfie, !.todo = todo]
<1>6. j \in Papers /\ j.file = s /\ j.seen = p.seen
  BY <1>2 DEF Papers
<1>7. paper' = [paper EXCEPT ![s] = j] /\ docAt' = [docAt EXCEPT ![s] = "analyse"]
  BY <1>1, <1>3, <1>4, <1>5 DEF Keep, DocGoto
<1>8. /\ UNCHANGED <<rows, made, number>> /\ files' \subseteq FileIds
      /\ driver' \in Standings /\ Fits(driver)' /\ Remembers /\ \A i : ~Covers(s, i)
  BY <1>1, <1>2, Typed, IdleCoversNone DEF BeginDoc, docHistory
<1> HIDE DEF j
<1> QED
  BY <1>2, <1>5, <1>6, <1>7, <1>8, Turns

\* The other operations only load.
LEMMA LoadBegins ==
  ASSUME DocsInv, UNCHANGED <<docTables, docHistory>>, NEW s \in DocSessions, docAt[s] = "idle",
         NEW j \in Papers, NEW step \in DocSteps, DocGoto(s, step), Keep(s, j),
         step = "analyse" => j.op = "trigger", step \notin {"insert", "persist"},
         step = "number" => j.doc \in IdDocs /\ j.row \in 1 .. made /\ rows[j.row].doc \in {j.doc, "none"},
         step = "write" => j.op = "patch",
         Fits(j.seen)
  PROVE  DocsInv'
BY Typed, IdleCoversNone, Turns DEF docTables, docHistory, DocGoto, Keep

LEMMA DeleteBegins ==
  ASSUME DocsInv, NEW s \in DocSessions, NEW d \in Docs, BeginDelete(s, d)
  PROVE  DocsInv'
<1>1. PICK op \in {"delete", "intent"} :
        BeginDoc(s, op, d) /\ Keep(s, Begun(s, op, d)) /\ DocGoto(s, "list") /\ UNCHANGED <<docTables, docHistory>>
  BY DEF BeginDelete
<1>2. op \in AllDocOps /\ "list" \in DocSteps
  BY DEF AllDocOps, DocSteps
<1> QED
  BY <1>1, <1>2, Begins, LoadBegins DEF BeginDoc

LEMMA PatchBegins ==
  ASSUME DocsInv, NEW s \in DocSessions, BeginPatch(s)
  PROVE  DocsInv'
<1> DEFINE d == DocOrder[1]
<1>1. "patch" \in AllDocOps /\ "write" \in DocSteps /\ d \in Docs
  BY Documents DEF AllDocOps, DocSteps, BeginPatch, BeginDoc
<1> HIDE DEF d
<1>2. PICK p \in Papers : p = Begun(s, "patch", d) /\ Fits(p.seen) /\ p.op = "patch"
  BY <1>1, Begins
<1>3. PICK was \in Profiles : was = number
  BY Typed DEF Profiles
<1>4. PICK asked \in Profiles : Keep(s, [p EXCEPT !.was = was, !.asked = asked])
  BY <1>2, <1>3 DEF BeginPatch, d
<1> DEFINE j == [p EXCEPT !.was = was, !.asked = asked]
<1>5. j \in Papers /\ j.seen = p.seen /\ j.op = "patch"
  BY <1>2 DEF Papers
<1>6. Keep(s, j) /\ DocGoto(s, "write") /\ UNCHANGED <<docTables, docHistory>> /\ docAt[s] = "idle"
  BY <1>4 DEF BeginPatch, BeginDoc
<1> HIDE DEF j
<1> QED
  BY <1>1, <1>2, <1>5, <1>6, LoadBegins

LEMMA StatusBegins ==
  ASSUME DocsInv, NEW s \in DocSessions, BeginStatus(s)
  PROVE  DocsInv'
<1>1. "status" \in AllDocOps /\ "status" \in DocSteps /\ "selfie" \in Docs
  BY DEF AllDocOps, DocSteps, Docs
<1>2. PICK p \in Papers : p = Begun(s, "status", "selfie")
  BY <1>1, Begins
<1>3. PICK d \in Standings : d = driver /\ Fits(d)
  BY Typed
<1>4. PICK to \in Statuses : Keep(s, [p EXCEPT !.seen = d, !.to = to])
  BY <1>2, <1>3 DEF BeginStatus
<1> DEFINE j == [p EXCEPT !.seen = d, !.to = to]
<1>5. j \in Papers /\ j.seen = d
  BY DEF Papers
<1>6. Keep(s, j) /\ DocGoto(s, "status") /\ UNCHANGED <<docTables, docHistory>> /\ docAt[s] = "idle"
  BY <1>4 DEF BeginStatus, BeginDoc
<1> HIDE DEF j
<1> QED
  BY <1>1, <1>3, <1>5, <1>6, LoadBegins

LEMMA IdentityBegins ==
  ASSUME DocsInv, NEW s \in DocSessions, NEW d \in IdDocs, BeginIdentity(s, d)
  PROVE  DocsInv'
<1>1. "identity" \in AllDocOps /\ "number" \in DocSteps /\ d \in Docs /\ d # "none"
  BY Documents DEF AllDocOps, DocSteps
<1>2. PICK p \in Papers : p = Begun(s, "identity", d) /\ Fits(p.seen) /\ p.doc = d
  BY <1>1, Begins
<1>3. PICK i \in Readable(RowsOf(d)) : i = Latest(Readable(RowsOf(d)))
  BY Typed, LatestOne DEF BeginIdentity, Readable
<1>4. i \in 1 .. MaxRows /\ rows[i].doc = d /\ i \in 1 .. made
  <2>1. i \in 1 .. MaxRows /\ rows[i].doc = d
    BY <1>3 DEF Readable, RowsOf
  <2> QED
    BY <1>1, <2>1 DEF DocsInv, RowOK
<1> DEFINE j == [p EXCEPT !.row = i]
<1>5. j \in Papers /\ j.seen = p.seen /\ j.doc = d /\ j.row = i
  BY <1>2, <1>4, RowsAssumption DEF Papers
<1>6. Keep(s, j) /\ DocGoto(s, "number") /\ UNCHANGED <<docTables, docHistory>> /\ docAt[s] = "idle"
  BY <1>2, <1>3 DEF BeginIdentity, BeginDoc, Keep
<1> HIDE DEF j
<1> QED
  BY <1>1, <1>2, <1>4, <1>5, <1>6, LoadBegins

LEMMA ReviewBegins ==
  ASSUME DocsInv, NEW s \in DocSessions, NEW i \in 1 .. MaxRows, BeginReview(s, i)
  PROVE  DocsInv'
<1>1. "review" \in AllDocOps /\ "decide" \in DocSteps /\ rows[i].doc \in Docs
      /\ "verified" \in DocStatus /\ "rejected" \in DocStatus /\ i \in 0 .. MaxRows
  BY RowsAssumption DEF AllDocOps, DocSteps, DocStatus, BeginReview, BeginDoc
<1>2. PICK p \in Papers : p = Begun(s, "review", rows[i].doc) /\ Fits(p.seen)
  BY <1>1, Begins
<1>3. PICK status \in DocStatus : status = rows[i].status
  BY Typed DEF VerificationRows
<1>4. PICK result \in DocStatus : Keep(s, [p EXCEPT !.row = i, !.status = status, !.result = result])
  BY <1>1, <1>2, <1>3 DEF BeginReview
<1> DEFINE j == [p EXCEPT !.row = i, !.status = status, !.result = result]
<1>5. j \in Papers /\ j.seen = p.seen
  BY <1>1 DEF Papers
<1>6. Keep(s, j) /\ DocGoto(s, "decide") /\ UNCHANGED <<docTables, docHistory>> /\ docAt[s] = "idle"
  BY <1>4 DEF BeginReview, BeginDoc
<1> HIDE DEF j
<1> QED
  BY <1>1, <1>2, <1>5, <1>6, LoadBegins

LEMMA TriggerBegins ==
  ASSUME DocsInv, NEW s \in DocSessions, NEW i \in 1 .. MaxRows, BeginTrigger(s, i)
  PROVE  DocsInv'
<1>1. "trigger" \in AllDocOps /\ "analyse" \in DocSteps /\ rows[i].doc \in Docs /\ i \in 0 .. MaxRows
  BY RowsAssumption DEF AllDocOps, DocSteps, BeginTrigger, BeginDoc
<1>2. PICK p \in Papers : p = Begun(s, "trigger", rows[i].doc) /\ Fits(p.seen) /\ p.op = "trigger"
  BY <1>1, Begins
<1>3. PICK status \in DocStatus : status = rows[i].status
  BY Typed DEF VerificationRows
<1>4. PICK file \in FileIds \cup {NoFile} : file = rows[i].file
  BY Typed DEF VerificationRows
<1> DEFINE j == [p EXCEPT !.row = i, !.status = status, !.file = file]
<1>5. j \in Papers /\ j.seen = p.seen /\ j.op = "trigger"
  BY <1>1, <1>2 DEF Papers
<1>6. Keep(s, j) /\ DocGoto(s, "analyse") /\ UNCHANGED <<docTables, docHistory>> /\ docAt[s] = "idle"
  BY <1>2, <1>3, <1>4 DEF BeginTrigger, BeginDoc, Keep
<1> HIDE DEF j
<1> QED
  BY <1>1, <1>2, <1>5, <1>6, LoadBegins

LEMMA SyncBegins ==
  ASSUME DocsInv, NEW s \in DocSessions, BeginSync(s)
  PROVE  DocsInv'
<1>1. "sync" \in AllDocOps /\ "kyc" \in DocSteps /\ "selfie" \in Docs
  BY DEF AllDocOps, DocSteps, Docs
<1>2. PICK p \in Papers : p = Begun(s, "sync", "selfie")
  BY <1>1, Begins
<1>3. PICK d \in Standings : d = driver /\ Fits(d)
  BY Typed
<1> DEFINE j == [p EXCEPT !.seen = d]
<1>4. j \in Papers /\ j.seen = d
  BY DEF Papers
<1>5. Keep(s, j) /\ DocGoto(s, "kyc") /\ UNCHANGED <<docTables, docHistory>> /\ docAt[s] = "idle"
  BY <1>2, <1>3 DEF BeginSync, BeginDoc, Keep
<1> HIDE DEF j
<1> QED
  BY <1>1, <1>3, <1>4, <1>5, LoadBegins

-----------------------------------------------------------------------------
(* The steps of uploads and analyses.                                        *)

\* A request that keeps what it carries or where it is.
LEMMA Same ==
  ASSUME DocsInv, NEW s \in DocSessions
  PROVE  /\ paper = [paper EXCEPT ![s] = paper[s]] /\ docAt = [docAt EXCEPT ![s] = docAt[s]]
         /\ docAt[s] \in DocSteps
BY DEF DocsInv, DocsTypeOK

LEMMA Analysed ==
  ASSUME DocsInv, NEW s \in DocSessions, Analyse(s)
  PROVE  DocsInv'
<1>1. PICK p \in Papers : p = paper[s]
  BY Typed
<1>2. PICK a \in Analyses(p) : paper' = [paper EXCEPT ![s] = [p EXCEPT !.result = a[1], !.face = a[2]]]
  BY <1>1 DEF Analyse, Keep
<1>3. a[1] \in DocStatus /\ a[2] \in FileIds \cup {NoFile}
  <2> DEFINE face == IF Resolved(p.selfie) # NoFile THEN p.selfie ELSE LatestSelfie
  <2>1. face \in FileIds \cup {NoFile}
    BY SelfieType DEF Papers, DocsInv
  <2> HIDE DEF face
  <2>2. a \in {<<"under_review", NoFile>>, <<"pending", NoFile>>} \cup ({"verified", "rejected"} \X {NoFile, face})
    BY <1>2 DEF Analyses, face
  <2> QED
    BY <2>1, <2>2 DEF DocStatus
<1>4. PICK result \in DocStatus, face \in FileIds \cup {NoFile} : result = a[1] /\ face = a[2]
  BY <1>3
<1> DEFINE j == [p EXCEPT !.result = result, !.face = face]
<1>5. j \in Papers
  BY DEF Papers
<1>6. j.seen = p.seen /\ j.op = p.op /\ j.file = p.file
  BY DEF Papers
<1>7. PICK step \in {"decide", "insert"} : /\ docAt' = [docAt EXCEPT ![s] = step]
                                           /\ step = "insert" => p.op # "trigger"
  BY <1>1 DEF Analyse, DocGoto
<1>8. step \in DocSteps /\ (step = "insert" => p.file \in FileIds) /\ Fits(p.seen) /\ \A i : ~Covers(s, i)
  BY <1>1, <1>7, Typed, IdleCoversNone DEF Analyse, SessionOK, DocSteps
<1>9. paper' = [paper EXCEPT ![s] = j] /\ UNCHANGED <<docTables, docHistory>>
  BY <1>2, <1>4 DEF Analyse
<1> HIDE DEF j
<1> QED
  BY <1>5, <1>6, <1>7, <1>8, <1>9, Typed, Turns DEF docTables, docHistory

LEMMA RowInserted ==
  ASSUME DocsInv, NEW s \in DocSessions, InsertRow(s)
  PROVE  DocsInv'
<1>1. PICK p \in Papers : p = paper[s]
  BY Typed
<1>2. PICK k \in 1 .. MaxRows : k = made + 1
  BY Typed, RowsAssumption DEF InsertRow
<1> DEFINE new == [doc |-> p.doc, status |-> p.result, file |-> p.file, face |-> p.face, checked |-> NoNumber]
           j == [p EXCEPT !.row = k]
<1>3. /\ rows' = [rows EXCEPT ![k] = new] /\ made' = k /\ UNCHANGED <<files, number, driver, docHistory>>
      /\ paper' = [paper EXCEPT ![s] = j] /\ docAt' = [docAt EXCEPT ![s] = "attempt"] /\ docAt[s] = "insert"
  BY <1>1, <1>2 DEF InsertRow, Keep, DocGoto
<1>4. new \in VerificationRows /\ new.checked = NoNumber /\ new.file = p.file
  BY DEF Papers, VerificationRows
<1>5. j \in Papers /\ j.seen = p.seen
  BY <1>2, RowsAssumption DEF Papers
<1>6. rows[k].doc = "none"
  BY <1>2, Typed DEF DocsInv, RowOK
<1>7. p.file \in FileIds
  BY <1>1, <1>3, Typed DEF SessionOK
<1> HIDE DEF new, j
<1>8. DocsTypeOK' /\ \A t \in DocSessions \ {s} : Still(t)
  BY <1>2, <1>3, <1>4, <1>5 DEF DocsInv, DocsTypeOK, DocSteps, Still, docHistory
<1>9. \A i \in 1 .. MaxRows : (KeepsRow(i) /\ StaysCovered(s, i)) \/ (i > made /\ RowOK(i)')
  <2>1. RowOK(k)'
    BY <1>2, <1>3, <1>4, <1>7, Typed DEF RowOK
  <2>2. ASSUME NEW i \in 1 .. MaxRows, i # k PROVE KeepsRow(i) /\ StaysCovered(s, i)
    BY <1>3, <2>2, Typed DEF KeepsRow, Covers, StaysCovered
  <2> QED
    BY <1>2, <2>1, <2>2, Typed
<1>10. SessionOK(s)'
  BY <1>1, <1>3, <1>5, Typed DEF SessionOK, DocsInv, DocsTypeOK, Fits, docHistory
<1>11. made <= made' /\ number' = number /\ Fits(driver)' /\ Remembers
  BY <1>2, <1>3, Typed DEF docHistory
<1> QED
  BY <1>8, <1>9, <1>10, <1>11, OneMoves

LEMMA AttemptLogged ==
  ASSUME DocsInv, NEW s \in DocSessions, Attempt(s)
  PROVE  DocsInv'
<1>1. \A i : ~Covers(s, i)
  BY IdleCoversNone DEF Attempt
<1>2. CASE DocReturn(s)
  BY <1>1, <1>2, Typed, Ends DEF Attempt, docTables, docHistory
<1>3. CASE DocGoto(s, "revisit") /\ UNCHANGED paper
  <2>1. "revisit" \in DocSteps
    BY DEF DocSteps
  <2> QED
    BY <1>1, <1>3, <2>1, Typed, Same, Turns DEF Attempt, docTables, docHistory, DocGoto, SessionOK
<1> QED
  BY <1>2, <1>3 DEF Attempt

LEMMA Revisited ==
  ASSUME DocsInv, NEW s \in DocSessions, Revisit(s)
  PROVE  DocsInv'
<1>1. /\ \A i : ~Covers(s, i)
      /\ UNCHANGED <<docTables, docHistory>> /\ docAt[s] = "revisit" /\ "revisit" \in DocSteps /\ "analyse" \in DocSteps
  BY IdleCoversNone DEF Revisit, DocSteps
<1>2. PICK p \in Papers : p = paper[s] /\ Fits(p.seen)
  BY Typed DEF SessionOK
<1>3. CASE p.todo = {}
  BY <1>1, <1>2, <1>3, Typed, Ends DEF Revisit, docTables, docHistory
<1>4. CASE p.todo # {}
  <2> DEFINE ids == Readable(RowsOf(FirstOf(p.todo)))
  <2>1. PICK rest \in SUBSET IdDocs, d \in Docs : rest = p.todo \ {FirstOf(p.todo)} /\ d = FirstOf(p.todo)
    <3>1. p.todo \in SUBSET IdDocs
      BY DEF Papers
    <3>2. FirstOf(p.todo) \in p.todo
      BY <1>4, <3>1, FirstIn
    <3> QED
      BY <3>1, <3>2, Documents
  <2>2. CASE ids = {}
    <3> DEFINE j == [p EXCEPT !.todo = rest]
    <3>1. j \in Papers /\ j.seen = p.seen
      BY DEF Papers
    <3>2. paper' = [paper EXCEPT ![s] = j] /\ docAt' = [docAt EXCEPT ![s] = "revisit"]
      BY <1>1, <1>2, <1>4, <2>1, <2>2, Same DEF Revisit, Keep
    <3> HIDE DEF j
    <3> QED
      BY <1>1, <1>2, <3>1, <3>2, Typed, Turns DEF docTables, docHistory
  <2>3. CASE ids # {}
    <3>1. PICK file \in FileIds : file = rows[Latest(ids)].file
      <4>1. ids \in SUBSET (1 .. MaxRows)
        BY Typed DEF Readable
      <4>2. Latest(ids) \in ids
        BY <2>3, <4>1, LatestOne
      <4>3. rows[Latest(ids)].file \in files
        BY <4>2 DEF Readable
      <4> QED
        BY <4>3, Typed
    <3> DEFINE j == [p EXCEPT !.todo = rest, !.doc = d, !.file = file, !.selfie = s]
    <3>2. j \in Papers /\ j.seen = p.seen /\ j.file = file
      BY FileTypes DEF Papers
    <3>3. paper' = [paper EXCEPT ![s] = j] /\ docAt' = [docAt EXCEPT ![s] = "analyse"]
      BY <1>2, <1>4, <2>1, <2>3, <3>1 DEF Revisit, Keep, DocGoto
    <3> HIDE DEF j
    <3> QED
      BY <1>1, <1>2, <3>1, <3>2, <3>3, Typed, Turns DEF docTables, docHistory
  <2> QED
    BY <2>2, <2>3
<1> QED
  BY <1>3, <1>4

-----------------------------------------------------------------------------
(* The steps of deletions and profile changes.                               *)

\* A profile change goes on to its next document, or to the driver.
LEMMA GoesOn ==
  ASSUME DocsInv, UNCHANGED <<rows, made, files, number, docHistory>>, driver' \in Standings, Fits(driver)',
         NEW s \in DocSessions, NextDocument(s), paper[s].op = "patch",
         \A i \in 1 .. MaxRows : rows[i].doc \in IdDocs /\ Covers(s, i) => rows[i].doc \in paper[s].todo
  PROVE  DocsInv'
<1>1. PICK p \in Papers : p = paper[s] /\ Fits(p.seen) /\ p.op = "patch"
  BY Typed DEF SessionOK
<1>2. UNCHANGED <<rows, made, number>> /\ files' \subseteq FileIds /\ Remembers
      /\ "align" \in DocSteps /\ "list" \in DocSteps
  BY Typed DEF docHistory, DocSteps
<1>3. CASE p.todo = {}
  <2>1. \A i \in 1 .. MaxRows : ~(rows[i].doc \in IdDocs /\ Covers(s, i))
    BY <1>1, <1>3
  <2>2. docAt' = [docAt EXCEPT ![s] = "align"] /\ paper' = [paper EXCEPT ![s] = p]
    BY <1>1, <1>3, Same DEF NextDocument, DocGoto
  <2> QED
    BY <1>1, <1>2, <2>1, <2>2, Turns
<1>4. CASE p.todo # {}
  <2>1. PICK d \in Docs, rest \in SUBSET IdDocs : d = FirstOf(p.todo) /\ rest = p.todo \ {d}
    <3>1. p.todo \in SUBSET IdDocs
      BY DEF Papers
    <3>2. FirstOf(p.todo) \in p.todo
      BY <1>4, <3>1, FirstIn
    <3> QED
      BY <3>1, <3>2, Documents
  <2> DEFINE j == [p EXCEPT !.doc = d, !.todo = rest, !.deleted = FALSE, !.trash = {}]
  <2>2. j \in Papers /\ j.seen = p.seen /\ j.op = "patch" /\ j.doc = d /\ j.todo = rest
    BY <1>1 DEF Papers
  <2>3. docAt' = [docAt EXCEPT ![s] = "list"] /\ paper' = [paper EXCEPT ![s] = j]
    BY <1>1, <1>4, <2>1 DEF NextDocument, DocGoto, Keep
  <2>4. \A i \in 1 .. MaxRows : rows[i].doc \in IdDocs /\ Covers(s, i)
          => j.doc = rows[i].doc \/ rows[i].doc \in j.todo
    BY <1>1, <2>1, <2>2
  <2> HIDE DEF j
  <2> QED
    BY <1>1, <1>2, <2>2, <2>3, <2>4, Turns
<1> QED
  BY <1>3, <1>4

LEMMA Listed ==
  ASSUME DocsInv, NEW s \in DocSessions, List(s)
  PROVE  DocsInv'
<1>1. UNCHANGED <<docTables, docHistory>> /\ docAt[s] = "list" /\ {"remove", "demote", "align"} \subseteq DocSteps
  BY DEF List, DocSteps
<1>2. PICK p \in Papers : p = paper[s] /\ Fits(p.seen)
  BY Typed DEF SessionOK
<1>3. \A i \in 1 .. MaxRows : Covers(s, i) =>
        p.op = "patch" /\ (rows[i].doc \in p.todo \/ (p.doc = rows[i].doc /\ i \in RowsOf(p.doc)))
  BY <1>1, <1>2 DEF Covers, RowsOf
<1>4. UNCHANGED <<rows, made, number>> /\ files' \subseteq FileIds /\ driver' \in Standings /\ Fits(driver)'
      /\ Remembers
  BY <1>1, Typed DEF docTables, docHistory
<1>5. CASE RowsOf(p.doc) # {}
  <2>1. PICK ids \in SUBSET (1 .. MaxRows) : ids = RowsOf(p.doc)
    BY Typed
  <2> DEFINE j == [p EXCEPT !.doomed = ids]
  <2>2. j \in Papers /\ j.seen = p.seen /\ j.op = p.op /\ j.doc = p.doc /\ j.todo = p.todo /\ j.doomed = ids
    BY DEF Papers
  <2>3. paper' = [paper EXCEPT ![s] = j] /\ docAt' = [docAt EXCEPT ![s] = "remove"]
    BY <1>2, <1>5, <2>1 DEF List, Keep, DocGoto
  <2>5. "remove" \in DocSteps
    BY <1>1
  <2> HIDE DEF j
  <2>6. \A i \in 1 .. MaxRows : Covers(s, i) =>
          j.op = "patch" /\ (rows[i].doc \in j.todo \/ (j.doc = rows[i].doc /\ i \in j.doomed))
    BY <1>3, <2>1, <2>2
  <2>7. Fits(j.seen)
    BY <1>2, <2>2
  <2> QED
    BY <1>4, <2>2, <2>3, <2>5, <2>6, <2>7, Turns
<1>6. CASE RowsOf(p.doc) = {}
  <2>1. \A i \in 1 .. MaxRows : Covers(s, i) => p.op = "patch" /\ rows[i].doc \in p.todo
    BY <1>3, <1>6
  <2>2. CASE p.op = "delete" /\ DocReturn(s)
    <3>1. \A i \in 1 .. MaxRows : ~Covers(s, i)
      BY <2>1, <2>2
    <3> QED
      BY <1>4, <2>2, <3>1, Ends
  <2>3. CASE p.op = "intent" /\ DocGoto(s, "demote") /\ UNCHANGED paper
    <3>1. \A i \in 1 .. MaxRows : ~Covers(s, i)
      BY <2>1, <2>3
    <3>2. docAt' = [docAt EXCEPT ![s] = "demote"] /\ paper' = [paper EXCEPT ![s] = p] /\ "demote" \in DocSteps
      BY <1>1, <1>2, <2>3, Same DEF DocGoto
    <3> QED
      BY <1>2, <1>4, <3>1, <3>2, Turns
  <2>4. CASE p.op = "patch" /\ NextDocument(s)
    BY <1>1, <1>2, <1>4, <2>1, <2>4, GoesOn DEF docTables, docHistory
  <2> QED
    BY <1>2, <1>6, <2>2, <2>3, <2>4 DEF List
<1> QED
  BY <1>5, <1>6

LEMMA Removed ==
  ASSUME DocsInv, NEW s \in DocSessions, Remove(s)
  PROVE  DocsInv'
<1>1. PICK p \in Papers : p = paper[s] /\ Fits(p.seen)
  BY Typed DEF SessionOK
<1>2. PICK k \in p.doomed : k = Latest(p.doomed)
  BY <1>1, LatestOne DEF Remove, Papers
<1>3. k \in 1 .. MaxRows /\ (rows[k].doc # "none" => rows[k].file \in FileIds)
  BY Typed DEF Papers, DocsInv, RowOK
<1>4. PICK there \in BOOLEAN : there = (rows[k].doc # "none")
  OBVIOUS
<1>5. PICK trash \in SUBSET FileIds : trash = IF there THEN p.trash \cup {rows[k].file} ELSE p.trash
  BY <1>3, <1>4 DEF Papers
<1>6. PICK doomed \in SUBSET (1 .. MaxRows) : doomed = p.doomed \ {k}
  BY DEF Papers
<1>7. PICK deleted \in BOOLEAN : deleted = (p.deleted \/ there)
  OBVIOUS
<1> DEFINE j == [p EXCEPT !.doomed = doomed, !.deleted = deleted, !.trash = trash]
<1>8. j \in Papers /\ j.seen = p.seen /\ j.op = p.op /\ j.doc = p.doc /\ j.todo = p.todo /\ j.doomed = doomed
  <2>1. j \in Papers
    BY DEF Papers
  <2>2. j.seen = p.seen /\ j.op = p.op /\ j.doc = p.doc /\ j.todo = p.todo /\ j.doomed = doomed
    BY DEF Papers
  <2> QED
    BY <2>1, <2>2
<1>9. /\ rows' = IF there THEN [rows EXCEPT ![k] = NoVerification] ELSE rows
      /\ UNCHANGED <<made, files, number, driver, docHistory, docAt>> /\ docAt[s] = "remove"
  BY <1>1, <1>2, <1>4 DEF Remove
<1>10. paper' = [paper EXCEPT ![s] = j]
  BY <1>1, <1>2, <1>4, <1>5, <1>6, <1>7 DEF Remove, Keep
<1> HIDE DEF j
<1>11. paper'[s] = j /\ \A t \in DocSessions \ {s} : Still(t)
  BY <1>9, <1>10 DEF Still, DocsInv, DocsTypeOK
<1>16. Remembers
  BY <1>9, Typed DEF docHistory
<1>12. DocsTypeOK'
  BY <1>8, <1>9, <1>10, <1>16, BlankTypes DEF DocsInv, DocsTypeOK, Remembers
<1>13. ASSUME NEW i \in 1 .. MaxRows
       PROVE  (KeepsRow(i) /\ StaysCovered(s, i)) \/ rows'[i].doc = "none"
  <2>1. CASE there /\ i = k
    BY <1>9, <2>1, Typed DEF NoVerification
  <2>2. CASE ~(there /\ i = k)
    <3>1. rows'[i] = rows[i]
      BY <1>9, <2>2, Typed
    <3>2. i # k \/ rows[i].doc \notin IdDocs
      BY <1>4, <2>2, Documents
    <3>3. ASSUME Covers(s, i), i # k PROVE Covers(s, i)'
      BY <1>1, <1>6, <1>8, <1>9, <1>11, <3>1, <3>3 DEF Covers
    <3> QED
      BY <3>1, <3>2, <3>3 DEF KeepsRow, StaysCovered
  <2> QED
    BY <2>1, <2>2
<1>14. SessionOK(s)'
  BY <1>1, <1>8, <1>9, <1>11, <1>16 DEF SessionOK, Fits, Remembers
<1>15. made <= made' /\ number' = number /\ Fits(driver)'
  BY <1>9, Typed DEF docHistory
<1> QED
  BY <1>11, <1>12, <1>13, <1>14, <1>15, <1>16, OneMoves

LEMMA Unlinked ==
  ASSUME DocsInv, NEW s \in DocSessions, Unlink(s)
  PROVE  DocsInv'
<1>1. PICK p \in Papers : p = paper[s] /\ Fits(p.seen)
  BY Typed DEF SessionOK
<1>2. \A i : Covers(s, i) => p.op = "patch" /\ rows[i].doc \in p.todo
  BY <1>1 DEF Covers, Unlink
<1>3. UNCHANGED <<rows, made, number>> /\ files' \subseteq FileIds /\ driver' \in Standings /\ Fits(driver)'
      /\ Remembers /\ "demote" \in DocSteps
  BY Typed DEF Unlink, DocSteps, docHistory
<1>4. docAt' = [docAt EXCEPT ![s] = "demote"] /\ paper' = [paper EXCEPT ![s] = p]
  BY <1>1, Same DEF Unlink, DocGoto
<1> QED
  BY <1>1, <1>2, <1>3, <1>4, Turns

\* What the failed change does not come to is remembered.
LEMMA DeleteFailed ==
  ASSUME DocsInv, NEW s \in DocSessions, DeleteFails(s)
  PROVE  DocsInv'
<1>1. \A i \in 1 .. MaxRows : Covers(s, i) => i \in forgotten'
  BY DEF Covers, DeleteFails
<1>2. UNCHANGED <<rows, made, number>> /\ files' \subseteq FileIds /\ driver' \in Standings /\ Fits(driver)'
  BY Typed DEF DeleteFails, docTables, docHistory
<1>3. Remembers
  BY DEF DocsInv, DocsTypeOK, DeleteFails, Remembers
<1> QED
  BY <1>1, <1>2, <1>3, Ends DEF DeleteFails

LEMMA DriverLoaded ==
  ASSUME DocsInv, NEW s \in DocSessions, NEW step, NEW next \in {"demoteWrite", "alignWrite"},
         step \in {"demote", "align"}, step = "demote" => next = "demoteWrite", LoadDriver(s, step, next)
  PROVE  DocsInv'
<1>1. PICK p \in Papers : p = paper[s]
  BY Typed
<1>2. PICK d \in Standings : d = driver /\ Fits(d)
  BY Typed
<1> DEFINE j == [p EXCEPT !.seen = d]
<1>3. j \in Papers /\ j.seen = d /\ j.op = p.op /\ j.todo = p.todo
  BY DEF Papers
<1>4. paper' = [paper EXCEPT ![s] = j] /\ docAt' = [docAt EXCEPT ![s] = next] /\ UNCHANGED <<docTables, docHistory>>
  BY <1>1, <1>2 DEF LoadDriver, Keep, DocGoto
<1>5. (\A i : Covers(s, i) => p.op = "patch" /\ step = "demote" /\ rows[i].doc \in p.todo) /\ next \in DocSteps
  BY <1>1 DEF LoadDriver, DocSteps, Covers
<1> HIDE DEF j
<1> QED
  BY <1>2, <1>3, <1>4, <1>5, Typed, Turns DEF docTables, docHistory

\* What two requests write column by column agrees if what each writes does.
LEMMA WrittenAgrees ==
  ASSUME DocsInv, NEW seen \in Standings, NEW new \in Standings,
         Fits(seen), Agrees(seen) => Agrees(new), byHand' = byHand, driver' = Written(seen, new)
  PROVE  driver' \in Standings /\ Fits(driver)'
<1>1. driver' \in Standings
  BY Typed DEF Written, Standings
<1>2. ASSUME ~byHand PROVE Agrees(driver')
  BY <1>2, Typed DEF Written, Standings, Statuses, Agrees, Fits
<1> QED
  BY <1>1, <1>2 DEF Fits, Agrees

\* Each of the three standings a request writes.
LEMMA NewStandings ==
  ASSUME NEW seen \in Standings
  PROVE  /\ Demoted(seen) \in Standings /\ (Agrees(seen) => Agrees(Demoted(seen)))
         /\ Promoted(seen) \in Standings /\ (Agrees(seen) => Agrees(Promoted(seen)))
         /\ [verified |-> FALSE, status |-> "pending"] \in Standings
         /\ Agrees([verified |-> FALSE, status |-> "pending"])
BY DEF Demoted, Promoted, Standings, Statuses, Agrees

LEMMA DriverDemoted ==
  ASSUME DocsInv, NEW s \in DocSessions, Demote(s)
  PROVE  DocsInv'
<1>1. driver' \in Standings /\ Fits(driver)'
  <2>1. paper[s].seen \in Standings /\ Fits(paper[s].seen)
    BY Typed DEF Papers, SessionOK
  <2> QED
    BY <2>1, NewStandings, WrittenAgrees DEF Demote, docHistory
<1>2. UNCHANGED <<rows, made, files, number, docHistory>> /\ files' \subseteq FileIds /\ Remembers
  BY Typed DEF Demote
<1>3. \A i : Covers(s, i) => paper[s].op = "patch" /\ rows[i].doc \in paper[s].todo
  BY DEF Covers, Demote
<1>4. CASE paper[s].op = "patch"
  BY <1>1, <1>2, <1>3, <1>4, GoesOn DEF Demote, AfterDemote
<1>5. CASE paper[s].op # "patch"
  <2>1. DocReturn(s) /\ \A i : ~Covers(s, i)
    BY <1>3, <1>5 DEF Demote, AfterDemote
  <2> QED
    BY <1>1, <1>2, <2>1, Ends
<1> QED
  BY <1>4, <1>5

LEMMA Aligned ==
  ASSUME DocsInv, NEW s \in DocSessions, Align(s)
  PROVE  DocsInv'
<1>1. driver' \in Standings /\ Fits(driver)'
  <2>1. paper[s].seen \in Standings /\ Fits(paper[s].seen)
    BY Typed DEF Papers, SessionOK
  <2> QED
    BY <2>1, NewStandings, WrittenAgrees DEF Align, docHistory
<1>2. UNCHANGED <<rows, made, files, number>> /\ files' \subseteq FileIds /\ Remembers
      /\ (\A i : ~Covers(s, i)) /\ DocReturn(s)
  BY IdleCoversNone, Typed DEF Align
<1> QED
  BY <1>1, <1>2, Ends

\* A status set by hand fits whatever the flag is.
LEMMA StatusSet ==
  ASSUME DocsInv, NEW s \in DocSessions, SetStatus(s)
  PROVE  DocsInv'
<1>1. PICK seen \in Standings, to \in Statuses : driver' = Written(seen, [seen EXCEPT !.status = to])
  BY Typed DEF SetStatus, Papers
<1>2. driver' \in Standings
  <2>1. [seen EXCEPT !.status = to] \in Standings
    BY DEF Standings
  <2> QED
    BY <1>1, <2>1, Typed DEF Written, Standings
<1>3. UNCHANGED <<rows, made, files, number>> /\ byHand' = TRUE /\ (\A i : ~Covers(s, i)) /\ DocReturn(s)
      /\ forgotten' = forgotten
  BY IdleCoversNone DEF SetStatus
<1>4. Fits(driver)' /\ Remembers /\ files' \subseteq FileIds
  BY <1>3, Typed DEF Fits, Remembers, DocsInv, DocsTypeOK
<1> QED
  BY <1>2, <1>3, <1>4, Ends

LEMMA NumberRefreshed ==
  ASSUME DocsInv, NEW s \in DocSessions, RefreshNumber(s)
  PROVE  DocsInv'
<1>1. PICK p \in Papers : p = paper[s] /\ Fits(p.seen)
  BY Typed DEF SessionOK
<1> DEFINE changed == {d \in IdDocs : p.asked[d] # NoNumber /\ number[d] # p.was[d]}
<1>2. UNCHANGED <<docTables, docHistory>> /\ docAt[s] = "refresh" /\ "list" \in DocSteps
  BY DEF RefreshNumber, DocSteps
<1>3. UNCHANGED <<rows, made, number>> /\ files' \subseteq FileIds /\ driver' \in Standings /\ Fits(driver)'
      /\ Remembers
  BY <1>2, Typed DEF docTables, docHistory
<1>4. \A i \in 1 .. MaxRows : rows[i].doc \in IdDocs /\ Covers(s, i) => p.op = "patch" /\ rows[i].doc \in changed
  BY <1>1, <1>2 DEF Covers
<1>5. CASE changed = {}
  <2>1. DocReturn(s)
    BY <1>1, <1>5 DEF RefreshNumber
  <2> QED
    BY <1>3, <1>4, <1>5, <2>1, Ends
<1>6. CASE changed # {}
  <2>1. PICK d \in Docs, rest \in SUBSET IdDocs : d = FirstOf(changed) /\ rest = changed \ {d}
    <3>1. FirstOf(changed) \in changed
      BY <1>6, FirstIn
    <3> QED
      BY <3>1, Documents
  <2> DEFINE j == [p EXCEPT !.doc = d, !.todo = rest]
  <2>2. j \in Papers /\ j.seen = p.seen /\ j.op = p.op /\ j.doc = d /\ j.todo = rest
    BY DEF Papers
  <2>3. docAt' = [docAt EXCEPT ![s] = "list"] /\ paper' = [paper EXCEPT ![s] = j]
    BY <1>1, <1>6, <2>1 DEF RefreshNumber, DocGoto, Keep
  <2>4. \A i \in 1 .. MaxRows : rows[i].doc \in IdDocs /\ Covers(s, i)
          => j.op = "patch" /\ (j.doc = rows[i].doc \/ rows[i].doc \in j.todo)
    BY <1>4, <2>1, <2>2
  <2> HIDE DEF j
  <2> QED
    BY <1>1, <1>2, <1>3, <2>2, <2>3, <2>4, Turns
<1> QED
  BY <1>5, <1>6

\* The change that writes a number covers every row of its document, and what
\* covered the rows of the other one still does.
LEMMA NumberWritten ==
  ASSUME DocsInv, NEW s \in DocSessions, WriteNumber(s)
  PROVE  DocsInv'
<1>1. PICK p \in Papers : p = paper[s] /\ Fits(p.seen) /\ p.op = "patch"
  BY Typed DEF SessionOK, WriteNumber
<1>2. /\ UNCHANGED <<rows, made, files, driver, docHistory, paper>>
      /\ docAt[s] = "write" /\ docAt' = [docAt EXCEPT ![s] = "refresh"] /\ "refresh" \in DocSteps
  BY DEF WriteNumber, DocGoto, DocSteps
<1>3. \A d \in IdDocs : number'[d] = IF p.asked[d] \in {NoNumber, p.was[d]} THEN number[d] ELSE p.asked[d]
  BY <1>1 DEF WriteNumber
<1>4. DocsTypeOK' /\ Remembers
  <2>1. \A d \in IdDocs : p.asked[d] \in Numbers \cup {NoNumber}
    BY DEF Papers, Profiles
  <2>2. number' \in [IdDocs -> Numbers]
    BY <1>1, <2>1, Typed DEF WriteNumber
  <2> QED
    BY <1>2, <2>2, Typed DEF DocsInv, DocsTypeOK, Remembers
<1>5. docAt'[s] = "refresh" /\ \A t \in DocSessions \ {s} : docAt'[t] = docAt[t]
  BY <1>2 DEF DocsInv, DocsTypeOK
<1>6. ASSUME NEW i \in 1 .. MaxRows, NEW n, Settled(i, n)
      PROVE  Settled(i, n)'
  <2> SUFFICES ASSUME rows[i].doc \in IdDocs, n # number'[rows[i].doc]
               PROVE  i \in forgotten' \/ \E t \in DocSessions : Covers(t, i)'
    BY <1>2 DEF Settled
  <2> DEFINE d == rows[i].doc
  <2>1. CASE number'[d] = number[d]
    <3>1. ASSUME NEW t \in DocSessions, Covers(t, i) PROVE Covers(t, i)'
      <4>1. t # s
        BY <1>2, <3>1 DEF Covers
      <4> QED
        BY <1>2, <1>5, <2>1, <3>1, <4>1 DEF Covers
    <3> QED
      BY <1>4, <1>6, <2>1, <3>1 DEF Settled, Remembers
  <2>2. CASE number'[d] # number[d]
    <3>1. p.asked[d] # NoNumber /\ p.was[d] # number'[d]
      BY <1>3, <2>2
    <3>2. Covers(s, i)'
      BY <1>1, <1>2, <1>5, <3>1 DEF Covers
    <3> QED
      BY <3>2
  <2> QED
    BY <2>1, <2>2
<1>7. \A i \in 1 .. MaxRows : \A n : Settled(i, n) => (rows[i].doc \in IdDocs /\ n # number'[rows[i].doc]
                                                     => i \in forgotten' \/ \E t \in DocSessions : Covers(t, i)')
  BY <1>2, <1>6 DEF Settled
<1>8. ASSUME NEW i \in 1 .. MaxRows PROVE RowOK(i)'
  BY <1>2, <1>7 DEF DocsInv, RowOK, Settled
<1>9. ASSUME NEW t \in DocSessions \ {s} PROVE SessionOK(t)'
  <2>1. SessionOK(t) /\ made \in 0 .. MaxRows /\ Fits(paper[t].seen)'
    BY <1>2, Typed DEF Fits, SessionOK, docHistory
  <2>2. CASE docAt[t] = "persist"
    <3>1. PICK i \in 1 .. MaxRows : i = paper[t].row
      BY <2>1, <2>2, RowsAssumption DEF SessionOK
    <3> QED
      BY <1>2, <1>5, <1>7, <2>1, <2>2, <3>1 DEF SessionOK, Settled
  <2>3. CASE docAt[t] # "persist"
    BY <1>2, <1>5, <2>1, <2>3 DEF SessionOK
  <2> QED
    BY <2>2, <2>3
<1>10. SessionOK(s)' /\ Fits(driver)'
  BY <1>1, <1>2, <1>5, Typed DEF SessionOK, Fits, docHistory
<1> QED
  BY <1>2, <1>4, <1>8, <1>9, <1>10 DEF DocsInv

-----------------------------------------------------------------------------
(* The steps of identity checks, reviews and reads of the profile.           *)

LEMMA NumberRead ==
  ASSUME DocsInv, NEW s \in DocSessions, ReadNumber(s)
  PROVE  DocsInv'
<1>1. docAt[s] = "number" /\ UNCHANGED <<docTables, docHistory>> /\ "persist" \in DocSteps
  BY DEF ReadNumber, DocSteps
<1>2. PICK p \in Papers : /\ p = paper[s] /\ Fits(p.seen) /\ p.doc \in IdDocs
                          /\ p.row \in 1 .. made /\ rows[p.row].doc \in {p.doc, "none"}
  BY <1>1, Typed DEF SessionOK
<1>3. PICK n \in Numbers : n = number[p.doc]
  BY <1>2, Typed
<1> DEFINE j == [p EXCEPT !.number = n]
<1>4. j \in Papers /\ j.seen = p.seen /\ j.doc = p.doc /\ j.row = p.row /\ j.number = n
  BY DEF Papers
<1>5. paper' = [paper EXCEPT ![s] = j] /\ docAt' = [docAt EXCEPT ![s] = "persist"]
  BY <1>2, <1>3 DEF ReadNumber, Keep, DocGoto
<1>6. \A i : ~Covers(s, i)
  BY <1>1, IdleCoversNone
<1> HIDE DEF j
<1> QED
  BY <1>1, <1>2, <1>3, <1>4, <1>5, <1>6, Typed, Turns DEF docTables, docHistory

LEMMA ResultPersisted ==
  ASSUME DocsInv, NEW s \in DocSessions, Persist(s)
  PROVE  DocsInv'
<1>1. /\ docAt[s] = "persist" /\ UNCHANGED <<made, files, number, driver, docHistory>>
      /\ docAt' = [docAt EXCEPT ![s] = "done"] /\ paper' = [paper EXCEPT ![s] = NoPaper] /\ "done" \in DocSteps
  BY DEF Persist, DocReturn, DocGoto, DocSteps
<1>2. PICK k \in 1 .. MaxRows : k = paper[s].row
  BY <1>1, Typed, RowsAssumption DEF SessionOK
<1>3. PICK n \in Numbers \cup {NoNumber} :
        /\ n = paper[s].number \/ n = NoNumber
        /\ rows' = rows \/ rows' = [rows EXCEPT ![k] = [rows[k] EXCEPT !.checked = n]]
  <2>1. paper[s].number \in Numbers
    BY <1>1, Typed DEF SessionOK
  <2>2. PICK match \in BOOLEAN :
          rows' = IF rows[k].doc = "none" THEN rows ELSE [rows EXCEPT ![k] = Checked(rows[k], s, match)]
    BY <1>2 DEF Persist
  <2>3. CASE match
    BY <2>1, <2>2, <2>3 DEF Checked
  <2>4. CASE ~match
    BY <2>2, <2>4 DEF Checked
  <2> QED
    BY <2>3, <2>4
<1>4. rows' \in [1 .. MaxRows -> VerificationRows]
  BY <1>2, <1>3, Typed DEF VerificationRows
<1>5. DocsTypeOK' /\ \A t \in DocSessions \ {s} : Still(t)
  BY <1>1, <1>4, BlankTypes DEF DocsInv, DocsTypeOK, Still, docHistory
<1>6. ASSUME NEW i \in 1 .. MaxRows PROVE KeepsRow(i)
  <2>1. CASE i = k /\ rows' # rows
    <3>1. rows'[i] = [rows[k] EXCEPT !.checked = n]
      BY <1>3, <2>1, Typed
    <3>2. rows'[i].doc = rows[i].doc /\ rows'[i].file = rows[i].file /\ rows'[i].checked = n
      BY <2>1, <3>1, Typed DEF VerificationRows
    <3>3. n = paper[s].number => Settled(i, n)
      BY <1>1, <1>2, <2>1, Typed DEF SessionOK
    <3> QED
      BY <1>3, <3>2, <3>3 DEF KeepsRow
  <2>2. CASE ~(i = k /\ rows' # rows)
    BY <1>3, <2>2, Typed DEF KeepsRow
  <2> QED
    BY <2>1, <2>2
<1>7. (\A i : StaysCovered(s, i)) /\ made <= made' /\ Fits(driver)' /\ Remembers
  BY <1>1, IdleCoversNone, Typed DEF docHistory, StaysCovered
<1>8. SessionOK(s)'
  BY <1>1, BlankTypes DEF SessionOK, DocsInv, DocsTypeOK, Fits
<1> QED
  BY <1>1, <1>5, <1>6, <1>7, <1>8, OneMoves

LEMMA Decided ==
  ASSUME DocsInv, NEW s \in DocSessions, Decide(s)
  PROVE  DocsInv'
<1>1. /\ docAt[s] = "decide" /\ UNCHANGED <<made, files, number, driver, docHistory>>
      /\ docAt' = [docAt EXCEPT ![s] = "done"] /\ paper' = [paper EXCEPT ![s] = NoPaper] /\ "done" \in DocSteps
  BY DEF Decide, DocReturn, DocGoto, DocSteps
<1>2. PICK p \in Papers : p = paper[s]
  BY Typed
<1>3. \/ rows' = rows
      \/ rows' = [rows EXCEPT ![p.row].status = p.result, ![p.row].face = p.face]
  BY <1>2 DEF Decide
<1>4. p.result \in DocStatus /\ p.face \in FileIds \cup {NoFile}
  BY DEF Papers
<1>5. ASSUME NEW i \in 1 .. MaxRows
      PROVE  /\ rows'[i].doc = rows[i].doc /\ rows'[i].file = rows[i].file /\ rows'[i].checked = rows[i].checked
             /\ rows'[i] \in VerificationRows
  <2>1. rows[i] \in VerificationRows /\ rows \in [1 .. MaxRows -> VerificationRows]
    BY Typed
  <2>2. CASE rows' = rows
    BY <2>1, <2>2
  <2>3. CASE rows' # rows
    <3>1. PICK mid : mid = [rows EXCEPT ![p.row].status = p.result]
      OBVIOUS
    <3>2. rows' = [mid EXCEPT ![p.row].face = p.face]
      BY <1>3, <2>3, <3>1
    <3>3. mid[i] \in VerificationRows /\ mid[i].doc = rows[i].doc /\ mid[i].file = rows[i].file
          /\ mid[i].checked = rows[i].checked /\ i \in DOMAIN mid
      BY <1>4, <2>1, <3>1 DEF VerificationRows
    <3>4. rows'[i] = mid[i] \/ rows'[i] = [mid[i] EXCEPT !.face = p.face]
      BY <3>2, <3>3
    <3> QED
      BY <1>4, <3>3, <3>4 DEF VerificationRows
  <2> QED
    BY <2>2, <2>3
<1>6. rows' \in [1 .. MaxRows -> VerificationRows]
  BY <1>3, <1>5, Typed
<1>7. DocsTypeOK' /\ \A t \in DocSessions \ {s} : Still(t)
  BY <1>1, <1>6, BlankTypes DEF DocsInv, DocsTypeOK, Still, docHistory
<1>8. (\A i : StaysCovered(s, i)) /\ made <= made' /\ Fits(driver)' /\ Remembers
  BY <1>1, IdleCoversNone, Typed DEF docHistory, StaysCovered
<1>9. SessionOK(s)'
  BY <1>1, BlankTypes DEF SessionOK, DocsInv, DocsTypeOK, Fits
<1>10. \A i \in 1 .. MaxRows : KeepsRow(i)
  BY <1>5 DEF KeepsRow
<1> QED
  BY <1>1, <1>7, <1>8, <1>9, <1>10, OneMoves

LEMMA KycChecked ==
  ASSUME DocsInv, NEW s \in DocSessions, CheckKyc(s)
  PROVE  DocsInv'
<1>1. PICK p \in Papers : p = paper[s] /\ Fits(p.seen)
  BY Typed DEF SessionOK
<1>2. PICK kyc \in BOOLEAN : kyc = Kyc
  <2>1. Kyc \in BOOLEAN
    BY Zenon DEF Kyc
  <2> QED
    BY <2>1, Zenon
<1> DEFINE j == [p EXCEPT !.kyc = kyc]
<1>3. j \in Papers /\ j.seen = p.seen
  BY DEF Papers
<1>4. paper' = [paper EXCEPT ![s] = j] /\ docAt' = [docAt EXCEPT ![s] = "settle"] /\ UNCHANGED <<docTables, docHistory>>
  BY <1>1, <1>2, Zenon DEF CheckKyc, Keep, DocGoto
<1>5. (\A i : ~Covers(s, i)) /\ "settle" \in DocSteps
  BY IdleCoversNone DEF CheckKyc, DocSteps
<1> HIDE DEF j
<1> QED
  BY <1>1, <1>3, <1>4, <1>5, Typed, Turns DEF docTables, docHistory

LEMMA StandingSettled ==
  ASSUME DocsInv, NEW s \in DocSessions, Settle(s)
  PROVE  DocsInv'
<1>1. PICK p \in Papers : p = paper[s] /\ Fits(p.seen)
  BY Typed DEF SessionOK
<1>2. driver' \in Standings /\ Fits(driver)'
  <2>1. p.seen \in Standings /\ byHand' = byHand
    BY DEF Papers, Settle, docHistory
  <2>2. CASE driver' = driver
    BY <2>1, <2>2, Typed
  <2>3. CASE p.kyc /\ ~p.seen.verified /\ driver' = Written(p.seen, Promoted(p.seen))
    BY <1>1, <2>1, <2>3, NewStandings, WrittenAgrees
  <2>4. CASE driver' = Written(p.seen, Demoted(p.seen))
    BY <1>1, <2>1, <2>4, NewStandings, WrittenAgrees
  <2> QED
    BY <1>1, <2>2, <2>3, <2>4 DEF Settle, Papers, Standings
<1>3. UNCHANGED <<rows, made, files, number, docHistory>> /\ (\A i : ~Covers(s, i)) /\ DocReturn(s)
  BY IdleCoversNone DEF Settle
<1> QED
  BY <1>2, <1>3, Typed, Ends

-----------------------------------------------------------------------------
(* The theorems.                                                             *)

LEMMA EveryStep == DocsInv /\ [DocNext]_docVars => DocsInv'
<1> SUFFICES ASSUME DocsInv, [DocNext]_docVars PROVE DocsInv'
  OBVIOUS
<1>1. CASE UNCHANGED docVars
  BY <1>1 DEF docVars, docTables, docHistory, DocsInv, DocsTypeOK, Agrees, Fits, RowOK, SessionOK, Settled, Covers, RowsOf
<1>2. ASSUME NEW s \in DocSessions, BeginAnyDoc(s) PROVE DocsInv'
  BY <1>2, UploadBegins, DeleteBegins, IdentityBegins, PatchBegins, ReviewBegins, TriggerBegins, SyncBegins, StatusBegins
     DEF BeginAnyDoc
<1>3. ASSUME NEW s \in DocSessions, DocStep(s) PROVE DocsInv'
  BY <1>3, Analysed, RowInserted, AttemptLogged, Revisited, Listed, Removed, Unlinked, DeleteFailed, DriverLoaded, DriverDemoted,
     Aligned, NumberWritten, NumberRefreshed, NumberRead, ResultPersisted, Decided, KycChecked, StandingSettled, StatusSet
     DEF DocStep
<1> QED
  BY <1>1, <1>2, <1>3 DEF DocNext

LEMMA DocsInvariant == DocSpec => []DocsInv
  BY InitInv, EveryStep, PTL DEF DocSpec

\* Rows, files, numbers, the standing and the requests keep their types.
THEOREM DocsTypes == DocSpec => []DocsTypeOK
<1>1. DocsInv => DocsTypeOK
  BY DEF DocsInv
<1> QED
  BY <1>1, DocsInvariant, PTL

\* The races of the requests that write the flag and the status of a driver
\* never make them disagree, although each has read them before and writes only
\* what it found different; a status set by hand may.
THEOREM StandingAgrees == DocSpec => []VerifiedIsActive
<1>1. DocsInv => VerifiedIsActive
  BY DEF DocsInv, Agrees, Fits, VerifiedIsActive
<1> QED
  BY <1>1, DocsInvariant, PTL

\* No document stays checked against a number the profile has no more: the
\* change that wrote the number last deletes it, or has yet to, or failed.
THEOREM ChecksFollowNumbers == DocSpec => []IdentityMatchesProfile
<1>1. DocsInv => IdentityMatchesProfile
  <2> SUFFICES ASSUME DocsInv, NEW i \in 1 .. MaxRows, rows[i].doc \in IdDocs, rows[i].checked # NoNumber,
                      rows[i].checked # number[rows[i].doc], i \notin forgotten
               PROVE  Changing(rows[i].doc)
    BY DEF IdentityMatchesProfile
  <2>1. PICK t \in DocSessions : Covers(t, i)
    BY DEF DocsInv, RowOK, Settled
  <2> QED
    BY <2>1 DEF Covers, Changing
<1> QED
  BY <1>1, DocsInvariant, PTL
=============================================================================
