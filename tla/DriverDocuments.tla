--------------------------- MODULE DriverDocuments ---------------------------
(***************************************************************************)
(* The documents of one driver (backend/app/modules/verification), the     *)
(* identity numbers of the profile they are checked against (users) and    *)
(* the driver's standing derived from them (drivers, rides).  A request is *)
(* a series of database transactions and of calls to the face and OCR      *)
(* services, and what it has read stays in its session while it waits.     *)
(***************************************************************************)
EXTENDS Integers, Sequences, FiniteSetsExt

CONSTANTS
  DocSessions,  \* requests, one AsyncSession each; a session also names the file it uploads
  Serves,       \* the operations each of them may be, a subset of AllDocOps
  DocOrder,     \* the documents with a number, as the service goes through them
  Numbers,      \* values of profile.cnic and profile.driving_license
  MaxRows,      \* primary keys of user_verifications: bounds the insertions
  NoFile, NoNumber

IdDocs    == {DocOrder[k] : k \in 1 .. Len(DocOrder)}
Docs      == IdDocs \cup {"selfie"}
AllDocOps == {"upload", "bundle", "delete", "intent", "identity", "patch", "review", "trigger", "sync", "status"}

ASSUME ServesAssumption == Serves \in [DocSessions -> SUBSET AllDocOps]
ASSUME DocOrderAssumption == DocOrder \in {<<"cnic", "license">>, <<"cnic">>}
ASSUME RowsAssumption   == MaxRows \in Nat /\ MaxRows > Len(DocOrder)
ASSUME FilesAssumption  ==
  NoFile \notin DocSessions /\ DocSessions \cap (Docs \cup {"bundled"}) = {} /\ NoNumber \notin Numbers

VARIABLES
  rows,    \* user_verifications by creation time; a key not inserted, or deleted, has doc "none"
  made,    \* the last key inserted
  files,   \* files present in the upload directory
  number,  \* the profile's identity numbers
  driver,  \* driver_profiles: is_verified and status
  byHand,  \* history: some request has set the status itself
  forgotten, \* history: rows that a profile change should have deleted when it failed
  docAt,   \* next statement of each request
  paper    \* its local variables

docTables == <<rows, made, files, number, driver>>
docHistory == <<byHand, forgotten>>
docVars   == <<docTables, docHistory, docAt, paper>>

\* The file a document had at the start goes by the document's name; a selfie
\* sent along with a document is stored, but never gets a row.
FileIds   == DocSessions \cup Docs \cup {"bundled"}
DocStatus == {"pending", "under_review", "verified", "rejected"}
\* checked: the number an identity check passed with, kept in meta_data.
\* face: history, the selfie the status comes from.
VerificationRows ==
  [doc : Docs \cup {"none"}, status : DocStatus, file : FileIds \cup {NoFile},
   face : FileIds \cup {NoFile}, checked : Numbers \cup {NoNumber}]
NoVerification == [doc |-> "none", status |-> "pending", file |-> NoFile, face |-> NoFile,
                   checked |-> NoNumber]
Statuses  == {"pending", "active", "inactive", "suspended"}
Standings == [verified : BOOLEAN, status : Statuses]

DocSteps == {"idle", "analyse", "insert", "attempt", "revisit", "list", "remove",
             "demote", "demoteWrite", "align", "alignWrite", "write", "refresh", "number",
             "persist", "decide", "kyc", "settle", "status", "done"}
\* The numbers a profile change has read, and those it sets; NoNumber: none.
Profiles == [IdDocs -> Numbers \cup {NoNumber}]
Blank    == [d \in IdDocs |-> NoNumber]
Papers == [op : AllDocOps \cup {"none"}, doc : Docs \cup {"none"}, row : 0 .. MaxRows,
           file : FileIds \cup {NoFile}, selfie : FileIds \cup {NoFile}, face : FileIds \cup {NoFile},
           status : DocStatus, result : DocStatus, todo : SUBSET IdDocs, doomed : SUBSET (1 .. MaxRows),
           deleted : BOOLEAN, trash : SUBSET FileIds, was : Profiles, asked : Profiles,
           number : Numbers \cup {NoNumber}, seen : Standings, to : Statuses, kyc : BOOLEAN]
NoPaper == [op |-> "none", doc |-> "none", row |-> 0, file |-> NoFile, selfie |-> NoFile,
            face |-> NoFile, status |-> "pending", result |-> "pending", todo |-> {}, doomed |-> {},
            deleted |-> FALSE, trash |-> {}, was |-> Blank, asked |-> Blank, number |-> NoNumber,
            seen |-> [verified |-> FALSE, status |-> "pending"], to |-> "pending", kyc |-> FALSE]

\* The documents are gone through in their order.
FirstOf(ds) == DocOrder[Min({k \in 1 .. Len(DocOrder) : DocOrder[k] \in ds})]

\* get_user_verifications, newest first.
RowsOf(d)   == {i \in 1 .. MaxRows : rows[i].doc = d}
Latest(ids) == CHOOSE i \in ids : \A k \in ids : k <= i
\* _resolve_document_path: only a file that exists is one.
Readable(ids) == {i \in ids : rows[i].file \in files}
Resolved(f)   == IF f \in files THEN f ELSE NoFile

\* _find_latest_selfie_path looks at the newest selfie alone.
LatestSelfie ==
  LET ids == RowsOf("selfie") IN IF ids = {} THEN NoFile ELSE Resolved(rows[Latest(ids)].file)

\* _has_required_driver_verifications, of rides and of drivers: the newest
\* row of each document is verified, and an identity check of it passed.
Kyc ==
  \A d \in Docs :
    /\ RowsOf(d) # {}
    /\ LET row == rows[Latest(RowsOf(d))] IN
       row.status = "verified" /\ (d \in IdDocs => row.checked # NoNumber)

-----------------------------------------------------------------------------
\* A driver whose documents are all in order.
FirstRow(i) ==
  LET d == IF i = 1 THEN "selfie" ELSE DocOrder[i - 1] IN
  [doc |-> d, status |-> "verified", file |-> d, face |-> "selfie",
   checked |-> IF d \in IdDocs THEN number[d] ELSE NoNumber]

DocInit ==
  /\ number \in [IdDocs -> Numbers]
  /\ made = Len(DocOrder) + 1
  /\ rows = [i \in 1 .. MaxRows |-> IF i <= made THEN FirstRow(i) ELSE NoVerification]
  /\ files = Docs \cup {"bundled"}
  /\ driver = [verified |-> TRUE, status |-> "active"] /\ byHand = FALSE /\ forgotten = {}
  /\ docAt = [s \in DocSessions |-> "idle"] /\ paper = [s \in DocSessions |-> NoPaper]

DocGoto(s, step) == docAt' = [docAt EXCEPT ![s] = step]
DocReturn(s)     == DocGoto(s, "done") /\ paper' = [paper EXCEPT ![s] = NoPaper]
Keep(s, fields)  == paper' = [paper EXCEPT ![s] = fields]

BeginDoc(s, op, d) == docAt[s] = "idle" /\ op \in Serves[s] /\ paper[s] = NoPaper /\ d \in Docs
Begun(s, op, d)    == [NoPaper EXCEPT !.op = op, !.doc = d]

-----------------------------------------------------------------------------
(* upload_document_service and perform_ai_verification_service.              *)

\* The file is stored; a document is matched with the selfie sent along, or
\* with the newest one.  A selfie has the other documents matched again.
BeginUpload(s, d) ==
  \E op \in {"upload", "bundle"} :
    /\ BeginDoc(s, op, d) /\ (op = "bundle" => d # "selfie")
    /\ files' = files \cup {s}
    /\ Keep(s, [Begun(s, op, d) EXCEPT
                  !.file = s,
                  !.selfie = IF d = "selfie" THEN NoFile ELSE IF op = "bundle" THEN "bundled" ELSE LatestSelfie,
                  !.todo = IF d = "selfie" THEN IdDocs ELSE {}])
    /\ DocGoto(s, "analyse")
    /\ UNCHANGED <<rows, made, number, driver, docHistory>>

\* Variant: the service speaks of approval, which is no VerificationStatus.
AnalysesApproved(j) == {"approved", "rejected"} \X {NoFile}

\* What the analysis of a stored document comes to: the document that cannot
\* be read is for review, without a selfie it waits, and the face services
\* decide on the images as they are read here.
Analyses(j) ==
  LET face == IF Resolved(j.selfie) # NoFile THEN j.selfie ELSE LatestSelfie IN
  IF j.file \notin files THEN {<<"under_review", NoFile>>}
  ELSE IF j.doc = "selfie" THEN {"verified", "rejected"} \X {NoFile}
  ELSE IF face = NoFile THEN {<<"pending", NoFile>>}
  ELSE {"verified", "rejected"} \X {face}

Analyse(s) ==
  /\ docAt[s] = "analyse"
  /\ \E a \in Analyses(paper[s]) : Keep(s, [paper[s] EXCEPT !.result = a[1], !.face = a[2]])
  /\ DocGoto(s, IF paper[s].op = "trigger" THEN "decide" ELSE "insert")
  /\ UNCHANGED <<docTables, docHistory>>

\* crud.create_verification
InsertRow(s) ==
  LET j == paper[s] IN
  /\ docAt[s] = "insert" /\ made < MaxRows
  /\ made' = made + 1
  /\ rows' = [rows EXCEPT ![made + 1] = [doc |-> j.doc, status |-> j.result, file |-> j.file,
                                         face |-> j.face, checked |-> NoNumber]]
  /\ Keep(s, [j EXCEPT !.row = made + 1]) /\ DocGoto(s, "attempt")
  /\ UNCHANGED <<files, number, driver, docHistory>>

\* crud.create_verification_attempt: its foreign key needs the row.
Attempt(s) ==
  /\ docAt[s] = "attempt"
  /\ IF rows[paper[s].row].doc = "none" THEN DocReturn(s)
     ELSE DocGoto(s, "revisit") /\ UNCHANGED paper
  /\ UNCHANGED <<docTables, docHistory>>

\* _reverify_latest_cnic_after_selfie_upload: the newest row of each document
\* whose file can be read is matched with the selfie just stored.
Revisit(s) ==
  LET j == paper[s] IN
  /\ docAt[s] = "revisit"
  /\ IF j.todo = {} THEN DocReturn(s)
     ELSE LET d == FirstOf(j.todo)  ids == Readable(RowsOf(d)) IN
          IF ids = {} THEN Keep(s, [j EXCEPT !.todo = @ \ {d}]) /\ UNCHANGED docAt
          ELSE /\ Keep(s, [j EXCEPT !.todo = @ \ {d}, !.doc = d,
                                    !.file = rows[Latest(ids)].file, !.selfie = s])
               /\ DocGoto(s, "analyse")
  /\ UNCHANGED <<docTables, docHistory>>

-----------------------------------------------------------------------------
(* delete_uploaded_document_service, called by a client, by the intent to     *)
(* take a new selfie, and by a change of a number of the profile.            *)

BeginDelete(s, d) ==
  \E op \in {"delete", "intent"} :
    /\ BeginDoc(s, op, d) /\ (op = "intent" <=> d = "selfie")
    /\ Keep(s, Begun(s, op, d)) /\ DocGoto(s, "list")
    /\ UNCHANGED <<docTables, docHistory>>

\* The next document whose number a profile change has changed; without one
\* the driver is aligned.
NextDocument(s) ==
  LET j == paper[s] IN
  IF j.todo = {} THEN DocGoto(s, "align") /\ UNCHANGED paper
  ELSE /\ Keep(s, [j EXCEPT !.doc = FirstOf(j.todo), !.todo = @ \ {FirstOf(@)}, !.deleted = FALSE, !.trash = {}])
       /\ DocGoto(s, "list")

\* A driver is demoted even when there is no selfie to delete.
List(s) ==
  LET j == paper[s]  ids == RowsOf(j.doc) IN
  /\ docAt[s] = "list"
  /\ \/ ids # {} /\ Keep(s, [j EXCEPT !.doomed = ids]) /\ DocGoto(s, "remove")
     \/ ids = {} /\ j.op = "delete" /\ DocReturn(s)
     \/ ids = {} /\ j.op = "intent" /\ DocGoto(s, "demote") /\ UNCHANGED paper
     \/ ids = {} /\ j.op = "patch" /\ NextDocument(s)
  /\ UNCHANGED <<docTables, docHistory>>

\* Each row goes in a transaction of its own; when none was left to delete,
\* the request fails and nobody is demoted.
Remove(s) ==
  LET j == paper[s]  i == Latest(j.doomed)  there == rows[i].doc # "none" IN
  /\ docAt[s] = "remove" /\ j.doomed # {}
  /\ rows' = IF there THEN [rows EXCEPT ![i] = NoVerification] ELSE rows
  /\ Keep(s, [j EXCEPT !.doomed = @ \ {i}, !.deleted = @ \/ there,
                       !.trash = IF there THEN @ \cup {rows[i].file} ELSE @])
  /\ UNCHANGED <<made, files, number, driver, docHistory, docAt>>

Unlink(s) ==
  /\ docAt[s] = "remove" /\ paper[s].doomed = {} /\ paper[s].deleted
  /\ files' = files \ paper[s].trash /\ DocGoto(s, "demote")
  /\ UNCHANGED <<rows, made, number, driver, docHistory, paper>>

\* A profile change swallows that failure: it deletes no further document,
\* does not align the driver, and answers that all went well.
DeleteFails(s) ==
  /\ docAt[s] = "remove" /\ paper[s].doomed = {} /\ ~paper[s].deleted
  /\ forgotten' = forgotten \cup {i \in 1 .. MaxRows : rows[i].doc \in paper[s].todo}
  /\ DocReturn(s)
  /\ UNCHANGED <<docTables, byHand>>

\* _demote_driver_verification_on_document_delete: the row is read, and only
\* the columns that change are written.
LoadDriver(s, step, next) ==
  /\ docAt[s] = step
  /\ Keep(s, [paper[s] EXCEPT !.seen = driver]) /\ DocGoto(s, next)
  /\ UNCHANGED <<docTables, docHistory>>

Written(seen, new) ==
  [verified |-> IF new.verified # seen.verified THEN new.verified ELSE driver.verified,
   status   |-> IF new.status # seen.status THEN new.status ELSE driver.status]

\* An active driver waits again; one who paused or was suspended stays so.
Demoted(seen) ==
  [verified |-> FALSE, status |-> IF seen.status = "active" THEN "pending" ELSE seen.status]

\* A profile change goes on.
AfterDemote(s) == IF paper[s].op = "patch" THEN NextDocument(s) ELSE DocReturn(s)

\* Variant: the flag is taken back, the status is forgotten.
DemoteFlag(s) ==
  LET seen == paper[s].seen IN
  /\ docAt[s] = "demoteWrite"
  /\ driver' = Written(seen, [seen EXCEPT !.verified = FALSE])
  /\ AfterDemote(s)
  /\ UNCHANGED <<rows, made, files, number, docHistory>>

Demote(s) ==
  /\ docAt[s] = "demoteWrite"
  /\ driver' = Written(paper[s].seen, Demoted(paper[s].seen))
  /\ AfterDemote(s)
  /\ UNCHANGED <<rows, made, files, number, docHistory>>

-----------------------------------------------------------------------------
(* update_user_profile_service: cnic, driving_license or both.               *)

BeginPatch(s) ==
  /\ BeginDoc(s, "patch", DocOrder[1])
  /\ \E asked \in Profiles \ {Blank} :
       Keep(s, [Begun(s, "patch", DocOrder[1]) EXCEPT !.was = number, !.asked = asked])
  /\ DocGoto(s, "write")
  /\ UNCHANGED <<docTables, docHistory>>

\* The columns are written together; one set to what was read is not.
WriteNumber(s) ==
  LET j == paper[s] IN
  /\ docAt[s] = "write"
  /\ number' = [d \in IdDocs |-> IF j.asked[d] \in {NoNumber, j.was[d]} THEN number[d] ELSE j.asked[d]]
  /\ DocGoto(s, "refresh")
  /\ UNCHANGED <<rows, made, files, driver, docHistory, paper>>

\* The documents are deleted one after the other, in their order.
RefreshNumber(s) ==
  LET j == paper[s]
      changed == {d \in IdDocs : j.asked[d] # NoNumber /\ number[d] # j.was[d]} IN
  /\ docAt[s] = "refresh"
  /\ IF changed = {} THEN DocReturn(s)
     ELSE /\ Keep(s, [j EXCEPT !.doc = FirstOf(changed), !.todo = changed \ {FirstOf(changed)}])
          /\ DocGoto(s, "list")
  /\ UNCHANGED <<docTables, docHistory>>

\* crud.sync_identity_after_profile_update
Align(s) ==
  /\ docAt[s] = "alignWrite"
  /\ driver' = Written(paper[s].seen, [verified |-> FALSE, status |-> "pending"])
  /\ DocReturn(s)
  /\ UNCHANGED <<rows, made, files, number, docHistory>>

-----------------------------------------------------------------------------
(* verify_identity_data_service                                              *)

BeginIdentity(s, d) ==
  LET ids == Readable(RowsOf(d)) IN
  /\ BeginDoc(s, "identity", d) /\ d \in IdDocs /\ ids # {}
  /\ Keep(s, [Begun(s, "identity", d) EXCEPT !.row = Latest(ids)]) /\ DocGoto(s, "number")
  /\ UNCHANGED <<docTables, docHistory>>

ReadNumber(s) ==
  /\ docAt[s] = "number"
  /\ Keep(s, [paper[s] EXCEPT !.number = number[paper[s].doc]]) /\ DocGoto(s, "persist")
  /\ UNCHANGED <<docTables, docHistory>>

Checked(row, s, match) == [row EXCEPT !.checked = IF match THEN paper[s].number ELSE NoNumber]

\* Variant: the result goes to the newest row of the document.
PersistLatest(s) ==
  LET ids == RowsOf(paper[s].doc) IN
  /\ docAt[s] = "persist"
  /\ \E match \in BOOLEAN :
       rows' = IF ids = {} THEN rows
               ELSE [rows EXCEPT ![Latest(ids)] = Checked(@, s, match)]
  /\ DocReturn(s)
  /\ UNCHANGED <<made, files, number, driver, docHistory>>

\* The service has read a number that matches or not; the row that was
\* deleted meanwhile cannot be updated.
Persist(s) ==
  LET i == paper[s].row IN
  /\ docAt[s] = "persist"
  /\ \E match \in BOOLEAN :
       rows' = IF rows[i].doc = "none" THEN rows ELSE [rows EXCEPT ![i] = Checked(@, s, match)]
  /\ DocReturn(s)
  /\ UNCHANGED <<made, files, number, driver, docHistory>>

-----------------------------------------------------------------------------
(* admin_review_verification_service and trigger_ai_verification_service      *)

BeginReview(s, i) ==
  /\ BeginDoc(s, "review", rows[i].doc)
  /\ \E decision \in {"verified", "rejected"} :
       Keep(s, [Begun(s, "review", rows[i].doc) EXCEPT !.row = i, !.status = rows[i].status, !.result = decision])
  /\ DocGoto(s, "decide")
  /\ UNCHANGED <<docTables, docHistory>>

\* A verified row is analysed again only when the client insists, so it may be.
BeginTrigger(s, i) ==
  /\ BeginDoc(s, "trigger", rows[i].doc)
  /\ Keep(s, [Begun(s, "trigger", rows[i].doc) EXCEPT !.row = i, !.status = rows[i].status, !.file = rows[i].file])
  /\ DocGoto(s, "analyse")
  /\ UNCHANGED <<docTables, docHistory>>

\* update_verification_status: a status equal to the one the session has read
\* is not written, whatever the row has become.
Decide(s) ==
  LET j == paper[s] IN
  /\ docAt[s] = "decide"
  /\ rows' = IF rows[j.row].doc = "none" \/ j.result = j.status THEN rows
             ELSE [rows EXCEPT ![j.row].status = j.result, ![j.row].face = j.face]
  /\ DocReturn(s)
  /\ UNCHANGED <<made, files, number, driver, docHistory>>

-----------------------------------------------------------------------------
(* get_driver_profile_service, and _verify_driver_eligibility before a ride   *)
(* is published: the standing follows the documents.                         *)

BeginSync(s) ==
  /\ BeginDoc(s, "sync", "selfie")
  /\ Keep(s, [Begun(s, "sync", "selfie") EXCEPT !.seen = driver]) /\ DocGoto(s, "kyc")
  /\ UNCHANGED <<docTables, docHistory>>

CheckKyc(s) ==
  /\ docAt[s] = "kyc"
  /\ Keep(s, [paper[s] EXCEPT !.kyc = Kyc]) /\ DocGoto(s, "settle")
  /\ UNCHANGED <<docTables, docHistory>>

Promoted(seen) ==
  [verified |-> TRUE, status |-> IF seen.status = "pending" THEN "active" ELSE seen.status]

Settle(s) ==
  LET j == paper[s] IN
  /\ docAt[s] = "settle"
  /\ driver' = IF j.kyc = j.seen.verified THEN driver
               ELSE Written(j.seen, IF j.kyc THEN Promoted(j.seen) ELSE Demoted(j.seen))
  /\ DocReturn(s)
  /\ UNCHANGED <<rows, made, files, number, docHistory>>

-----------------------------------------------------------------------------
(* update_driver_status_service: whether the driver is verified is not asked. *)

BeginStatus(s) ==
  /\ BeginDoc(s, "status", "selfie")
  /\ \E to \in Statuses : Keep(s, [Begun(s, "status", "selfie") EXCEPT !.seen = driver, !.to = to])
  /\ DocGoto(s, "status")
  /\ UNCHANGED <<docTables, docHistory>>

SetStatus(s) ==
  /\ docAt[s] = "status"
  /\ driver' = Written(paper[s].seen, [paper[s].seen EXCEPT !.status = paper[s].to])
  /\ byHand' = TRUE
  /\ DocReturn(s)
  /\ UNCHANGED <<rows, made, files, number, forgotten>>

-----------------------------------------------------------------------------
BeginAnyDoc(s) ==
  \/ \E d \in Docs : BeginUpload(s, d) \/ BeginDelete(s, d)
  \/ \E d \in IdDocs : BeginIdentity(s, d)
  \/ \E i \in 1 .. MaxRows : BeginReview(s, i) \/ BeginTrigger(s, i)
  \/ BeginPatch(s) \/ BeginSync(s) \/ BeginStatus(s)

DocStep(s) ==
  \/ Analyse(s) \/ InsertRow(s) \/ Attempt(s) \/ Revisit(s)
  \/ List(s) \/ Remove(s) \/ Unlink(s) \/ DeleteFails(s)
  \/ LoadDriver(s, "demote", "demoteWrite") \/ Demote(s)
  \/ LoadDriver(s, "align", "alignWrite") \/ Align(s)
  \/ WriteNumber(s) \/ RefreshNumber(s) \/ ReadNumber(s) \/ Persist(s)
  \/ Decide(s) \/ CheckKyc(s) \/ Settle(s) \/ SetStatus(s)

DocNext == \E s \in DocSessions : BeginAnyDoc(s) \/ DocStep(s)
DocSpec == DocInit /\ [][DocNext]_docVars

-----------------------------------------------------------------------------
\* Rows, files, numbers, the driver and the requests keep their shape.
DocsTypeOK ==
  /\ rows \in [1 .. MaxRows -> VerificationRows] /\ made \in 0 .. MaxRows
  /\ files \subseteq FileIds
  /\ number \in [IdDocs -> Numbers] /\ driver \in Standings
  /\ byHand \in BOOLEAN /\ forgotten \subseteq 1 .. MaxRows
  /\ docAt \in [DocSessions -> DocSteps] /\ paper \in [DocSessions -> Papers]

\* A profile change that has written the number and not yet deleted the rows
\* it had found, or is still to find.
Changing(d) ==
  \E s \in DocSessions :
    /\ paper[s].op = "patch"
    /\ \/ docAt[s] = "refresh" /\ paper[s].asked[d] # NoNumber
       \/ docAt[s] \in {"list", "remove"} /\ paper[s].doc = d
       \/ docAt[s] \in {"list", "remove", "demote", "demoteWrite"} /\ d \in paper[s].todo

\* No interleaving of profile changes, uploads, deletions and identity checks
\* leaves a document checked against a number the profile has no more, but
\* for the rows a profile change did not come to because a deletion failed.
IdentityMatchesProfile ==
  \A i \in 1 .. MaxRows :
    rows[i].doc \in IdDocs /\ rows[i].checked # NoNumber
      => rows[i].checked = number[rows[i].doc] \/ Changing(rows[i].doc) \/ i \in forgotten

\* is_verified and status are written by requests that each read them before
\* and write only what they find different, yet their races never make the two
\* disagree; only a status that was set by hand does.  A verified driver who is
\* pending would not become active again.
VerifiedIsActive == byHand \/ (driver.verified <=> driver.status = "active")

\* Face checks are run again after a selfie upload so that the order of the
\* uploads does not matter: once all is done, a document verified by its face
\* was matched with the newest selfie.
UploadOrderDoesNotMatter ==
  (\A s \in DocSessions : docAt[s] \in {"idle", "done"}) =>
    \A d \in IdDocs : RowsOf(d) # {} /\ RowsOf("selfie") # {} =>
      LET row == rows[Latest(RowsOf(d))] IN
      row.status = "verified" => row.face = rows[Latest(RowsOf("selfie"))].file
=============================================================================
