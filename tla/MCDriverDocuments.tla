-------------------------- MODULE MCDriverDocuments --------------------------
(***************************************************************************)
(* Instances of DriverDocuments for TLC.                                   *)
(***************************************************************************)
EXTENDS DriverDocuments

\* Three clients that between them may call every operation: a profile change
\* meets an upload or a deletion and, at once, an identity check, a status set
\* by hand, a review or the intent to take a new selfie.
ThreeClients ==
  [v1 |-> {"delete", "upload"},
   v2 |-> {"identity", "intent", "status", "review"},
   v3 |-> {"sync", "patch", "bundle", "trigger"}]

\* Two uploads, of any documents.
TwoUploads == [v1 |-> {"upload"}, v2 |-> {"upload"}]

CnicLicense == <<"cnic", "license">>
=============================================================================
