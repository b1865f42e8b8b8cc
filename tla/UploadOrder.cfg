SPECIFICATION DocSpec
CONSTANTS
  DocSessions = {"v1", "v2"}
  Serves <- TwoUploads
  DocOrder <- CnicLicense
  Numbers = {n1}
  MaxRows = 7
  NoFile = NoFile
  NoNumber = NoNumber
INVARIANTS UploadOrderDoesNotMatter
CHECK_DEADLOCK FALSE
