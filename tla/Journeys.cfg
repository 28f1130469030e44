SPECIFICATION FairSpec
CONSTANTS
  Attempts = {a1, a2}
  Contents = {b1, b2}
  UploadKeys = {saved}
  NoKey = none
  Kinds = {"browser", "inbox", "document", "transcription"}
  MaxMail = 2
INVARIANTS TypeOK LeaseIsClosed NoCodeSkipped CommitmentIsOwn FreshUnlessKeyed OneArtifactPerDocument
PROPERTIES JourneyEnds
