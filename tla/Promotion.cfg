SPECIFICATION FairSpec
CONSTANTS
  Directories <- MCDirectories
  Manifests <- MCManifests
  First <- MCFirst
  Runs = {r1, r2}
  Replicas = {near, far}
  None = none
INVARIANTS TypeOK WholeSetAdmitted WrittenOnce
PROPERTIES VerifiedIsLatest SdkFirst RunEnds
