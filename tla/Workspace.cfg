SPECIFICATION FairSpec
CONSTANTS
  build = build
  release = release
  pilot = pilot
  Jobs = {build, release, pilot}
  Kind <- OneOfEach
  MaxEdits = 1
  MaxMishaps = 1
  None = None
INVARIANT SealedIsOfItsCommit
INVARIANT PilotIsOfItsLauncher
PROPERTY ReleaseIsUndisturbed
PROPERTY JobsEnd
