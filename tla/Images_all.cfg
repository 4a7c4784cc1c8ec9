SPECIFICATION Spec
CONSTANTS
  MaxId = 2
  MaxPath = 2
INVARIANTS IdAndDataAgree ReadyImageIsThere PushedIsTheTagged
  PathGoesWithTransport CopyGoesWhereItSays
