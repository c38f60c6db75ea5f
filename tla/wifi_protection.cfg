SPECIFICATION Spec
CONSTANTS
  a = a
  Sockets = {a}
  Contents <- MCContents
  NoContent <- MCNoContent
  MaxOpens = 3
  MaxFrames = 2
  MaxFailures = 2
  MaxOthers = 2
INVARIANT CommentIsFollowed
