SPECIFICATION MediaSpec
CONSTANTS
  Requests = {r1, r2, r3}
  Limits = {0, 1, 2}
  HlsRenditions = {hls}
  DownloadRenditions = {file}
  Direct = direct
  NoRequest = noRequest
  NoRendition = noRendition
SYMMETRY RequestSymmetry
INVARIANTS
  SlotAccounting
  OneGeneration
  RenditionIsWatched
PROPERTIES
  RenditionIsKept
  AdmissionSpec
CHECK_DEADLOCK FALSE
