SPECIFICATION MediaFairSpec
CONSTANTS
  Requests = {r1, r2}
  Limits = {0, 1, 2}
  HlsRenditions = {hls}
  DownloadRenditions = {file}
  Direct = direct
  NoRequest = noRequest
  NoRendition = noRendition
PROPERTIES
  EveryRequestEnds
CHECK_DEADLOCK FALSE
