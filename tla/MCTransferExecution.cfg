SPECIFICATION Spec
CONSTANTS
  u1 = u1 p1 = p1 d1 = d1
  Uploads = {u1}
  FileIds = {f1, f2, f3}
  Paths = {p1}
  Digests = {d1, d2}
  UploadPath <- OneUploadPath
  UploadSha <- OneUploadSha
  None = None
  MaxFaults = 3
  MaxEdits = 1
INVARIANTS MarkedOnce BaseIsDurable BaseMatchesRemote
PROPERTIES EvidenceIsKept UploadsAreRetried
