------------------------ MODULE MCConflictResolution -----------------------
EXTENDS ConflictResolution

MCClaims == {"RemoteContentChanged", "NonOverlappingMarkdownChanges",
             "OverlappingTextChanges", "BothChangedWithoutExactBase",
             "LocalDeleteRemoteEdited", "SameExactRename"}

=============================================================================
