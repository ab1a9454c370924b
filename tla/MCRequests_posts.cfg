SPECIFICATION Spec
CONSTANTS
  Identities <- MCIdentities
  Posts <- MCPosts
  Foreign <- MCForeign
  MaxName = 64
  MaxId = 160
  MaxInteger = 9
  MaxMessageBytes = 4
  MaxRequestBytes = 14
  MaxSyncRequestBytes = 40
  PostEnvelope = 1
  MessageEnvelope = 3
INVARIANTS
  TypeOK
  ReadsInside
  VerdictIsUnicode
  PeerNeverRefuses
  PeerStoresTheBody
