CONSTANTS
  Topics = {t1, c1}
  CertTopics = {c1}
  MaxUpdates = 1
  MaxLoss = 2
  MaxSessions = 2
SPECIFICATION Spec
INVARIANT InSync
PROPERTY Converges
