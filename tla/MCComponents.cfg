SPECIFICATION Spec
CONSTANTS
  s1 = s1
  s2 = s2
  p1 = p1
  p2 = p2
  e1 = e1
  e2 = e2
  Senders <- MCSenders
  Deciders = {"d1"}
  MaxCalls = 4
  MaxAsked = 2
  Stored <- MCSenders
  Paths <- MCPaths
  Execs <- MCExecs
  MaxHappened = 3
  MaxDecided = 1
  Messages = {"m"}
  MaxEmitted = 3
  Texts = {"a"}
  MaxSaid = 3
  Resumers <- MCSenders
  MaxMirrored = 2
  MaxScreens = 2
  MaxActions = 2
  MaxConns = 2
  Windows = {"w1", "w2"}
  MaxSubmits = 3
  Reviewers = {"cli", "http"}
  MaxShadows = 2
  MaxProposed = 1
  MaxLearned = 2
INVARIANTS NoCallLeftBehind NewestApprovalPending IndexFollowsRecords OpenReviewShown DeltasMakeTheLog BallFollowsCommand SyncedExactlyOnce MirrorComplete ListedOnce ScreenHasOneOwner KeyframeReachesStream ActionTakenOnce WizardFollowsSubmits VerdictOnce ShadowsAccounted
CHECK_DEADLOCK FALSE
