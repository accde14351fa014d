SPECIFICATION FairSpec
CONSTANTS
    MaxOutstanding = 3
    MaxInFlight = 5
INVARIANTS AnswerStillToCome WindowRespected FallbackNeverTaken
PROPERTIES BlockedRenderResumes
