CONSTANTS
    Call = {c1, c2}
    FailureThreshold = 2
    ResetTimeout = 2
    Retries = 1
    Caller = {r1, r2}
    Host = {"api"}
    Resolution <- Names
    MaxRedirects = 1
    Provider = {p1}
    Shared = TRUE
    BaseHost = "api"
    MaxReads = 2
    KcCaller = {k1, k2}
    MaxGrants = 3
    Tab = {t1, t2}
    Transaction = {n1, n2, n3, n4}
    NoTransaction = NoTransaction
    MaxRestarts = 1
    BridgeApp = {"pasunestam-admin", "jeevamitra"}
    SignInApp = {"pasunestam-admin"}
SPECIFICATION OutboundSpec
INVARIANT TypeOK
INVARIANT StateIsEarned
INVARIANT ContactedIsPublic
INVARIANT AnswerIsTrue
INVARIANT LoneSignInSucceeds
INVARIANT SignOutIsTrue
PROPERTY BecomesReady
PROPERTY CallsReturn
PROPERTY RetriesAreBounded
PROPERTY OutboundCallsEnd
PROPERTY SignInRecovers
CHECK_DEADLOCK FALSE
