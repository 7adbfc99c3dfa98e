------------------------ MODULE ServiceProcess_proofs ------------------------
(* Theorems about ServiceProcess and EcsCredentials, for any number of      *)
(* threads and connections, any skew, limit, sleep and grace.               *)
EXTENDS ServiceProcess, TLAPS

-----------------------------------------------------------------------------
(* The cached pair.                                                        *)

\* The endpoint never hands out a credential that ends before one it gave.
EndpointLeads ==
  /\ cachedCredential <= current
  /\ \A t \in Threads : HasAnswer(t) => held[t] <= current

\* Unless answers were mixed, the expiry is never later than the credential, and
\* what is about to be stored is never older than what is there.
PairIsSafe ==
  ~contested =>
    /\ cachedExpiry <= cachedCredential
    /\ \A t \in Threads : HasAnswer(t) => cachedCredential <= held[t]
    /\ \A t \in Threads : step[t] = "stored" => cachedCredential = held[t]
    /\ \A t, u \in Threads : HasAnswer(t) /\ HasAnswer(u) => held[t] = held[u]

CredentialsInv == CredentialsTypeOK /\ EndpointLeads /\ PairIsSafe /\ HitOutlivesSkew

LEMMA CredentialsInitSafe == CredentialsInit => CredentialsInv
<1> SUFFICES ASSUME CredentialsInit PROVE CredentialsInv
  OBVIOUS
<1> USE CredentialsAssumption DEF CredentialsInit, None
<1>1. CredentialsTypeOK
  <2>1. cachedCredential \in None..Lifetime /\ cachedExpiry \in None..Lifetime
        /\ current \in 0..Lifetime
    OBVIOUS
  <2>2. step \in [Threads -> Steps]
    BY DEF Steps
  <2>3. held \in [Threads -> 0..Lifetime] /\ budget \in [Threads -> 0..Skew]
    OBVIOUS
  <2> QED  BY <2>1, <2>2, <2>3 DEF CredentialsTypeOK
<1>2. \A t \in Threads : ~HasAnswer(t) /\ step[t] # "stored" /\ step[t] # "hit"
  BY DEF HasAnswer
<1>3. EndpointLeads
  BY <1>2 DEF EndpointLeads
<1>4. PairIsSafe /\ HitOutlivesSkew
  BY <1>2 DEF PairIsSafe, HitOutlivesSkew
<1> QED  BY <1>1, <1>3, <1>4 DEF CredentialsInv

LEMMA EnterKeeps ==
  ASSUME CredentialsInv, NEW t \in Threads, Enter(t)
  PROVE  CredentialsInv'
<1> USE CredentialsAssumption DEF CredentialsInv, CredentialsTypeOK, Steps, None, Enter, cache
<1>1. CredentialsTypeOK'
  OBVIOUS
<1>2. EndpointLeads' /\ PairIsSafe'
  BY DEF EndpointLeads, PairIsSafe, HasAnswer
<1>3. HitOutlivesSkew'
  BY DEF HitOutlivesSkew, PairIsSafe, CacheIsFresh
<1> QED  BY <1>1, <1>2, <1>3

LEMMA LeaveKeeps ==
  ASSUME CredentialsInv, NEW t \in Threads, ReturnCached(t) \/ AskFails(t)
  PROVE  CredentialsInv'
<1> USE CredentialsAssumption
    DEF CredentialsInv, CredentialsTypeOK, Steps, None, ReturnCached, AskFails, cache
<1>1. CredentialsTypeOK'
  OBVIOUS
<1>2. EndpointLeads' /\ PairIsSafe'
  BY DEF EndpointLeads, PairIsSafe, HasAnswer
<1>3. HitOutlivesSkew'
  BY DEF HitOutlivesSkew
<1> QED  BY <1>1, <1>2, <1>3

LEMMA AnswerKeeps ==
  ASSUME CredentialsInv, NEW t \in Threads, Answer(t)
  PROVE  CredentialsInv'
<1> USE CredentialsAssumption DEF CredentialsInv, CredentialsTypeOK, Steps, None, Answer, cache
<1>1. CredentialsTypeOK'
  OBVIOUS
<1>2. EndpointLeads'
  BY DEF EndpointLeads, HasAnswer
<1>3. PairIsSafe'
  BY DEF PairIsSafe, EndpointLeads, HasAnswer
<1>4. HitOutlivesSkew'
  BY DEF HitOutlivesSkew
<1> QED  BY <1>1, <1>2, <1>3, <1>4

\* The credential is stored: it is no older than the one before it, so the
\* hits under way and the expiry beside it stay covered.
LEMMA StoreCredentialKeeps ==
  ASSUME CredentialsInv, NEW t \in Threads, Store(t), step[t] = "answered"
  PROVE  CredentialsInv'
<1> USE CredentialsAssumption DEF CredentialsInv, CredentialsTypeOK, Steps, None, Store
<1>1. CredentialsTypeOK'
  OBVIOUS
<1>2. EndpointLeads'
  BY DEF EndpointLeads, HasAnswer
<1>3. PairIsSafe'
  BY DEF PairIsSafe, HasAnswer
<1>4. HitOutlivesSkew'
  BY DEF HitOutlivesSkew, PairIsSafe, HasAnswer
<1> QED  BY <1>1, <1>2, <1>3, <1>4

\* The expiry is stored: it is that of the credential beside it, unless answers
\* were mixed, and a thread that ends alone leaves a pair of one answer.
LEMMA StoreExpiryKeeps ==
  ASSUME CredentialsInv, NEW t \in Threads, Store(t), step[t] = "stored"
  PROVE  CredentialsInv'
<1> USE CredentialsAssumption DEF CredentialsInv, CredentialsTypeOK, Steps, None, Store
<1>1. CredentialsTypeOK'
  BY DEF EndsAlone
<1>2. EndpointLeads'
  BY DEF EndpointLeads, HasAnswer
<1>3. CASE contested'
  BY <1>1, <1>2, <1>3 DEF PairIsSafe, HitOutlivesSkew
<1>4. CASE ~contested /\ ~contested'
  <2>1. PairIsSafe'
    BY <1>4 DEF PairIsSafe, HasAnswer
  <2>2. HitOutlivesSkew'
    BY <1>4 DEF HitOutlivesSkew
  <2> QED  BY <1>1, <1>2, <2>1, <2>2
<1>5. CASE contested /\ ~contested'
  <2>1. EndsAlone(t)
    BY <1>5
  <2>2. \A u \in Threads : ~HasAnswer(u)' /\ step'[u] # "hit"
    BY <2>1 DEF EndsAlone, HasAnswer
  <2>3. cachedCredential' = held[t] /\ cachedExpiry' = held[t]
    BY <2>1 DEF EndsAlone
  <2>4. PairIsSafe' /\ HitOutlivesSkew'
    BY <2>2, <2>3 DEF PairIsSafe, HitOutlivesSkew, HasAnswer
  <2> QED  BY <1>1, <1>2, <2>4
<1> QED  BY <1>3, <1>4, <1>5

LEMMA RotateKeeps ==
  ASSUME CredentialsInv, Rotate
  PROVE  CredentialsInv'
<1> USE CredentialsAssumption DEF CredentialsInv, CredentialsTypeOK, Steps, None, Rotate, cache
<1>1. CredentialsTypeOK'
  OBVIOUS
<1>2. EndpointLeads' /\ PairIsSafe'
  BY DEF EndpointLeads, PairIsSafe, HasAnswer
<1>3. HitOutlivesSkew'
  BY DEF HitOutlivesSkew
<1> QED  BY <1>1, <1>2, <1>3

\* Time left runs down without changing places.
LEMMA AgedKeepsOrder ==
  ASSUME NEW a \in Int, NEW b \in Int, a <= b
  PROVE  Aged(a) <= Aged(b) /\ Aged(a) \in Int
  BY DEF Aged

LEMMA AgeKeeps ==
  ASSUME CredentialsInv, CredentialsAge
  PROVE  CredentialsInv'
<1> USE CredentialsAssumption DEF CredentialsInv, CredentialsTypeOK, Steps, None, CredentialsAge
<1>1. CredentialsTypeOK'
  BY DEF Aged
<1>2. EndpointLeads'
  BY AgedKeepsOrder DEF EndpointLeads, HasAnswer
<1>3. PairIsSafe'
  BY AgedKeepsOrder DEF PairIsSafe, HasAnswer
<1>4. HitOutlivesSkew'
  BY DEF HitOutlivesSkew, Aged
<1> QED  BY <1>1, <1>2, <1>3, <1>4

-----------------------------------------------------------------------------
(* The process.                                                            *)

\* The tracker's time is that of the youngest request or younger.
IdleIsNoOlder == \A r \in Requests : request[r] = "handled" => idle <= age[r]

IInv == CredentialsInv /\ TypeOK /\ IdleIsNoOlder

LEMMA InitIsSound == Init => IInv
<1> SUFFICES ASSUME Init PROVE IInv
  OBVIOUS
<1>1. CredentialsInv
  BY CredentialsInitSafe DEF Init
<1>2. TypeOK
  <2>1. age \in [Requests -> 0..IdleLimit] /\ idle \in 0..IdleLimit
    BY ProcessAssumption DEF Init
  <2>2. nap \in 0..WatchdogSleep /\ grace \in 0..Grace
    BY ProcessAssumption DEF Init
  <2>3. request \in [Requests -> {"none", "accepted", "handled"}]
    BY DEF Init
  <2> QED  BY <1>1, <2>1, <2>2, <2>3 DEF Init, TypeOK, CredentialsInv
<1>3. IdleIsNoOlder
  BY DEF Init, IdleIsNoOlder
<1> QED  BY <1>1, <1>2, <1>3 DEF IInv

LEMMA RequestKeeps ==
  ASSUME IInv, NEW r \in Requests,
         \/ Accept(r)
         \/ \E public \in BOOLEAN, token \in {"missing", "wrong", "right"} : Track(r, public, token)
         \/ Respond(r)
         \/ HoldLoop(r)
  PROVE  IInv'
<1> USE ProcessAssumption DEF IInv
<1>1. UNCHANGED credentialVars
  BY DEF Accept, Track, Respond, HoldLoop
<1>2. CredentialsInv'
  BY <1>1 DEF credentialVars, cache, CredentialsInv, CredentialsTypeOK, EndpointLeads,
              PairIsSafe, HitOutlivesSkew, HasAnswer
<1>3. TypeOK'
  <2>1. CASE HoldLoop(r)
    BY <1>2, <2>1 DEF CredentialsInv, TypeOK, HoldLoop
  <2>2. CASE ~HoldLoop(r)
    BY <1>2, <2>2 DEF CredentialsInv, TypeOK, Accept, Track, Respond
  <2> QED  BY <2>1, <2>2
<1>4. IdleIsNoOlder'
  BY DEF IdleIsNoOlder, TypeOK, Accept, Track, Respond, HoldLoop
<1> QED  BY <1>2, <1>3, <1>4

LEMMA CallKeeps ==
  ASSUME IInv, NEW t \in Threads, Call(t)
  PROVE  IInv'
<1> USE DEF IInv
<1>1. CredentialsInv'
  <2>1. Store(t) => step[t] \in {"answered", "stored"}
    BY DEF Store
  <2> QED  BY <2>1, EnterKeeps, LeaveKeeps, AnswerKeeps, StoreCredentialKeeps,
              StoreExpiryKeeps DEF Call
<1>2. UNCHANGED lifeVars
  BY DEF Call, Works
<1>3. TypeOK' /\ IdleIsNoOlder'
  BY <1>1, <1>2 DEF lifeVars, TypeOK, CredentialsInv, IdleIsNoOlder
<1> QED  BY <1>1, <1>3

LEMMA StopKeeps ==
  ASSUME IInv, Watch \/ Exit \/ ReleaseLoop
  PROVE  IInv'
<1> USE ProcessAssumption DEF IInv
<1>1. UNCHANGED credentialVars
  BY DEF Watch, Exit, ReleaseLoop
<1>2. CredentialsInv'
  BY <1>1 DEF credentialVars, cache, CredentialsInv, CredentialsTypeOK, EndpointLeads,
              PairIsSafe, HitOutlivesSkew, HasAnswer
<1>3. TypeOK' /\ IdleIsNoOlder'
  <2>1. CASE Watch
    BY <1>2, <2>1 DEF CredentialsInv, TypeOK, IdleIsNoOlder, Watch
  <2>2. CASE Exit \/ ReleaseLoop
    BY <1>2, <2>2 DEF CredentialsInv, TypeOK, IdleIsNoOlder, Exit, ReleaseLoop
  <2> QED  BY <2>1, <2>2
<1> QED  BY <1>2, <1>3

LEMMA TimeKeeps ==
  ASSUME IInv, Tick \/ EndpointRotates
  PROVE  IInv'
<1> USE ProcessAssumption DEF IInv
<1>1. CredentialsInv'
  BY AgeKeeps, RotateKeeps DEF Tick, EndpointRotates
<1>2. CASE Tick
  <2>1. TypeOK'
    BY <1>1, <1>2 DEF CredentialsInv, TypeOK, Tick, Older, Aged
  <2>2. IdleIsNoOlder'
    BY <1>2 DEF TypeOK, IdleIsNoOlder, Tick, Older
  <2> QED  BY <1>1, <2>1, <2>2
<1>3. CASE EndpointRotates
  BY <1>1, <1>3 DEF EndpointRotates, lifeVars, CredentialsInv, TypeOK, IdleIsNoOlder
<1> QED  BY <1>2, <1>3

LEMMA StutterKeeps ==
  ASSUME IInv, UNCHANGED vars
  PROVE  IInv'
  BY DEF IInv, vars, credentialVars, cache, lifeVars, CredentialsInv, CredentialsTypeOK,
         EndpointLeads, PairIsSafe, HitOutlivesSkew, HasAnswer, TypeOK, IdleIsNoOlder

\* The inductive invariant of a process, for every pace of its threads.
THEOREM Invariance == Spec => []IInv
<1>1. Init => IInv
  BY InitIsSound
<1>2. IInv /\ [Next]_vars => IInv'
  BY RequestKeeps, CallKeeps, StopKeeps, TimeKeeps, StutterKeeps DEF Next
<1> QED  BY <1>1, <1>2, PTL DEF Spec

\* The cache, the threads and the clocks of a process keep their types.
THEOREM TypeCorrect == Spec => []TypeOK
<1>1. IInv => TypeOK
  BY DEF IInv
<1> QED  BY <1>1, Invariance, PTL

\* A credential from the cache outlives the skew, however many threads read and
\* refresh it (get_aws_security_credentials), unless different answers overlap.
THEOREM HitsAlwaysOutliveSkew == Spec => []HitOutlivesSkew
<1>1. IInv => HitOutlivesSkew
  BY DEF IInv, CredentialsInv
<1> QED  BY <1>1, Invariance, PTL

\* Only requests that passed the tracker at least the idle limit ago are under
\* way when the watchdog stops the process (_idle_shutdown_watchdog).
THEOREM YoungRequestsAreAlwaysSafe == Spec => YoungRequestsAreSafe
<1>1. IInv /\ [Next]_vars =>
        [process = "serving" /\ process' = "stopping" =>
           \A r \in Requests : request[r] = "handled" => age[r] >= IdleLimit]_vars
  <2> SUFFICES ASSUME IInv, Next, process = "serving", process' = "stopping",
                      NEW r \in Requests, request[r] = "handled"
               PROVE  age[r] >= IdleLimit
    OBVIOUS
  <2>1. Watch
    BY DEF Next, Accept, Track, Respond, HoldLoop, ReleaseLoop, Call, Works, Exit, Tick, EndpointRotates, lifeVars
  <2>2. idle >= IdleLimit /\ idle <= age[r]
    BY <2>1 DEF Watch, IInv, IdleIsNoOlder
  <2> QED  BY <2>2, ProcessAssumption DEF IInv, TypeOK
<1> QED  BY <1>1, Invariance, PTL DEF Spec, YoungRequestsAreSafe
=============================================================================
