---------------------------- MODULE EcsCredentials ----------------------------
(***************************************************************************)
(* EcsTaskRoleSupplier (llm/aws_ecs_supplier.py): the credential of the    *)
(* task and its expiry, cached in two attributes that are written one      *)
(* after the other.  One supplier serves a whole process; the clients of   *)
(* the model calls come to it from the event loop and from the threads of  *)
(* the guardrail pool, without a lock.                                     *)
(*                                                                         *)
(* A credential is the time it has left.  All such times run down together *)
(* (CredentialsAge), so two credentials are the same when they have the    *)
(* same time left, down to 0, where all are dead.                          *)
(***************************************************************************)
EXTENDS Integers

CONSTANTS
  Threads,   \* the threads that may need a credential
  Skew,      \* EXPIRY_SKEW_SECONDS
  Lifetime   \* the longest life of a credential

ASSUME CredentialsAssumption == Skew \in Nat /\ Lifetime \in Nat

VARIABLES
  cachedCredential,  \* _cached_credentials
  cachedExpiry,      \* _cached_expiry
  current,           \* the credential that the metadata endpoint hands out
  step,              \* where each thread is in get_aws_security_credentials
  held,              \* the local credential of each thread
  budget,            \* history: of the skew a hit was granted, what is left
  contested          \* history: refreshes with different answers overlapped

cache == <<cachedCredential, cachedExpiry>>
credentialVars == <<cache, current, step, held, budget, contested>>

None == -1   \* None

Steps == {"out", "asking", "answered", "stored", "hit"}

CredentialsTypeOK ==
  /\ cachedCredential \in None..Lifetime
  /\ cachedExpiry \in None..Lifetime
  /\ current \in 0..Lifetime
  /\ step \in [Threads -> Steps]
  /\ held \in [Threads -> 0..Lifetime]
  /\ budget \in [Threads -> 0..Skew]
  /\ contested \in BOOLEAN

CredentialsInit ==
  /\ cachedCredential = None
  /\ cachedExpiry = None
  /\ current = Lifetime
  /\ step = [t \in Threads |-> "out"]
  /\ held = [t \in Threads |-> 0]
  /\ budget = [t \in Threads |-> 0]
  /\ contested = FALSE

-----------------------------------------------------------------------------
(* The threads.                                                            *)

\* The cached pair is good for longer than the skew.
CacheIsFresh == cachedCredential # None /\ Skew < cachedExpiry

\* The thread has an answer of the endpoint that is not in the cache yet.
HasAnswer(t) == step[t] \in {"answered", "stored"}

\* The test of the cache; a thread that finds it stale asks the endpoint.
Enter(t) ==
  /\ step[t] = "out"
  /\ IF CacheIsFresh
       THEN /\ step' = [step EXCEPT ![t] = "hit"]
            /\ budget' = [budget EXCEPT ![t] = Skew]
       ELSE step' = [step EXCEPT ![t] = "asking"] /\ UNCHANGED budget
  /\ UNCHANGED <<cache, current, held, contested>>

\* The credential is read again, after the test of the expiry.
ReturnCached(t) ==
  /\ step[t] = "hit"
  /\ step' = [step EXCEPT ![t] = "out"]
  /\ budget' = [budget EXCEPT ![t] = 0]
  /\ UNCHANGED <<cache, current, held, contested>>

\* The endpoint answers, and nothing is wrong with the answer.
Answer(t) ==
  /\ step[t] = "asking"
  /\ step' = [step EXCEPT ![t] = "answered"]
  /\ held' = [held EXCEPT ![t] = current]
  /\ contested' = (contested \/ \E u \in Threads \ {t} : HasAnswer(u) /\ held[u] # current)
  /\ UNCHANGED <<cache, current, budget>>

\* No address or token file, no answer, another status, not an object, a field
\* that is missing, an expiry that is no timestamp: RefreshError, and the cache
\* keeps what it has.
AskFails(t) ==
  /\ step[t] = "asking"
  /\ step' = [step EXCEPT ![t] = "out"]
  /\ UNCHANGED <<cache, current, held, budget, contested>>

\* The refresh of t leaves the pair as it should be when it ends alone, with its
\* own credential in the cache.
EndsAlone(t) ==
  /\ cachedCredential' = held[t]
  /\ cachedExpiry' = held[t]
  /\ \A u \in Threads \ {t} : ~HasAnswer(u) /\ step[u] # "hit"

\* Faulty variants (a name ending in Mutant) are not part of the model: each is
\* a bug the next definition could have, which a property must tell apart.
StoreMutant(t) ==
  /\ \/ /\ step[t] = "answered"
        /\ cachedExpiry' = held[t]
        /\ step' = [step EXCEPT ![t] = "stored"]
        /\ UNCHANGED <<cachedCredential, contested>>
     \/ /\ step[t] = "stored"
        /\ cachedCredential' = held[t]
        /\ step' = [step EXCEPT ![t] = "out"]
        /\ UNCHANGED cachedExpiry
        /\ contested' = (contested /\ ~EndsAlone(t))
  /\ UNCHANGED <<current, held, budget>>

\* Two assignments, the credential first; the thread returns what it holds.
Store(t) ==
  /\ \/ /\ step[t] = "answered"
        /\ cachedCredential' = held[t]
        /\ step' = [step EXCEPT ![t] = "stored"]
        /\ UNCHANGED <<cachedExpiry, contested>>
     \/ /\ step[t] = "stored"
        /\ cachedExpiry' = held[t]
        /\ step' = [step EXCEPT ![t] = "out"]
        /\ UNCHANGED cachedCredential
        /\ contested' = (contested /\ ~EndsAlone(t))
  /\ UNCHANGED <<current, held, budget>>

-----------------------------------------------------------------------------
(* The metadata endpoint, and time.                                        *)

\* A new credential lasts longer than the one before it.
Rotate ==
  /\ current' \in (current + 1)..Lifetime
  /\ UNCHANGED <<cache, step, held, budget, contested>>

Aged(life) == IF life > 0 THEN life - 1 ELSE life

CredentialsAge ==
  /\ cachedCredential' = Aged(cachedCredential)
  /\ cachedExpiry' = Aged(cachedExpiry)
  /\ current' = Aged(current)
  /\ held' = [t \in Threads |-> Aged(held[t])]
  /\ budget' = [t \in Threads |-> Aged(budget[t])]
  /\ UNCHANGED <<step, contested>>

-----------------------------------------------------------------------------
(* Properties                                                              *)

\* A credential taken from the cache is alive for as long as the skew of the
\* test promised (aws_ecs_supplier.py:39-44), although the expiry that was
\* tested and the credential that is returned are read and written apart by
\* other threads: the credential is written before its expiry, so the expiry is
\* never the later one.  Two refreshes that got different answers and overlap
\* are the exception: they may leave the old credential beside the new expiry.
HitOutlivesSkew ==
  ~contested => \A t \in Threads :
    step[t] = "hit" /\ budget[t] > 0 => cachedCredential >= budget[t]
=============================================================================
