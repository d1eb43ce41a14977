--------------------------- MODULE ComponentsProofs ---------------------------
(***************************************************************************)
(* Proofs about CircuitBreaker, ModelFactory, ShadowMode and VaultSecrets, *)
(* and about Components: every behaviour of it is a behaviour of each      *)
(* component, so what is proved of a component holds of the composition.   *)
(* The theorems hold for any callers, requests, predictions and clients,   *)
(* and for any thresholds, timeouts and limits.                            *)
(***************************************************************************)
EXTENDS Components, AnomalyBufferProofs, KafkaConsumerProofs

-----------------------------------------------------------------------------
(* CircuitBreaker.                                                         *)

\* Nothing has cut the open period short, or it is over, or the circuit is still OPEN and
\* every thread that could change that, or start a call, was midway when it opened.
Shed ==
    \/ openedAt = 0 \/ breakerClock - openedAt >= RecoveryTimeout
    \/ /\ circuit = "OPEN" /\ lastFailure >= openedAt
       /\ \A c \in Callers : call[c] \in Midway => c \in caught

BreakerInv == BreakerTypeOK /\ Shed

LEMMA BreakerInitInv == BreakerInit => BreakerInv
  BY BreakerAssumption
  DEF BreakerInit, BreakerInv, BreakerTypeOK, Shed, Points, Midway

\* The steps of a thread preserve the type invariant.
LEMMA BreakerTypeStep == BreakerTypeOK /\ [BreakerNext]_breakerVars => BreakerTypeOK'
<1> USE BreakerAssumption DEF BreakerTypeOK, Points, Midway
<1> SUFFICES ASSUME BreakerTypeOK, [BreakerNext]_breakerVars PROVE BreakerTypeOK'
  OBVIOUS
<1>1. CASE BreakerTick
  BY <1>1 DEF BreakerTick, shared
<1>2. ASSUME NEW c \in Callers, Check(c) PROVE BreakerTypeOK'
  BY <1>2 DEF Check, Go, Load, shared
<1>3. ASSUME NEW c \in Callers, HalfOpen(c) PROVE BreakerTypeOK'
  BY <1>3 DEF HalfOpen, Overwrite, Go
<1>4. ASSUME NEW c \in Callers, OnSuccess(c) PROVE BreakerTypeOK'
  BY <1>4 DEF OnSuccess, Go
<1>5. ASSUME NEW c \in Callers, CountSuccess(c) PROVE BreakerTypeOK'
  BY <1>5 DEF CountSuccess, Go, Load
<1>6. ASSUME NEW c \in Callers, Close(c) PROVE BreakerTypeOK'
  BY <1>6 DEF Close, Overwrite, Go
<1>7. ASSUME NEW c \in Callers, OnFailure(c) PROVE BreakerTypeOK'
  BY <1>7 DEF OnFailure, Go, Load
<1>12. ASSUME NEW c \in Callers, Stamp(c) PROVE BreakerTypeOK'
  BY <1>12 DEF Stamp, Go, Load
<1>8. ASSUME NEW c \in Callers, Judge(c) PROVE BreakerTypeOK'
  BY <1>8 DEF Judge, Go, shared
<1>9. ASSUME NEW c \in Callers, Open(c) PROVE BreakerTypeOK'
  BY <1>9 DEF Open
<1>10. ASSUME NEW c \in Callers, Reopened(c) PROVE BreakerTypeOK'
  BY <1>10 DEF Reopened, Go
<1>11. CASE UNCHANGED breakerVars
  BY <1>11 DEF breakerVars, shared
<1> QED BY <1>1, <1>2, <1>3, <1>4, <1>5, <1>6, <1>7, <1>8, <1>9, <1>10, <1>11, <1>12
        DEF BreakerNext

\* An open period ends only with time or through a thread that was midway.
LEMMA ShedStep == BreakerInv /\ [BreakerNext]_breakerVars => Shed'
<1> USE BreakerAssumption DEF BreakerInv, BreakerTypeOK, Shed, Midway
<1> SUFFICES ASSUME BreakerInv, [BreakerNext]_breakerVars PROVE Shed'
  OBVIOUS
<1>1. CASE BreakerTick
  BY <1>1 DEF BreakerTick, shared
<1>2. ASSUME NEW c \in Callers, Check(c) PROVE Shed'
  BY <1>2 DEF Check, Go, Load, shared
<1>3. ASSUME NEW c \in Callers, HalfOpen(c) PROVE Shed'
  BY <1>3 DEF HalfOpen, Overwrite, Go
<1>4. ASSUME NEW c \in Callers, OnSuccess(c) PROVE Shed'
  BY <1>4 DEF OnSuccess, Go
<1>5. ASSUME NEW c \in Callers, CountSuccess(c) PROVE Shed'
  BY <1>5 DEF CountSuccess, Go, Load
<1>6. ASSUME NEW c \in Callers, Close(c) PROVE Shed'
  BY <1>6 DEF Close, Overwrite, Go
<1>7. ASSUME NEW c \in Callers, OnFailure(c) PROVE Shed'
  BY <1>7 DEF OnFailure, Go, Load
<1>12. ASSUME NEW c \in Callers, Stamp(c) PROVE Shed'
  BY <1>12 DEF Stamp, Go, Load
<1>8. ASSUME NEW c \in Callers, Judge(c) PROVE Shed'
  BY <1>8 DEF Judge, Go, shared
<1>9. ASSUME NEW c \in Callers, Open(c) PROVE Shed'
  BY <1>9 DEF Open
<1>10. ASSUME NEW c \in Callers, Reopened(c) PROVE Shed'
  BY <1>10 DEF Reopened, Go
<1>11. CASE UNCHANGED breakerVars
  BY <1>11 DEF breakerVars, shared
<1> QED BY <1>1, <1>2, <1>3, <1>4, <1>5, <1>6, <1>7, <1>8, <1>9, <1>10, <1>11, <1>12
        DEF BreakerNext

\* What every reachable state of the circuit breaker satisfies.
THEOREM BreakerInvariant == BreakerSpec => []BreakerInv
<1>1. BreakerInv /\ [BreakerNext]_breakerVars => BreakerInv'
  BY BreakerTypeStep, ShedStep DEF BreakerInv
<1> QED BY <1>1, BreakerInitInv, PTL DEF BreakerSpec

\* An open circuit sheds every call for RecoveryTimeout, but for what threads that were
\* midway when it opened still do (load_balancer.py, CircuitBreaker.call).
THEOREM OpenCircuitSheds == BreakerSpec => OpenSheds
<1>1. BreakerInv /\ [BreakerNext]_breakerVars =>
        [\A c \in Callers : Starts(c) =>
            \/ openedAt = 0 \/ breakerClock - openedAt >= RecoveryTimeout
            \/ c \in caught]_breakerVars
  <2> SUFFICES ASSUME BreakerInv, BreakerNext, NEW c \in Callers, Starts(c)
               PROVE  \/ openedAt = 0 \/ breakerClock - openedAt >= RecoveryTimeout
                      \/ c \in caught
    OBVIOUS
  <2>1. CASE call[c] = "halfOpen"
    BY <2>1 DEF BreakerInv, Shed, Midway
  <2>2. CASE call[c] = "idle"
    <3>1. circuit # "OPEN"
      BY <2>2 DEF Starts, BreakerInv, BreakerTypeOK, BreakerNext, BreakerTick, Check, HalfOpen,
                  OnSuccess, CountSuccess, Close, OnFailure, Stamp, Judge, Open, Reopened, Go
    <3> QED BY <3>1 DEF BreakerInv, Shed
  <2> QED BY <2>1, <2>2 DEF Starts
<1> QED BY <1>1, BreakerInvariant, PTL DEF BreakerSpec, OpenSheds

-----------------------------------------------------------------------------
(* ModelFactory.                                                           *)

\* The module's global, once set, stays set: everything that was handed out, and every
\* request that began late, relies on that.
SingletonKept ==
    /\ singleton # NoModel => singleton \in loaded
    /\ cachedModel # NoModel => cachedModel \in loaded /\ singleton # NoModel
    /\ \A r \in Requests :
         /\ request[r] = "new" => r \notin latecomers /\ r \notin loaded
         /\ request[r] = "found" => cachedModel # NoModel \/ resets > 0
         /\ request[r] = "returning" => singleton # NoModel
         /\ request[r] \in {"storing", "answered"} => model[r] \in loaded /\ singleton # NoModel
    /\ latecomers # {} => singleton # NoModel

FactoryInv == FactoryTypeOK /\ SingletonKept /\ LatecomersShare

LEMMA FactoryInitInv == FactoryInit => FactoryInv
  BY FactoryAssumption DEF FactoryInit, FactoryInv, FactoryTypeOK, SingletonKept, LatecomersShare

LEMMA FactoryStepInv == FactoryInv /\ [FactoryNext]_factoryVars => FactoryInv'
<1> USE FactoryAssumption DEF FactoryInv, FactoryTypeOK, SingletonKept, LatecomersShare
<1> SUFFICES ASSUME FactoryInv, [FactoryNext]_factoryVars PROVE FactoryInv'
  OBVIOUS
<1>1. CASE ResetModels
  BY <1>1 DEF ResetModels
<1>2. ASSUME NEW r \in Requests, CreateModel(r) PROVE FactoryInv'
  BY <1>2 DEF CreateModel
<1>3. ASSUME NEW r \in Requests, TakeCached(r) PROVE FactoryInv'
  BY <1>3 DEF TakeCached
<1>4. ASSUME NEW r \in Requests, GetAnalyzer(r) PROVE FactoryInv'
  BY <1>4 DEF GetAnalyzer
<1>5. ASSUME NEW r \in Requests, ModelLoaded(r) PROVE FactoryInv'
  BY <1>5 DEF ModelLoaded
<1>6. ASSUME NEW r \in Requests, ReturnSingleton(r) PROVE FactoryInv'
  BY <1>6 DEF ReturnSingleton
<1>7. ASSUME NEW r \in Requests, StoreModel(r) PROVE FactoryInv'
  BY <1>7 DEF StoreModel
<1>8. CASE UNCHANGED factoryVars
  BY <1>8 DEF factoryVars
<1> QED BY <1>1, <1>2, <1>3, <1>4, <1>5, <1>6, <1>7, <1>8 DEF FactoryNext

\* What every reachable state of the factory satisfies.
THEOREM FactoryInvariant == FactorySpec => []FactoryInv
  BY FactoryInitInv, FactoryStepInv, PTL DEF FactorySpec

\* Until a reset, requests that begin when an instance has been loaded load none, do not
\* fail and are answered with a loaded instance (models/factory.py, create_model).
THEOREM LatecomersShareOne == FactorySpec => []LatecomersShare
<1>1. FactoryInv => LatecomersShare BY DEF FactoryInv
<1> QED BY <1>1, FactoryInvariant, PTL

-----------------------------------------------------------------------------
(* ShadowMode.                                                             *)

\* While stop() waits, what ran when it was called and still runs is among the tasks it
\* gathered; and nothing that ran then is started a second time.
GatheredComplete ==
    /\ asyncDispatch /\ shadowStop = "waiting" =>
           \A p \in runningAtStop : prediction[p] \in Alive => p \in gathered
    /\ \A p \in runningAtStop : prediction[p] \notin {"none", "sampled"}

ShadowInv == ShadowTypeOK /\ StopSettles /\ GatheredComplete

\* The part of the type invariant that is about numbers, and the rest of it.
CountersTyped == shadowStops \in 0..MaxShadowStops

OthersTyped ==
    /\ shadowEnabled \in BOOLEAN /\ shadowModel \in BOOLEAN /\ asyncDispatch \in BOOLEAN
    /\ shadowStarted \in BOOLEAN
    /\ prediction \in [Predictions -> {"none", "sampled", "running", "cancelled",
                                       "settled", "dropped"}]
    /\ pendingTasks \subseteq Predictions
    /\ shadowStop \in {"no", "waiting"}
    /\ gathered \subseteq Predictions
    /\ runningAtStop \subseteq Predictions

LEMMA ShadowInitInv == ShadowInit => ShadowInv
<1> SUFFICES ASSUME ShadowInit PROVE ShadowInv
  OBVIOUS
<1> USE DEF ShadowInit
<1>1. CountersTyped BY ShadowAssumption DEF CountersTyped
<1>2. OthersTyped BY DEF OthersTyped
<1>3. StopSettles BY DEF StopSettles, Alive
<1>4. GatheredComplete BY DEF GatheredComplete
<1> QED BY <1>1, <1>2, <1>3, <1>4
        DEF ShadowInv, ShadowTypeOK, CountersTyped, OthersTyped

LEMMA ShadowStepInv == ShadowInv /\ [ShadowNext]_shadowVars => ShadowInv'
<1> SUFFICES ASSUME ShadowInv, [ShadowNext]_shadowVars PROVE ShadowInv'
  OBVIOUS
<1>1. CountersTyped /\ OthersTyped /\ StopSettles /\ GatheredComplete
  BY DEF ShadowInv, ShadowTypeOK, CountersTyped, OthersTyped
<1>2. CountersTyped'
  BY <1>1, ShadowAssumption
  DEF CountersTyped, ShadowNext, StartShadow, StopShadow, StopTimesOut, ShadowStopped,
      Sample, Dispatch, Settle, DoneCallback, shadowVars
<1>3. OthersTyped'
  <2> USE <1>1 DEF OthersTyped
  <2>1. CASE StartShadow
    BY <2>1 DEF StartShadow
  <2>2. CASE StopShadow
    BY <2>2 DEF StopShadow
  <2>3. CASE StopTimesOut
    BY <2>3 DEF StopTimesOut
  <2>4. CASE ShadowStopped
    BY <2>4 DEF ShadowStopped
  <2>5. ASSUME NEW p \in Predictions, Sample(p) PROVE OthersTyped'
    BY <2>5 DEF Sample
  <2>6. ASSUME NEW p \in Predictions, Dispatch(p) PROVE OthersTyped'
    BY <2>6 DEF Dispatch
  <2>7. ASSUME NEW p \in Predictions, Settle(p) PROVE OthersTyped'
    BY <2>7 DEF Settle
  <2>8. ASSUME NEW p \in Predictions, DoneCallback(p) PROVE OthersTyped'
    BY <2>8 DEF DoneCallback
  <2>9. CASE UNCHANGED shadowVars
    BY <2>9 DEF shadowVars
  <2> QED BY <2>1, <2>2, <2>3, <2>4, <2>5, <2>6, <2>7, <2>8, <2>9 DEF ShadowNext
<1>4. StopSettles' /\ GatheredComplete'
  <2> USE <1>1 DEF OthersTyped, StopSettles, GatheredComplete, Alive
  <2>1. CASE StartShadow
    BY <2>1 DEF StartShadow
  <2>2. CASE StopShadow
    BY <2>2 DEF StopShadow
  <2>3. CASE StopTimesOut
    BY <2>3 DEF StopTimesOut
  <2>4. CASE ShadowStopped
    BY <2>4 DEF ShadowStopped
  <2>5. ASSUME NEW p \in Predictions, Sample(p) PROVE StopSettles' /\ GatheredComplete'
    BY <2>5 DEF Sample
  <2>6. ASSUME NEW p \in Predictions, Dispatch(p) PROVE StopSettles' /\ GatheredComplete'
    <3>1. CASE ~asyncDispatch
      BY <2>6, <3>1 DEF Dispatch
    <3>2. CASE asyncDispatch /\ ~Shadowing
      BY <2>6, <3>2 DEF Dispatch
    <3>3. CASE asyncDispatch /\ Shadowing
      <4>1. /\ asyncDispatch' = asyncDispatch /\ shadowStop' = shadowStop
            /\ gathered' = gathered /\ runningAtStop' = runningAtStop
            /\ pendingTasks' = pendingTasks \cup {p}
            /\ prediction' = [prediction EXCEPT ![p] = "running"]
            /\ prediction[p] = "sampled"
        BY <2>6, <3>3 DEF Dispatch
      <4> QED BY <3>3, <4>1
    <3> QED BY <3>1, <3>2, <3>3
  <2>7. ASSUME NEW p \in Predictions, Settle(p) PROVE StopSettles' /\ GatheredComplete'
    BY <2>7 DEF Settle
  <2>8. ASSUME NEW p \in Predictions, DoneCallback(p) PROVE StopSettles' /\ GatheredComplete'
    BY <2>8 DEF DoneCallback
  <2>9. CASE UNCHANGED shadowVars
    BY <2>9 DEF shadowVars
  <2> QED BY <2>1, <2>2, <2>3, <2>4, <2>5, <2>6, <2>7, <2>8, <2>9 DEF ShadowNext
<1> QED BY <1>2, <1>3, <1>4 DEF ShadowInv, ShadowTypeOK, CountersTyped, OthersTyped

\* What every reachable state of the shadow mode service satisfies.
THEOREM ShadowInvariant == ShadowSpec => []ShadowInv
  BY ShadowInitInv, ShadowStepInv, PTL DEF ShadowSpec

\* stop() leaves none of the predictions running that ran when it was called
\* (ShadowModeService.stop).
THEOREM StopSettlesAll == ShadowSpec => []StopSettles
<1>1. ShadowInv => StopSettles BY DEF ShadowInv
<1> QED BY <1>1, ShadowInvariant, PTL

-----------------------------------------------------------------------------
(* VaultSecrets.                                                           *)

\* As far as Vault knows, version v was current at time t.
CurrentAt(v, t) == v \in 1..Current /\ (v < Current => vault[v + 1] >= t)

\* A call in the state r knows a version that is in Vault: one that was current when
\* Vault read it, at most ReadTime ago, and no older than what a set_secret had
\* completed when the call began.
CallRight(r) ==
    /\ r.floor <= stored
    /\ r.at = "fetched" =>
           /\ CurrentAt(r.version, r.since)
           /\ r.since <= vaultClock /\ vaultClock <= r.since + ReadTime
           /\ r.floor <= r.version
    /\ r.at = "wrote" => r.version \in 1..Current

\* The cached version was current at most ReadTime before it was cached, and an entry
\* older than a completed set_secret was put there by a read that set_secret overtook.
EntryRight(e) ==
    /\ CurrentAt(e.version, e.time - ReadTime)
    /\ e.version < stored => overtaken

VaultInv ==
    /\ VaultTypeOK
    /\ stored <= Current
    /\ \A i \in 1..Current : vault[i] <= vaultClock
    /\ \A c \in Clients : CallRight(client[c])
    /\ secretCache # NoEntry => EntryRight(secretCache)

CallState == [at : {"idle", "asking", "fetched", "writing", "wrote"},
              version : 0..MaxVersions, since : Nat, floor : 0..MaxVersions]

\* Vault gets no version or one more: what was current at an earlier time still was.
VaultGrows ==
    /\ vaultClock' = vaultClock
    /\ \/ UNCHANGED vault
       \/ Current < MaxVersions /\ vault' = Append(vault, vaultClock)

StillCurrent == \A v \in Nat, t \in Int : t <= vaultClock /\ CurrentAt(v, t) => CurrentAt(v, t)'

LEMMA VaultGrown ==
    ASSUME VaultInv, VaultGrows
    PROVE  /\ vault' \in Seq(Nat) /\ Current' \in 1..MaxVersions /\ Current <= Current'
           /\ \A i \in 1..Current' : vault'[i] <= vaultClock'
           /\ StillCurrent
<1> USE VaultAssumption DEF VaultInv, VaultTypeOK, Current, CurrentAt, StillCurrent
<1>1. CASE UNCHANGED vault
  BY <1>1 DEF VaultGrows
<1>2. CASE Len(vault) < MaxVersions /\ vault' = Append(vault, vaultClock)
  BY <1>2 DEF VaultGrows
<1> QED
  BY <1>1, <1>2 DEF VaultGrows

LEMMA VaultInitInv == VaultInit => VaultInv
<1> SUFFICES ASSUME VaultInit PROVE VaultInv
  OBVIOUS
<1>1. Current = 1 /\ vault[1] = 0 /\ vault \in Seq(Nat)
  BY DEF VaultInit, Current
<1>2. Resting \in CallState
  BY VaultAssumption DEF Resting, CallState
<1>3. client \in [Clients -> CallState]
  BY <1>2 DEF VaultInit
<1>4. VaultTypeOK
  <2>1. Current \in 1..MaxVersions /\ stored \in 0..MaxVersions /\ vaultClock \in Nat
    BY <1>1, VaultAssumption DEF VaultInit
  <2>2. secretCache = NoEntry /\ overtaken \in BOOLEAN
    BY DEF VaultInit
  <2> QED
    BY <1>1, <1>3, <2>1, <2>2 DEF VaultTypeOK, CallState
<1> QED
  BY <1>1, <1>4 DEF VaultInit, VaultInv, CallRight, Resting

LEMMA RestingState == Resting \in CallState
  BY VaultAssumption DEF Resting, CallState

LEMMA AtRest ==
    ASSUME NEW c, client'[c] = Resting, stored' \in Nat PROVE CallRight(client[c])'
  BY VaultAssumption DEF Resting, CallRight

\* Every call stays where it is or moves to where it is right to be.
CallsMove ==
    /\ client' \in [Clients -> CallState]
    /\ \A d \in Clients : client'[d] = client[d] \/ CallRight(client[d])'

\* A step of Vault or of a call that touches neither the cache nor the clock.
LEMMA VaultMoves ==
    ASSUME VaultInv, VaultGrows, CallsMove, UNCHANGED <<secretCache, stored, overtaken>>
    PROVE  VaultInv'
<1>1. /\ vault' \in Seq(Nat) /\ Current' \in 1..MaxVersions /\ Current <= Current'
      /\ \A i \in 1..Current' : vault'[i] <= vaultClock'
      /\ StillCurrent
  BY VaultGrown
<1>2. VaultTypeOK'
  BY <1>1 DEF VaultInv, VaultTypeOK, VaultGrows, CallsMove, CallState, Current
<1>3. stored' <= Current'
  BY <1>1 DEF VaultInv, VaultTypeOK
<1>4. ASSUME NEW d \in Clients PROVE CallRight(client[d])'
  <2>1. CASE client'[d] = client[d]
    <3>1. client[d] \in CallState /\ CallRight(client[d])
      BY DEF VaultInv, VaultTypeOK, CallState
    <3>2. ASSUME client[d].at = "fetched" PROVE CurrentAt(client[d].version, client[d].since)'
      <4> DEFINE r == client[d]
      <4>1. r' = r /\ r.version \in Nat /\ r.since \in Int /\ r.since <= vaultClock
            /\ CurrentAt(r.version, r.since)
        BY <2>1, <3>1, <3>2 DEF CallState, CallRight
      <4>2. \A v \in Nat, t \in Int :
                t <= vaultClock /\ CurrentAt(v, t) => CurrentAt(v, t)'
        BY <1>1 DEF StillCurrent
      <4> HIDE DEF r
      <4>3. \A v, t : v = v /\ CurrentAt(v, t)' => CurrentAt(v, t)'
        OBVIOUS
      <4>4. CurrentAt(r.version, r.since)'
        BY <4>1, <4>2 DEF CurrentAt
      <4> QED
        BY <4>4 DEF r
    <3> QED
      BY <1>1, <2>1, <3>1, <3>2, VaultAssumption
      DEF CallState, CallRight, VaultGrows, VaultInv, VaultTypeOK
  <2> QED
    BY <2>1 DEF CallsMove
<1>5. secretCache # NoEntry => EntryRight(secretCache)'
  <2>1. ASSUME secretCache # NoEntry
        PROVE  /\ secretCache.version \in 1..MaxVersions /\ secretCache.time \in 0..vaultClock
               /\ EntryRight(secretCache)
    BY <2>1 DEF VaultInv, VaultTypeOK
  <2>2. ASSUME secretCache # NoEntry
        PROVE  CurrentAt(secretCache.version, secretCache.time - ReadTime)'
    <3>1. secretCache.time - ReadTime \in Int /\ secretCache.time - ReadTime <= vaultClock
      BY <2>1, <2>2, VaultAssumption DEF VaultInv, VaultTypeOK
    <3>2. CurrentAt(secretCache.version, secretCache.time - ReadTime)
      BY <2>1, <2>2 DEF EntryRight
    <3> DEFINE v == secretCache.version
               t == secretCache.time - ReadTime
    <3>3. v' = v /\ t' = t
      OBVIOUS
    <3>4. v \in Nat
      BY <2>1, <2>2, VaultAssumption
    <3> HIDE DEF v, t
    <3>5. ASSUME NEW w \in Nat, NEW s \in Int, CurrentAt(w, s), s <= vaultClock
          PROVE  CurrentAt(w, s)'
      BY <3>5, <1>1 DEF StillCurrent
    <3> QED
      BY <3>1, <3>2, <3>3, <3>4, <3>5 DEF v, t, CurrentAt
  <2> QED
    BY <2>1, <2>2 DEF EntryRight
<1> QED
  BY <1>1, <1>2, <1>3, <1>4, <1>5 DEF VaultInv

LEMMA VaultStepInv == VaultInv /\ [VaultNext]_vaultVars => VaultInv'
<1> USE VaultAssumption
<1> SUFFICES ASSUME VaultInv, [VaultNext]_vaultVars PROVE VaultInv'
  OBVIOUS
<1>0. /\ vault \in Seq(Nat) /\ Current \in 1..MaxVersions
      /\ client \in [Clients -> CallState]
      /\ vaultClock \in Nat
      /\ stored \in 0..MaxVersions
  BY DEF VaultInv, VaultTypeOK, CallState
<1>1. CASE VaultTick
  BY <1>1 DEF VaultTick, VaultInv, VaultTypeOK, CallRight, EntryRight, CurrentAt, Current
<1>2. CASE Rotate
  <2>1. VaultGrows /\ CallsMove
    BY <1>0, <1>2 DEF Rotate, VaultGrows, CallsMove
  <2> QED
    BY <1>2, <2>1, VaultMoves DEF Rotate
<1>3. CASE ClearSecretCache
  BY <1>3 DEF ClearSecretCache, VaultInv, VaultTypeOK, CallRight, CurrentAt, Current
<1>4. ASSUME NEW c \in Clients, GetSecret(c) PROVE VaultInv'
  <2>1. VaultGrows
    BY <1>4 DEF GetSecret, VaultGrows
  <2>2. client' \in [Clients -> CallState] /\ \A d \in Clients \ {c} : client'[d] = client[d]
    BY <1>0, <1>4 DEF GetSecret, CallState
  <2>3. CallRight(client[c])'
    BY <1>0, <1>4 DEF GetSecret, CallState, CallRight, CurrentAt, Current
  <2> QED
    BY <1>4, <2>1, <2>2, <2>3, VaultMoves DEF GetSecret, CallsMove
<1>5. ASSUME NEW c \in Clients, VaultReads(c) PROVE VaultInv'
  <2>1. client[c] \in CallState /\ CallRight(client[c])
    BY <1>0 DEF VaultInv
  <2>2. CASE client' = [client EXCEPT ![c].at = "fetched", ![c].version = Current,
                                      ![c].since = vaultClock]
    <3>0. Current \in 0..MaxVersions /\ vaultClock \in Nat
      BY <1>0
    <3>1. client' \in [Clients -> CallState] /\ \A d \in Clients \ {c} : client'[d] = client[d]
      BY <1>0, <2>1, <2>2, <3>0 DEF CallState
    <3>2. /\ client'[c].version = Current /\ client'[c].since = vaultClock
          /\ client'[c].at = "fetched" /\ client'[c].floor = client[c].floor
      BY <1>0, <2>1, <2>2 DEF CallState
    <3>3. client[c].floor \in Nat /\ client[c].floor <= stored /\ stored <= Current
      BY <2>1 DEF CallState, CallRight, VaultInv
    <3>4. CallRight(client[c])'
      BY <1>0, <1>5, <3>2, <3>3 DEF VaultReads, CallRight, CurrentAt, Current
    <3> QED
      BY <1>5, <3>1, <3>4, VaultMoves DEF VaultReads, VaultGrows, CallsMove
  <2>3. CASE client' = [client EXCEPT ![c] = Resting]
    <3>0. stored' \in Nat /\ client'[c] = Resting
      BY <1>0, <1>5, <2>3 DEF VaultReads
    <3>1. VaultGrows /\ CallsMove
      BY <1>0, <1>5, <2>3, <3>0, RestingState, AtRest DEF VaultReads, VaultGrows, CallsMove
    <3> QED
      BY <1>5, <3>1, VaultMoves DEF VaultReads
  <2> QED
    BY <1>5, <2>2, <2>3 DEF VaultReads
<1>6. ASSUME NEW c \in Clients, CacheSecret(c) PROVE VaultInv'
  <2>1. client[c] \in CallState /\ CallRight(client[c])
    BY <1>0 DEF VaultInv
  <2>2. client' \in [Clients -> CallState] /\ CallsMove
    <3>0. stored' \in Nat /\ client'[c] = Resting
      BY <1>0, <1>6 DEF CacheSecret
    <3> QED
      BY <1>0, <1>6, <3>0, RestingState, AtRest DEF CacheSecret, CallsMove
  <2>3. secretCache' # NoEntry => EntryRight(secretCache)'
    <3>1. /\ CurrentAt(client[c].version, client[c].since) /\ client[c].since \in Nat
          /\ vaultClock <= client[c].since + ReadTime
          /\ client[c].floor <= client[c].version /\ client[c].floor \in Nat
          /\ client[c].version \in Nat
      BY <1>6, <2>1 DEF CacheSecret, CallRight, CallState
    <3>2. /\ secretCache'.version = client[c].version /\ secretCache'.time = vaultClock
          /\ vault' = vault /\ stored' = stored
          /\ client[c].floor < stored => overtaken'
      BY <1>6 DEF CacheSecret
    <3>3. CurrentAt(secretCache.version, secretCache.time - ReadTime)'
      <4>1. /\ vault \in Seq(Nat) /\ client[c].version \in 1..Len(vault)
            /\ client[c].version < Len(vault) => vault[client[c].version + 1] >= client[c].since
        BY <1>0, <3>1 DEF CurrentAt, Current
      <4>2. /\ client[c].version < Len(vault) => vault[client[c].version + 1] \in Nat
            /\ vaultClock - ReadTime <= client[c].since
        <5>1. client[c].version < Len(vault) => client[c].version + 1 \in 1..Len(vault)
          BY <4>1
        <5>2. client[c].version < Len(vault) => vault[client[c].version + 1] \in Nat
          BY <4>1, <5>1
        <5>3. vaultClock - ReadTime <= client[c].since
          BY <1>0, <3>1
        <5> QED
          BY <5>2, <5>3
      <4>3. client[c].version < Len(vault)
                => vault[client[c].version + 1] >= vaultClock - ReadTime
        BY <1>0, <3>1, <4>1, <4>2
      <4> QED
        BY <3>2, <4>1, <4>3 DEF CurrentAt, Current
    <3> QED
      BY <1>0, <3>1, <3>2, <3>3 DEF EntryRight
  <2>4. secretCache' \in [version : 1..MaxVersions, time : 0..vaultClock']
    BY <1>0, <1>6, <2>1 DEF CacheSecret, CallRight, CurrentAt
  <2>5. UNCHANGED <<vault, vaultClock, stored>> /\ overtaken' \in BOOLEAN
    BY <1>6 DEF CacheSecret
  <2> QED
    <3>1. \A d \in Clients : CallRight(client[d])'
      BY <1>0, <2>2, <2>5 DEF CallsMove, VaultInv, CallRight, CurrentAt, Current
    <3> QED
      BY <1>0, <2>2, <2>3, <2>4, <2>5, <3>1 DEF VaultInv, VaultTypeOK, CallState, Current
<1>7. ASSUME NEW c \in Clients, SetSecret(c) PROVE VaultInv'
  <2>1. client[c] \in CallState /\ CallRight(client[c])
    BY <1>0 DEF VaultInv
  <2>2. client' \in [Clients -> CallState] /\ \A d \in Clients \ {c} : client'[d] = client[d]
    BY <1>0, <1>7 DEF SetSecret, CallState
  <2>3. CallRight(client[c])'
    BY <1>0, <1>7, <2>1 DEF SetSecret, CallState, CallRight
  <2> QED
    BY <1>7, <2>2, <2>3, VaultMoves DEF SetSecret, VaultGrows, CallsMove
<1>8. ASSUME NEW c \in Clients, VaultWrites(c) PROVE VaultInv'
  <2>1. client[c] \in CallState /\ CallRight(client[c])
    BY <1>0 DEF VaultInv
  <2>2. VaultGrows
    BY <1>8 DEF VaultWrites, VaultGrows
  <2>3. CASE /\ Current < MaxVersions /\ vault' = Append(vault, vaultClock)
             /\ client' = [client EXCEPT ![c].at = "wrote", ![c].version = Current + 1]
    <3>0. Current + 1 \in 0..MaxVersions
      BY <1>0, <2>3
    <3>1. client' \in [Clients -> CallState] /\ \A d \in Clients \ {c} : client'[d] = client[d]
      BY <1>0, <2>1, <2>3, <3>0 DEF CallState
    <3>2. /\ client'[c].version = Current + 1
          /\ client'[c].at = "wrote" /\ client'[c].floor = client[c].floor
      BY <1>0, <2>1, <2>3 DEF CallState
    <3>3. Current' = Current + 1
      BY <1>0, <2>3 DEF Current
    <3>4. CallRight(client[c])'
      BY <1>0, <1>8, <2>1, <3>2, <3>3 DEF VaultWrites, CallRight
    <3> QED
      BY <1>8, <2>2, <3>1, <3>4, VaultMoves DEF VaultWrites, CallsMove
  <2>4. CASE client' = [client EXCEPT ![c] = Resting] /\ UNCHANGED vault
    <3>0. stored' \in Nat /\ client'[c] = Resting
      BY <1>0, <1>8, <2>4 DEF VaultWrites
    <3>1. CallsMove
      BY <1>0, <2>4, <3>0, RestingState, AtRest DEF CallsMove
    <3> QED
      BY <1>8, <2>2, <3>1, VaultMoves DEF VaultWrites
  <2> QED
    BY <1>8, <2>3, <2>4 DEF VaultWrites
<1>9. ASSUME NEW c \in Clients, SetReturns(c) PROVE VaultInv'
  <2>1. client[c] \in CallState /\ CallRight(client[c]) /\ client[c].at = "wrote"
    BY <1>0, <1>9 DEF VaultInv, SetReturns
  <2>2. client' \in [Clients -> CallState] /\ \A d \in Clients \ {c} : client'[d] = client[d]
    BY <1>0, <1>9, RestingState DEF SetReturns
  <2>3. UNCHANGED <<vault, vaultClock>> /\ client'[c] = Resting
    BY <1>0, <1>9 DEF SetReturns
  <2>4. CASE UNCHANGED <<secretCache, stored, overtaken>>
    <3>1. VaultGrows /\ CallsMove
      <4>1. CallRight(client[c])'
        BY <1>0, <2>3, <2>4, AtRest
      <4> QED
        BY <2>2, <2>3, <4>1 DEF VaultGrows, CallsMove
    <3> QED
      BY <2>4, <3>1, VaultMoves
  <2>5. CASE /\ secretCache' = NoEntry /\ overtaken' = FALSE
             /\ stored' = IF client[c].version > stored THEN client[c].version ELSE stored
    <3>1. stored' \in 0..MaxVersions /\ stored <= stored' /\ stored' <= Current
      BY <1>0, <2>1, <2>5 DEF CallRight, CallState, VaultInv
    <3>2. \A d \in Clients : CallRight(client[d])'
      <4>1. CallRight(client[c])'
        BY <1>0, <2>3, <3>1, AtRest
      <4>2. ASSUME NEW d \in Clients \ {c} PROVE CallRight(client[d])'
        <5>1. client'[d] = client[d] /\ CallRight(client[d]) /\ client[d].floor \in Nat
          BY <1>0, <2>2 DEF VaultInv, CallState
        <5> QED
          BY <1>0, <2>3, <3>1, <5>1 DEF CallRight, CurrentAt, Current
      <4> QED
        BY <4>1, <4>2
    <3> QED
      BY <1>0, <2>2, <2>3, <2>5, <3>1, <3>2 DEF VaultInv, VaultTypeOK, CallState, Current
  <2> QED
    BY <1>9, <2>4, <2>5 DEF SetReturns
<1>10. CASE UNCHANGED vaultVars
  BY <1>10 DEF vaultVars, VaultInv, VaultTypeOK, CallRight, EntryRight, CurrentAt, Current
<1> QED
  BY <1>1, <1>2, <1>3, <1>4, <1>5, <1>6, <1>7, <1>8, <1>9, <1>10 DEF VaultNext

\* What every reachable state of the secret manager and of Vault satisfies.
THEOREM VaultInvariant == VaultSpec => []VaultInv
  BY VaultInitInv, VaultStepInv, PTL DEF VaultSpec

\* get_secret answers from the cache no version that was superseded more than cache_ttl
\* and the time of one read ago (core/secrets.py).
THEOREM CacheIsBounded == VaultSpec => []StaleBound
<1>1. VaultInv => StaleBound
  <2> SUFFICES ASSUME VaultInv, Fresh PROVE Superseded(secretCache.version) <= CacheTtl - 1 + ReadTime
    BY DEF StaleBound
  <2> DEFINE v == secretCache.version
             t == secretCache.time
  <2>1. /\ vault \in Seq(Nat) /\ vaultClock \in Nat /\ t \in 0..vaultClock
        /\ v \in 1..Len(vault) /\ vaultClock - t < CacheTtl
        /\ v < Len(vault) => vault[v + 1] >= t - ReadTime
    BY DEF VaultInv, VaultTypeOK, EntryRight, CurrentAt, Fresh, Current
  <2>2. CacheTtl \in Nat \ {0} /\ ReadTime \in Nat
    BY VaultAssumption
  <2> HIDE DEF v, t
  <2>3. CASE v = Len(vault)
    BY <2>2, <2>3 DEF Superseded, Current, v
  <2>4. CASE v # Len(vault)
    <3>1. v + 1 \in 1..Len(vault) /\ v < Len(vault)
      BY <2>1, <2>4
    <3>2. vault[v + 1] \in Nat /\ vault[v + 1] >= t - ReadTime
      BY <2>1, <3>1
    <3>3. vaultClock - vault[v + 1] <= CacheTtl - 1 + ReadTime
      BY <2>1, <2>2, <3>2
    <3> QED
      BY <2>4, <3>3 DEF Superseded, Current, v
  <2> QED
    BY <2>3, <2>4
<1> QED
  BY <1>1, VaultInvariant, PTL

\* After set_secret has returned, get_secret answers from its version or a later one,
\* unless the cache entry was put there by a read that set_secret overtook.
THEOREM OwnWritesRead == VaultSpec => []ReadYourWrites
<1>1. VaultInv => ReadYourWrites
  BY DEF VaultInv, VaultTypeOK, EntryRight, CallRight, ReadYourWrites, Fresh
<1> QED
  BY <1>1, VaultInvariant, PTL

-----------------------------------------------------------------------------
(* Components.                                                               *)

\* A step of the composition is a step of each component or leaves it alone.
LEMMA ComponentsStep ==
    ASSUME [ComponentsNext]_<<focus, componentVars>>
    PROVE  /\ [BufferNext]_bufferVars /\ [BreakerNext]_breakerVars /\ [KafkaNext]_kafkaVars
           /\ [FactoryNext]_factoryVars /\ [ShadowNext]_shadowVars /\ [VaultNext]_vaultVars
           /\ UNCHANGED focus
<1>1. CASE ComponentsNext
  BY <1>1 DEF ComponentsNext, Focus
<1>2. CASE UNCHANGED <<focus, componentVars>>
  BY <1>2 DEF componentVars
<1> QED
  BY <1>1, <1>2

\* The components share no state: running one of them, whichever, implements the
\* specification of every one.
THEOREM ComponentsImplementEach ==
    ComponentsSpec => /\ BufferSpec /\ BreakerSpec /\ KafkaSpec
                      /\ FactorySpec /\ ShadowSpec /\ VaultSpec
<1>1. ComponentsInit => /\ BufferInit /\ BreakerInit /\ KafkaInit
                        /\ FactoryInit /\ ShadowInit /\ VaultInit
  BY DEF ComponentsInit
<1>2. [ComponentsNext]_<<focus, componentVars>> =>
        /\ [BufferNext]_bufferVars /\ [BreakerNext]_breakerVars /\ [KafkaNext]_kafkaVars
        /\ [FactoryNext]_factoryVars /\ [ShadowNext]_shadowVars /\ [VaultNext]_vaultVars
  BY ComponentsStep
<1> QED
  BY <1>1, <1>2, PTL DEF ComponentsSpec, BufferSpec, BreakerSpec, KafkaSpec, FactorySpec,
     ShadowSpec, VaultSpec

\* Every component keeps the types of its state, whichever of them runs.
THEOREM ComponentsTypeCorrect == ComponentsSpec => []ComponentsTypeOK
<1> DEFINE Focused == focus \in {"buffer", "breaker", "kafka", "factory", "shadow", "vault"}
<1>1. ComponentsInit => Focused
  BY DEF ComponentsInit
<1>2. Focused /\ [ComponentsNext]_<<focus, componentVars>> => Focused'
  BY ComponentsStep
<1>3. ComponentsSpec => []Focused
  BY <1>1, <1>2, PTL DEF ComponentsSpec
<1>4. Focused /\ BufferInv /\ BreakerInv /\ KafkaInv /\ FactoryInv /\ ShadowInv /\ VaultInv
        => ComponentsTypeOK
  BY DEF ComponentsTypeOK, BufferInv, BreakerInv, KafkaInv, KafkaTyped, FactoryInv, ShadowInv,
     VaultInv
<1> QED
  BY <1>3, <1>4, ComponentsImplementEach, BufferInvariant, BreakerInvariant, KafkaInvariant,
     FactoryInvariant, ShadowInvariant, VaultInvariant, PTL

\* What a run checks of Components holds for every value of the constants: each property
\* is proved of its component, whose specification Components implements.
THEOREM ComponentsCorrect ==
    ComponentsSpec => /\ [](/\ DeadLettersPaired /\ HandledOnce /\ LossesNamed
                            /\ NoRecentDuplicate /\ StaleBound /\ ReadYourWrites
                            /\ LatecomersShare /\ StopSettles /\ LiveEntriesKept)
                      /\ OpenSheds
  BY ComponentsImplementEach, LettersArePaired, SettledOnce, LossesHaveNames, DuplicatesAreOld,
     CacheIsBounded, OwnWritesRead, LatecomersShareOne, StopSettlesAll, LiveEntriesFound,
     OpenCircuitSheds, PTL
=============================================================================
