------------------------------ MODULE Components ------------------------------
(***************************************************************************)
(* The components that share no state with the rest of the service: each   *)
(* has a module and a specification of its own.  A behaviour of Components *)
(* is a behaviour of one of them, chosen at the start, while the others    *)
(* stay in their initial states; what holds of all these behaviours holds  *)
(* of each component alone.                                                *)
(***************************************************************************)
EXTENDS AnomalyBuffer, CircuitBreaker, KafkaConsumer, ModelFactory, ShadowMode, VaultSecrets

VARIABLE focus  \* the component that runs

componentVars == <<bufferVars, breakerVars, kafkaVars, factoryVars, shadowVars, vaultVars>>

ComponentsTypeOK ==
    /\ focus \in {"buffer", "breaker", "kafka", "factory", "shadow", "vault"}
    /\ BufferTypeOK /\ BreakerTypeOK /\ KafkaTypeOK
    /\ FactoryTypeOK /\ ShadowTypeOK /\ VaultTypeOK

ComponentsInit ==
    /\ focus \in {"buffer", "breaker", "kafka", "factory", "shadow", "vault"}
    /\ BufferInit /\ BreakerInit /\ KafkaInit /\ FactoryInit /\ ShadowInit /\ VaultInit
    \* What one component's initial states leave open matters to that component alone.
    /\ focus # "kafka" => ~dlq
    /\ focus # "shadow" => ~shadowEnabled /\ ~shadowModel /\ ~asyncDispatch

\* The component f runs, and takes the step next.
Focus(f, next) == focus = f /\ next /\ UNCHANGED focus

ComponentsNext ==
    \/ /\ Focus("buffer", BufferNext)
       /\ UNCHANGED <<breakerVars, kafkaVars, factoryVars, shadowVars, vaultVars>>
    \/ /\ Focus("breaker", BreakerNext)
       /\ UNCHANGED <<bufferVars, kafkaVars, factoryVars, shadowVars, vaultVars>>
    \/ /\ Focus("kafka", KafkaNext)
       /\ UNCHANGED <<bufferVars, breakerVars, factoryVars, shadowVars, vaultVars>>
    \/ /\ Focus("factory", FactoryNext)
       /\ UNCHANGED <<bufferVars, breakerVars, kafkaVars, shadowVars, vaultVars>>
    \/ /\ Focus("shadow", ShadowNext)
       /\ UNCHANGED <<bufferVars, breakerVars, kafkaVars, factoryVars, vaultVars>>
    \/ /\ Focus("vault", VaultNext)
       /\ UNCHANGED <<bufferVars, breakerVars, kafkaVars, factoryVars, shadowVars>>

ComponentsSpec == ComponentsInit /\ [][ComponentsNext]_<<focus, componentVars>>
=============================================================================
