---------------------------- MODULE KafkaConsumer ----------------------------
(***************************************************************************)
(* HighThroughputKafkaConsumer (src/app/services/kafka_consumer.py): one   *)
(* MessageBatch per partition, emptied by calls of _process_ready_batches  *)
(* that may overlap; failures are counted per message id and end in the    *)
(* DeadLetterQueue.                                                        *)
(*                                                                         *)
(* The loop that polls Kafka is not in the repository.  Deliver makes it   *)
(* call what the repository has for it: _is_duplicate_message, then        *)
(* MessageBatch.add_message on the partition's batch.  A batch is an       *)
(* object: a call that waits for the model keeps its reference when the    *)
(* entry of _message_batches goes or changes.                              *)
(***************************************************************************)
EXTENDS Integers, Sequences, FiniteSets, SequencesExt, FiniteSetsExt

CONSTANTS Partitions,     \* keys of _message_batches
          Topic,          \* Topic[p][o]: the id of the message at offset o of p
          NoId,           \* in Topic: the message has no id
          Drainers,       \* concurrent calls of _process_ready_batches
          Batches,        \* MessageBatch objects
          NoBatch,        \* no entry in _message_batches
          BatchSize,      \* MessageBatch.max_size
          MaxRetries,     \* kafka_max_retries
          OffsetHistory,  \* _max_offset_history
          MaxDeliveries   \* bound: messages polled

ASSUME KafkaAssumption ==
    /\ IsFiniteSet(Partitions) /\ IsFiniteSet(Drainers) /\ IsFiniteSet(Batches)
    /\ DOMAIN Topic = Partitions /\ \A p \in Partitions : DOMAIN Topic[p] \subseteq Nat
    /\ Cardinality(Batches) >= Cardinality(Partitions) + Cardinality(Drainers)
    /\ NoBatch \notin Batches
    /\ BatchSize \in Nat \ {0} /\ MaxRetries \in Nat \ {0} /\ OffsetHistory \in Nat \ {0}
    /\ MaxDeliveries \in Nat

VARIABLES running,       \* _running
          dlq,           \* is there a _dlq?
          batchAt,       \* _message_batches
          content,       \* what each MessageBatch holds
          recent,        \* _recent_offsets
          retries,       \* _retry_tracker, 0 for an absent id
          drainer,       \* where each call of _process_ready_batches is
          counters,      \* metrics: messages_consumed, _processed, _failed
          deadLetters,   \* messages in the dead letter topic, with the id that failed
          accepted,      \* offsets taken from each partition so far, in order
          handled,       \* how often each message met a result
          outcome,       \* messages by what became of them: predicted, failed and not
                         \* retried, failed too often and not dead-lettered, refused
          late           \* messages that came while their partition was being drained

kafkaVars == <<running, dlq, batchAt, content, recent, retries, drainer, counters,
               deadLetters, accepted, handled, outcome, late>>

Message == [partition : Partitions, offset : UNION {DOMAIN Topic[p] : p \in Partitions}]
Messages == {m \in Message : m.offset \in DOMAIN Topic[m.partition]}
MessageId(m) == Topic[m.partition][m.offset]
MessageIds == {MessageId(m) : m \in Messages} \ {NoId}

\* Not in the method: neither a partition nor a batch in hand.
Idle == [batch |-> NoBatch, taken |-> <<>>, left |-> <<>>]

KafkaTypeOK ==
    /\ running \in BOOLEAN /\ dlq \in BOOLEAN
    /\ batchAt \in [Partitions -> Batches \cup {NoBatch}]
    /\ \A b \in Batches : content[b] \in Seq(Messages) /\ Len(content[b]) <= BatchSize
    /\ \A p \in Partitions : recent[p] \in Seq(Nat) /\ Len(recent[p]) <= OffsetHistory
    /\ retries \in [MessageIds -> 0..MaxRetries - 1]
    /\ \A d \in Drainers : /\ drainer[d].batch \in Batches \cup {NoBatch}
                           /\ drainer[d].taken \in Seq(Messages)
                           /\ drainer[d].left \in Seq(Partitions)
    /\ counters \in [consumed : Nat, processed : Nat, failed : Nat]
    /\ deadLetters \subseteq [message : Messages, id : MessageIds \cup {NoId}]
    /\ handled \in [Messages -> Nat]
    /\ outcome \in [predicted : SUBSET Messages, unretried : SUBSET Messages,
                    undelivered : SUBSET Messages, refused : SUBSET Messages]
    /\ late \subseteq Messages

KafkaInit ==
    /\ running = FALSE
    /\ dlq \in BOOLEAN
    /\ batchAt = [p \in Partitions |-> NoBatch]
    /\ content = [b \in Batches |-> <<>>]
    /\ recent = [p \in Partitions |-> <<>>]
    /\ retries = [i \in MessageIds |-> 0]
    /\ drainer = [d \in Drainers |-> Idle]
    /\ counters = [consumed |-> 0, processed |-> 0, failed |-> 0]
    /\ deadLetters = {}
    /\ accepted = [p \in Partitions |-> <<>>]
    /\ handled = [m \in Messages |-> 0]
    /\ outcome = [predicted |-> {}, unretried |-> {}, undelivered |-> {}, refused |-> {}]
    /\ late = {}

-----------------------------------------------------------------------------

StartConsumer ==
    /\ ~running /\ running' = TRUE
    /\ UNCHANGED <<dlq, batchAt, content, recent, retries, drainer, counters, deadLetters,
                   accepted, handled, outcome, late>>

StopConsumer ==
    /\ running /\ running' = FALSE
    /\ UNCHANGED <<dlq, batchAt, content, recent, retries, drainer, counters, deadLetters,
                   accepted, handled, outcome, late>>

\* Messages taken from all partitions so far, for the bound.
Polled == FoldSet(LAMBDA q, sum : sum + Len(accepted[q]), 0, Partitions)

IsDuplicateMessage(p, o) == o \in ToSet(recent[p])

\* Fault: the history keeps one offset less than its limit.
RememberOneLess(offsets, o) ==
    LET longer == Append(offsets, o)
    IN  IF Len(longer) >= OffsetHistory THEN Tail(longer) ELSE longer

\* _is_duplicate_message on a new offset: remembered, and the oldest one forgotten.
Remember(offsets, o) ==
    LET longer == Append(offsets, o)
    IN  IF Len(longer) > OffsetHistory THEN Tail(longer) ELSE longer

\* Fault: a full batch makes room by dropping its oldest message.
AddMessageEvicting(messages, m) ==
    Append(IF Len(messages) >= BatchSize THEN Tail(messages) ELSE messages, m)

\* MessageBatch.add_message: what the batch holds then; a full one refuses the message.
AddMessage(messages, m) ==
    IF Len(messages) >= BatchSize THEN messages ELSE Append(messages, m)

\* The call of drainer d waits for the model with a batch of partition p.
Draining(d, p) == drainer[d].batch # NoBatch /\ drainer[d].taken[1].partition = p

Referenced(b) == b \in Range(batchAt) \/ \E d \in Drainers : drainer[d].batch = b

\* The poller hands over a message: a duplicate is skipped; the offset of any other is
\* remembered and the message added to the partition's batch, which may refuse it.
Deliver(p, o) ==
    LET fresh == CHOOSE b \in Batches : ~Referenced(b)
        batch == IF batchAt[p] = NoBatch THEN fresh ELSE batchAt[p]
        messages == IF batchAt[p] = NoBatch THEN <<>> ELSE content[batch]
        message == [partition |-> p, offset |-> o]
        added == AddMessage(messages, message)
    IN  /\ running
        /\ Polled < MaxDeliveries
        /\ ~IsDuplicateMessage(p, o)
        /\ recent' = [recent EXCEPT ![p] = Remember(@, o)]
        /\ accepted' = [accepted EXCEPT ![p] = Append(@, o)]
        /\ batchAt' = [batchAt EXCEPT ![p] = batch]
        /\ content' = [content EXCEPT ![batch] = added]
        /\ outcome' = IF added = messages
                      THEN [outcome EXCEPT !.refused = @ \cup {message}] ELSE outcome
        /\ late' = IF \E d \in Drainers : Draining(d, p) THEN late \cup {message} ELSE late
        /\ UNCHANGED <<running, dlq, retries, drainer, counters, deadLetters, handled>>

\* The loop of _process_ready_batches from the partitions in left on: missing and empty
\* batches are skipped, the texts of the first other one go to the model.
NextBatch(left, at, contents) ==
    LET ready == {i \in DOMAIN left : /\ at[left[i]] # NoBatch
                                      /\ contents[at[left[i]]] # <<>>}
        i == Min(ready)
    IN  IF ready = {} THEN Idle
        ELSE [batch |-> at[left[i]], taken |-> contents[at[left[i]]],
              left |-> SubSeq(left, i + 1, Len(left))]

\* _process_ready_batches is called; the order of the keys is left open.
ProcessReadyBatches(d) ==
    /\ drainer[d] = Idle
    /\ \E left \in SetToSeqs({p \in Partitions : batchAt[p] # NoBatch}) :
         drainer' = [drainer EXCEPT ![d] = NextBatch(left, batchAt, content)]
    /\ UNCHANGED <<running, dlq, batchAt, content, recent, retries, counters, deadLetters,
                   accepted, handled, outcome, late>>

\* _execute_batch: the counters after n texts.
CountBatch(n, success) ==
    [consumed  |-> counters.consumed + n,
     processed |-> counters.processed + IF success THEN n ELSE 0,
     failed    |-> counters.failed + IF success THEN 0 ELSE n]

\* _handle_batch_results pairs the messages now in the batch with the results, position
\* by position: the positions at which it finds both.
Paired(b, taken) == 1..Min({Len(content[b]), Len(taken)})

\* How often the id at position i has failed, with the results up to i.  A message
\* without an id gets a new one in every call, which has never failed before.
Attempts(taken, i) ==
    LET id == MessageId(taken[i])
    IN  IF id = NoId THEN 1
        ELSE retries[id] + Cardinality({j \in 1..i : MessageId(taken[j]) = id})

\* Positions whose failure uses up kafka_max_retries.
Exhausted(b, taken) == {i \in Paired(b, taken) : Attempts(taken, i) % MaxRetries = 0}

\* _handle_batch_results after a failed prediction: the other failures are counted in the
\* _retry_tracker, whose entries for generated ids nobody looks up; sent are the dead
\* letters that made it.  Whatever becomes of a message, it leaves the batch.
HandleFailures(b, taken) ==
    /\ retries' = [id \in MessageIds |->
            (retries[id] + Cardinality({i \in Paired(b, taken) : MessageId(taken[i]) = id}))
                % MaxRetries]
    /\ \E sent \in SUBSET Exhausted(b, taken) :
         /\ ~dlq => sent = {}
         /\ deadLetters' = deadLetters \cup
                {[message |-> content[b][i], id |-> MessageId(taken[i])] : i \in sent}
         /\ outcome' = [outcome EXCEPT
                !.unretried = @ \cup {content[b][i] : i \in Paired(b, taken) \ Exhausted(b, taken)},
                !.undelivered = @ \cup {content[b][i] : i \in Exhausted(b, taken) \ sent}]

\* _handle_batch_results after a successful one passes over all of them.
HandleSuccesses(b, taken) ==
    /\ outcome' = [outcome EXCEPT !.predicted = @ \cup {content[b][i] : i \in Paired(b, taken)}]
    /\ UNCHANGED <<retries, deadLetters>>

\* Fault: only the messages that were predicted leave the batch.
FinishTaken(d, p, b) ==
    /\ content' = [content EXCEPT ![b] = SubSeq(@, Len(drainer[d].taken) + 1, Len(@))]
    /\ drainer' = [drainer EXCEPT ![d] = NextBatch(@.left, batchAt, content')]
    /\ UNCHANGED batchAt

\* Fault: the entry of the partition goes and the batch is not cleared.
FinishUncleared(d, p, b) ==
    /\ batchAt' = [batchAt EXCEPT ![p] = NoBatch]
    /\ drainer' = [drainer EXCEPT ![d] = IF batchAt[p] = NoBatch THEN Idle
                                         ELSE NextBatch(@.left, batchAt', content)]
    /\ UNCHANGED content

\* batch.clear(), and the entry of the partition goes; a missing one is a KeyError that
\* ends the call.
Finish(d, p, b) ==
    /\ content' = [content EXCEPT ![b] = <<>>]
    /\ batchAt' = [batchAt EXCEPT ![p] = NoBatch]
    /\ drainer' = [drainer EXCEPT ![d] = IF batchAt[p] = NoBatch THEN Idle
                                         ELSE NextBatch(@.left, batchAt', content')]

\* The model has answered d's batch, or raised.
BatchAnswered(d) ==
    LET b == drainer[d].batch
        taken == drainer[d].taken
    IN  /\ b # NoBatch
        /\ \E success \in BOOLEAN :
             /\ counters' = CountBatch(Len(taken), success)
             /\ IF success THEN HandleSuccesses(b, taken) ELSE HandleFailures(b, taken)
        /\ handled' = [m \in Messages |->
                handled[m] + Cardinality({i \in Paired(b, taken) : content[b][i] = m})]
        /\ Finish(d, taken[1].partition, b)
        /\ UNCHANGED <<running, dlq, recent, accepted, late>>

KafkaNext ==
    \/ StartConsumer \/ StopConsumer
    \/ \E p \in Partitions : \E o \in DOMAIN Topic[p] : Deliver(p, o)
    \/ \E d \in Drainers : ProcessReadyBatches(d) \/ BatchAnswered(d)

KafkaSpec == KafkaInit /\ [][KafkaNext]_kafkaVars

-----------------------------------------------------------------------------
(* Properties.                                                               *)

\* However the calls overlap, a dead letter carries the message whose own predictions
\* failed: the batch a call comes back to holds what it held, then what came later, or
\* nothing (kafka_consumer.py:358).
DeadLettersPaired == \A letter \in deadLetters : MessageId(letter.message) = letter.id

Times(m) == Cardinality({i \in DOMAIN accepted[m.partition] :
                            accepted[m.partition][i] = m.offset})

\* Overlapping calls predict a message twice but settle it once: its failure is counted
\* once and it is dead-lettered once for each time it was polled.
HandledOnce == \A m \in Messages : handled[m] <= Times(m)

Buffered == UNION {ToSet(content[b]) : b \in Range(batchAt) \ {NoBatch}}

DeadLettered == {letter.message : letter \in deadLetters}

\* A polled message is buffered, predicted or dead-lettered, or lost in one of four ways:
\* a full batch refused it and its offset counts as seen; its prediction failed, fewer than
\* MaxRetries times or without a dead letter getting through (kafka_consumer.py:365-370);
\* or it came while a call waited for a batch of the same partition (:346).  Calls that
\* overlap, empty each other's batches and remove each other's entries lose nothing else.
LossesNamed ==
    \A m \in Messages : Times(m) > 0 =>
        \/ m \in Buffered \cup outcome.predicted \cup DeadLettered
        \/ m \in outcome.refused \cup outcome.unretried \cup outcome.undelivered \cup late

\* The same offset is taken twice only after the history has forgotten it, with at
\* least OffsetHistory other offsets of the partition in between (kafka_consumer.py:398).
NoRecentDuplicate ==
    \A p \in Partitions : \A i, j \in DOMAIN accepted[p] :
        i < j /\ accepted[p][i] = accepted[p][j] => j - i > OffsetHistory

-----------------------------------------------------------------------------
(* What the documentation says and the code does not do.                     *)

\* "The consumer also handles message failures, retries, and a dead-letter queue" (the
\* class comment): a message that failed fewer than MaxRetries times is still there to be
\* predicted again.
FailuresRetried == outcome.unretried \subseteq Buffered
=============================================================================
